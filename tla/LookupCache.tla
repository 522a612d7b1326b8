----------------------------- MODULE LookupCache -----------------------------
(***************************************************************************)
(* The per-address result cache in front of an engine                      *)
(* (lib/rust/engine/src/cache.rs, lib/go/engine/cache.go): CachedEngine's  *)
(* calls by several threads, its RwLock, the Redis hash that persists the  *)
(* routes, the Redis keys that share lookup results, and restarts.         *)
(*                                                                         *)
(* The engine below is the route table of module RouteTable; each call to  *)
(* it, each Redis command and each critical section is one step.  Metadata *)
(* is [p, v]: the prefix it was inserted under and a value.                *)
(*                                                                         *)
(* Callers may write a prefix with host bits (10.0.0.1/8): the engine and  *)
(* the invalidation go by its network, the hash field by how it is written.*)
(***************************************************************************)
EXTENDS Integers, Sequences, FiniteSets

CONSTANTS Langs,                   \* the implementations considered, "rust" and "go"
          Prefixes, Vals, Ips, Nil,
          Written,                 \* prefixes as callers write them: [net, host], host the
                                   \* positions of the bits set after the mask
          Callers,                 \* for each implementation, what its callers may use:
                                   \* [writes, vals, asks], prefixes, values and addresses
          Threads,
          Ops,                     \* operations the callers use
          MaxEntries,              \* CacheConfig.max_entries
          Redis, RedisFails        \* Redis is configured; its commands may fail

ASSUME PrefixAssumption ==
    /\ \A x \in Prefixes \cup Ips : Len(x.bits) \in Nat
    /\ \A w \in Written : w.net \in Prefixes
    /\ Nil \notin Prefixes \cup Written

VARIABLES lang,      \* the implementation that runs
          callers,   \* what its callers use
          engine,    \* Prefixes -> metadata: the inner engine
          cache,     \* the cached results, a function on a set of addresses
          expired,   \* addresses whose entry is past expiresAt (Go only)
          lock,      \* the thread inside the cache's write lock, or Nil
          entries,   \* Redis hash radixip:entries, a function on its fields
          shared,    \* Redis keys radixip:lookup:<ip>, Nil when absent
          th,        \* thread -> [pc, w, ip, m], w the prefix being written
          raced,     \* history: entries that were outdated when stored
          unsaved    \* history: prefixes whose writes overlapped, failed or were cleared,
                     \* or that the hash has written differently

vars == <<lang, callers, engine, cache, expired, lock, entries, shared, th, raced, unsaved>>

Ref == INSTANCE RouteTable WITH routes <- engine

Match(table, ip) == LET p == Ref!Best(table, ip) IN IF p = Nil THEN Nil ELSE table[p]

Idle == [pc |-> "idle", w |-> Nil, ip |-> Nil, m |-> Nil]

Put(f, x, v) == [y \in DOMAIN f \cup {x} |-> IF y = x THEN v ELSE f[y]]

Without(f, S) == [x \in DOMAIN f \ S |-> f[x]]

Meta == [p : Prefixes, v : Vals]

\* the hash field: Rust writes address and length, host bits included, Go the address alone
RustField(w) == w
GoField(w) == [fam |-> w.net.fam,
               ones |-> {i \in DOMAIN w.net.bits : w.net.bits[i] = 1} \cup w.host]
Field(w) == IF lang = "rust" THEN RustField(w) ELSE GoField(w)

\* the fields that parse as a CIDR prefix of network p
FieldsOf(p) == {f \in DOMAIN entries : f \in Written /\ f.net = p}

\* what boot-loading may leave in the engine at p: HashMap order decides which field is last
BootLoad(p) == IF FieldsOf(p) = {} THEN {Nil} ELSE {entries[f] : f \in FieldsOf(p)}

BootLoads ==
    LET found == [p \in Prefixes |-> BootLoad(p)]
    IN  {e \in [Prefixes -> UNION {found[p] : p \in Prefixes}] : \A p \in Prefixes : e[p] \in found[p]}

Init ==
    /\ lang \in Langs
    /\ callers \in Callers[lang]
    /\ engine = [p \in Prefixes |-> Nil]
    /\ cache = <<>>
    /\ expired = {}
    /\ lock = Nil
    /\ entries = <<>>
    /\ shared = [ip \in Ips |-> Nil]
    /\ th = [t \in Threads |-> Idle]
    /\ raced = {}
    /\ unsaved = {}

\* unsaved is kept where boot-loading can find routes at all
Unsaved(S) == unsaved' = IF lang = "rust" THEN S ELSE unsaved

\* thread t is between the engine write of p and the end of its call
Writes(t, p) == th[t].w # Nil /\ th[t].w.net = p

(***************************************************************************)
(* A write begins: it will be saved if no other write of the network is on *)
(* its way, the hash has the network under no other spelling, and Redis    *)
(* does not fail.                                                          *)
(***************************************************************************)
Begin(w) ==
    Unsaved(IF (\E t \in Threads : Writes(t, w.net)) \/ ~(FieldsOf(w.net) \subseteq {w})
            THEN unsaved \cup {w.net} ELSE unsaved \ {w.net})

At(t, pc) == th[t].pc = pc
Goto(t, pc) == th' = [th EXCEPT ![t].pc = pc]
Return(t) == th' = [th EXCEPT ![t] = Idle]

----------------------------------------------------------------------------
\* CachedEngine::insert
Insert(t, w, v) ==
    /\ At(t, "idle") /\ "insert" \in Ops
    /\ engine' = [engine EXCEPT ![w.net] = [p |-> w.net, v |-> v]]
    /\ th' = [th EXCEPT ![t] = [Idle EXCEPT !.pc = IF Redis THEN "hset" ELSE "invalidate",
                                            !.w = w, !.m = [p |-> w.net, v |-> v]]]
    /\ Begin(w)
    /\ UNCHANGED <<cache, expired, lock, entries, shared, raced>>

HSet(t) ==
    /\ At(t, "hset")
    /\ \/ entries' = Put(entries, Field(th[t].w), th[t].m) /\ UNCHANGED unsaved
       \/ RedisFails /\ UNCHANGED entries /\ Unsaved(unsaved \cup {th[t].w.net})
    /\ th' = [th EXCEPT ![t].pc = "invalidate", ![t].m = Nil]
    /\ UNCHANGED <<engine, cache, expired, lock, shared, raced>>

\* CachedEngine::remove
Remove(t, w) ==
    /\ At(t, "idle") /\ "remove" \in Ops
    /\ engine' = [engine EXCEPT ![w.net] = Nil]
    /\ th' = [th EXCEPT ![t] = [Idle EXCEPT !.pc = IF Redis THEN "hdel" ELSE "invalidate",
                                            !.w = w]]
    /\ Begin(w)
    /\ UNCHANGED <<cache, expired, lock, entries, shared, raced>>

\* Mutant: the field stays.
HDel_skipped(t) ==
    /\ At(t, "hdel")
    /\ Goto(t, "invalidate")
    /\ UNCHANGED <<engine, cache, expired, lock, entries, shared, raced, unsaved>>

HDel(t) ==
    /\ At(t, "hdel")
    /\ \/ entries' = Without(entries, {Field(th[t].w)}) /\ UNCHANGED unsaved
       \/ RedisFails /\ UNCHANGED entries /\ Unsaved(unsaved \cup {th[t].w.net})
    /\ Goto(t, "invalidate")
    /\ UNCHANGED <<engine, cache, expired, lock, shared, raced>>

\* Mutant: only the prefix's own network address is dropped.
Invalidate_first(t) ==
    /\ At(t, "invalidate") /\ lock = Nil
    /\ cache' = Without(cache, {ip \in Ips : Ref!Covers(th[t].w.net, ip)
                                   /\ \A i \in DOMAIN ip.bits :
                                        i > Len(th[t].w.net.bits) => ip.bits[i] = 0})
    /\ expired' = expired \cap DOMAIN cache'
    /\ Return(t)
    /\ UNCHANGED <<engine, lock, entries, shared, raced, unsaved>>

\* RadixCache::invalidate, the last step of insert and remove
Invalidate(t) ==
    /\ At(t, "invalidate") /\ lock = Nil
    /\ cache' = Without(cache, {ip \in Ips : Ref!Covers(th[t].w.net, ip)})
    /\ expired' = expired \cap DOMAIN cache'
    /\ Return(t)
    /\ UNCHANGED <<engine, lock, entries, shared, raced, unsaved>>

\* CachedEngine::clear: Redis is left alone
Clear(t) ==
    /\ At(t, "idle") /\ "clear" \in Ops
    /\ engine' = [p \in Prefixes |-> Nil]
    /\ Unsaved(Prefixes)
    /\ Goto(t, "clear")
    /\ UNCHANGED <<cache, expired, lock, entries, shared, raced>>

ClearCache(t) ==
    /\ At(t, "clear") /\ lock = Nil
    /\ cache' = <<>>
    /\ expired' = {}
    /\ Return(t)
    /\ UNCHANGED <<engine, lock, entries, shared, raced, unsaved>>
----------------------------------------------------------------------------
\* RadixCache::lookup_with_cache
Lookup(t, ip) ==
    /\ At(t, "idle") /\ "lookup" \in Ops
    /\ th' = [th EXCEPT ![t] = [Idle EXCEPT !.pc = "read", !.ip = ip]]
    /\ UNCHANGED <<engine, cache, expired, lock, entries, shared, raced, unsaved>>

Hit(t) ==
    /\ At(t, "read") /\ lock = Nil
    /\ th[t].ip \in DOMAIN cache \ expired
    /\ Return(t)
    /\ UNCHANGED <<engine, cache, expired, lock, entries, shared, raced, unsaved>>

Miss(t) ==
    /\ At(t, "read") /\ lock = Nil
    /\ th[t].ip \notin DOMAIN cache
    /\ Goto(t, "engine")
    /\ UNCHANGED <<engine, cache, expired, lock, entries, shared, raced, unsaved>>

EngineLookup(t) ==
    LET m == Match(engine, th[t].ip) IN
    /\ At(t, "engine")
    /\ th' = [th EXCEPT ![t].m = m,
                        ![t].pc = IF m = Nil /\ Redis THEN "get" ELSE "store"]
    /\ UNCHANGED <<engine, cache, expired, lock, entries, shared, raced, unsaved>>

GetShared(t) ==
    /\ At(t, "get")
    /\ \/ th' = [th EXCEPT ![t].m = shared[th[t].ip], ![t].pc = "store"]
       \/ RedisFails /\ Goto(t, "store")
    /\ UNCHANGED <<engine, cache, expired, lock, entries, shared, raced, unsaved>>

\* Mutant: evicts only above the limit.
Evicted_late ==
    IF Cardinality(DOMAIN cache) <= MaxEntries THEN {cache}
    ELSE {Without(cache, {key}) : key \in DOMAIN cache}

\* the contents after making room: any one key goes, HashMap order being arbitrary
Evicted ==
    IF Cardinality(DOMAIN cache) < MaxEntries \/ cache = <<>> THEN {cache}
    ELSE {Without(cache, {key}) : key \in DOMAIN cache}

\* the write lock is kept while the result goes to Redis
Store(t) ==
    LET ip == th[t].ip
        m == th[t].m
        publish == Redis /\ m # Nil
    IN  /\ At(t, "store") /\ lock = Nil
        /\ \E rest \in Evicted : cache' = Put(rest, ip, m)
        /\ expired' = (expired \ {ip}) \cap DOMAIN cache'
        /\ raced' = IF m = Match(engine, ip) THEN raced \ {ip} ELSE raced \cup {ip}
        /\ lock' = IF publish THEN t ELSE Nil
        /\ IF publish THEN Goto(t, "set") ELSE Return(t)
        /\ UNCHANGED <<engine, entries, shared, unsaved>>

SetShared(t) ==
    /\ At(t, "set") /\ lock = t
    /\ \/ shared' = [shared EXCEPT ![th[t].ip] = th[t].m]
       \/ RedisFails /\ UNCHANGED shared
    /\ lock' = Nil
    /\ Return(t)
    /\ UNCHANGED <<engine, cache, expired, entries, raced, unsaved>>

\* Go: an entry passes its expiresAt; Rust has no expiry
Expire(ip) ==
    /\ lang = "go" /\ ip \in DOMAIN cache \ expired
    /\ expired' = expired \cup {ip}
    /\ UNCHANGED <<engine, cache, lock, entries, shared, th, raced, unsaved>>

\* Go: the read lock is released before the write lock is taken for the delete
SeeExpired(t) ==
    /\ At(t, "read") /\ lock = Nil
    /\ th[t].ip \in expired
    /\ Goto(t, "delete")
    /\ UNCHANGED <<engine, cache, expired, lock, entries, shared, raced, unsaved>>

DeleteExpired(t) ==
    /\ At(t, "delete") /\ lock = Nil
    /\ cache' = Without(cache, {th[t].ip})
    /\ expired' = expired \ {th[t].ip}
    /\ Goto(t, "engine")
    /\ UNCHANGED <<engine, lock, entries, shared, raced, unsaved>>

(***************************************************************************)
(* The process dies at any point and a new one boot-loads the hash, or     *)
(* starts empty when the hash cannot be read.                              *)
(***************************************************************************)
Restart ==
    /\ \/ /\ engine' \in BootLoads
          /\ Unsaved({p \in Prefixes : BootLoad(p) # {engine'[p]}})
       \/ RedisFails /\ engine' = [p \in Prefixes |-> Nil] /\ Unsaved(Prefixes)
    /\ cache' = <<>>
    /\ expired' = {}
    /\ lock' = Nil
    /\ th' = [t \in Threads |-> Idle]
    /\ raced' = {}
    /\ UNCHANGED <<entries, shared>>
----------------------------------------------------------------------------
LookupWithCache(t) ==
    \/ \E ip \in Ips \cap callers.asks : Lookup(t, ip)
    \/ Hit(t) \/ Miss(t) \/ EngineLookup(t) \/ GetShared(t) \/ Store(t) \/ SetShared(t)

\* lookupWithCache of cache.go: the same steps, and the expiry check
GoLookupWithCache(t) == LookupWithCache(t) \/ SeeExpired(t) \/ DeleteExpired(t)

Write(t) ==
    \/ \E w \in Written \cap callers.writes, v \in Vals \cap callers.vals : Insert(t, w, v)
    \/ \E w \in Written \cap callers.writes : Remove(t, w)
    \/ HSet(t) \/ HDel(t) \/ Invalidate(t)
    \/ Clear(t) \/ ClearCache(t)

\* Insert, Remove and Clear of cache.go
GoWrite(t) == Write(t)

Next ==
    /\ \/ \E t \in Threads : lang = "rust" /\ (LookupWithCache(t) \/ Write(t))
       \/ \E t \in Threads : lang = "go" /\ (GoLookupWithCache(t) \/ GoWrite(t))
       \/ \E ip \in Ips : Expire(ip)
       \/ Restart
    /\ UNCHANGED <<lang, callers>>

Spec == Init /\ [][Next]_vars
----------------------------------------------------------------------------
Quiet == \A t \in Threads : At(t, "idle")

TypeOK ==
    /\ lang \in Langs
    /\ engine \in [Prefixes -> Meta \cup {Nil}]
    /\ DOMAIN cache \subseteq Ips
    /\ \A ip \in DOMAIN cache : cache[ip] \in Meta \cup {Nil}
    /\ expired \subseteq DOMAIN cache
    /\ lock \in Threads \cup {Nil}
    /\ shared \in [Ips -> Meta \cup {Nil}]
    /\ \A f \in DOMAIN entries : entries[f] \in Meta
    /\ th \in [Threads -> [pc : {"idle", "hset", "hdel", "invalidate", "clear", "read",
                                "delete", "engine", "get", "store", "set"},
                           w : Written \cup {Nil}, ip : Ips \cup {Nil}, m : Meta \cup {Nil}]]
    /\ \A t \in Threads :
        /\ th[t].pc \in {"hset", "hdel", "invalidate"} => th[t].w \in Written
        /\ th[t].pc = "hset" => th[t].m \in Meta
        /\ th[t].pc \in {"read", "delete", "engine", "get", "store", "set"} => th[t].ip \in Ips
    /\ raced \subseteq Ips /\ unsaved \subseteq Prefixes

\* a write that changed what the engine answers for ip and has yet to invalidate it
Pending(ip) ==
    \E t \in Threads :
        \/ th[t].pc \in {"hset", "hdel", "invalidate"} /\ Ref!Covers(th[t].w.net, ip)
        \/ th[t].pc = "clear"

(***************************************************************************)
(* Invalidation is complete (cache.rs:104-108): a result that was right    *)
(* when it was stored is served only while it still is, or while the write *)
(* that outdated it is on its way to the cache.                            *)
(***************************************************************************)
FreshUnlessRaced ==
    \A ip \in DOMAIN cache : cache[ip] = Match(engine, ip) \/ ip \in raced \/ Pending(ip)

(***************************************************************************)
(* "Invalidate relevant cache entries" (cache.rs:151): when no call is in  *)
(* progress every cached result is what the engine answers.                *)
(***************************************************************************)
CoherentAtRest ==
    Quiet => \A ip \in DOMAIN cache : cache[ip] = Match(engine, ip)

(***************************************************************************)
(* The cache never holds more than max_entries results, or one if that is  *)
(* zero (cache.rs:84-90).                                                  *)
(***************************************************************************)
CacheBounded == Cardinality(DOMAIN cache) <= IF MaxEntries = 0 THEN 1 ELSE MaxEntries

(***************************************************************************)
(* A completed insert or remove survives restarts in Rust: in whatever     *)
(* order boot-loading takes the fields it leaves every prefix as the       *)
(* engine has it (cache.rs:42-53, 143-149), if the last write had the      *)
(* prefix to itself, Redis did not fail it, no clear() came after it, and  *)
(* the hash did not have the prefix under another spelling: to_string      *)
(* keeps host bits (cache.rs:147, 166), so 10.0.0.1/8 and 10.0.0.0/8 are   *)
(* two fields of one route, and removing it by one leaves the other.  A    *)
(* crash may fall between any two steps.                                   *)
(***************************************************************************)
SavedUnlessDisturbed ==
    Redis /\ lang = "rust" =>
        \A p \in Prefixes \ unsaved :
            (\A t \in Threads : ~Writes(t, p)) => BootLoad(p) = {engine[p]}
=============================================================================
