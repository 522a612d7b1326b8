# A verification of RadixIP

RadixIP is a longest-prefix-match engine for IP addresses with a rate-limiting
policy layer on top. It is written twice, in Rust under `lib/rust` and in Go under
`lib/go`, and surrounded by framework adapters, language bindings, an XDP data path
and a Kubernetes operator. This directory holds TLA+ models of its parts, the TLC
configurations that check them on small instances, and TLAPS proofs for all
instances. `PROJECT.json` maps every definition to the lines it models.

## The parts of the system

| part | code | module |
|---|---|---|
| route table contract (traits `RouteTree`, `RadixEngine`) | `lib/rust/engine/src/traits.rs`, `lpm.rs` | `RouteTable` |
| uncompressed trie, Standard and Sharded engine (Rust) | `lib/rust/engine/src/tree.rs`, `engine.rs`, `node/` | `TrieEngine` |
| compressed (Patricia) tree, Rust and Go | `lib/rust/engine/src/tree.rs`, `lib/go/engine/tree.go` | `CompressedTree` |
| result cache with Redis persistence, Rust and Go | `engine/src/cache.rs`, `engine/cache.go` | `LookupCache` |
| control and data plane over Redis Pub/Sub, Rust and Go | `engine/src/hybrid.rs`, `engine/hybrid.go`, the two Redis clients | `HybridSync` |
| token bucket (Rust) | `lib/rust/policy/src/token_bucket.rs` | `TokenBucket` |
| auto-ban tracker and sweeper, Rust and Go | `policy/src/auto_ban.rs`, `policy/auto_ban.go` | `AutoBan` |
| adaptive radix tree, its engine and sharded engine, SIMD search (Rust) | `engine/src/art/`, `engine_art.rs` | `AdaptiveTree` |
| route trie of per-path limits (Rust) | `policy/src/route_trie.rs`, `watcher.rs` | `RouteTrie`, `PolicyRoutes` |
| client address extraction (Rust) | `policy/src/ip_extractor.rs` | `IpExtractor` |
| limiter, policy engine and handle, hot reload, adapters for axum, actix, tower and gRPC (Rust) | `policy/src/`, `policy-ffi/`, `adapters/` | `PolicyGate` |
| XDP blocklist: loader and kernel program (Rust) | `ebpf/xdp-loader`, `ebpf/xdp-kernel` | `XdpBridge` |
| Go's uncompressed trie, adaptive tree, buckets, adapters and XDP loader, operator, Lua scripts, gRPC services, bindings, generic cache, tools, generated code | | not modelled, see below |

A request enters through an adapter, which extracts the client address and calls
`PolicyEngine::check`: the blocklist lookup in the engine, then the limiter, then,
on a refusal, the auto-ban tracker. The tracker writes host routes into the engine
and a sweeper thread takes them out. The engine may be wrapped in a result cache
(`CachedEngine`) or split into two planes synchronised through Redis
(`HybridEngine`). Underneath is one of the trees. Beside all this, the XDP loader
mirrors a blocklist kept in Redis into kernel maps, by which packets are dropped before
any server sees them.

The modules meet at `RouteTable`: `TrieEngine` and `CompressedTree` are compared
with it from below (`TrieEngine` refines it), and `LookupCache` uses it as the
engine it caches. In `AutoBan`, `HybridSync` and `PolicyGate` the engine is only a map
or a set. `PolicyGate` composes `RouteTrie`, `IpExtractor`, the limiter, the trackers
and the watcher behind each adapter; in it a bucket's loop is one step, and so is the
counting of a violation under its lock.

## The modules

**RouteTable** is the abstract contract: a map from prefixes to metadata, `Insert`,
`Remove` and `Clear`, and `Best`, the longest stored prefix that contains an address,
defined by quantifiers.

**TrieEngine** models the uncompressed trie as allocated nodes (`node`) with the
fields `left`, `right`, `prefix` and `metadata`. Nothing in the code serialises two
writers, so each field access of `insert`, `remove`, `clear` and
`longest_prefix_match_binary` is a step of its own. The node variants (Normal,
Atomic, LockFree) all make one field access atomic, so they are one model.
`NumShards > 1` is the `ShardedEngine`, all of whose shards are wrappers of one
trie with counters of their own. `MaxNodes` bounds allocation and `MaxClears` the
calls of `clear`; `SizeMod` is the width of the counter.

**CompressedTree** models the Patricia trees one call at a time: keys cut from addresses
as each language does it, edges, node splits, removal, `clear`. The widths of the two
address families (`V6Width`, `V4Width`) are a few bits. The tree functions are
recursive, so this module is checked by TLC only.

**LookupCache** models `CachedEngine`: the cache behind its `RwLock`, the calls of
several threads step by step (engine first, then Redis, then the cache), the hash
`radixip:entries` and the keys `radixip:lookup:<ip>`, failing Redis commands
(`RedisFails`), Go's expiry, and crashes at any step with a restart that boot-loads
the hash. A call is given a prefix as written (`Written`: a network and host bits). The
engine goes by the network alone; a hash field is the text as written, so a network may
have several fields, and the order of the hash decides which of them boot-loading keeps
(`BootLoads`). What callers use, prefixes, values and addresses, is chosen initially
(`callers`). The history variables record which cached results were already outdated
when stored (`raced`), and for which networks the engine and the hash may differ
because writes overlapped, failed, were cleared or found another spelling (`unsaved`).

**HybridSync** models several processes. Each has a control plane `cp`, a data plane `dp`,
an `inbox` of publications delivered and not yet applied, and `task`, the publications
Rust has spawned and the runtime may run in any order. Redis is the hash and an atomic
delivery to those subscribed at that moment. As in `LookupCache`, fields of the hash keep
the host bits of the prefix as written and the planes do not. Reads, writes, publications
and subscriptions may fail, connections break and processes crash (`MaxFaults` bounds all
of these together). The deployment (`deploy`: the language of each process, the spellings
it writes, and whether Redis is configured) is chosen initially. The history variables
`missed` and `unsynced` say which prefixes a process missed the last update of and for
which hash and channel got out of step.

**TokenBucket** models the packed word (timestamp, fixed-point tokens) that threads
update by compare-and-swap: `Call` reads the clock, then `Load`, `Reject`, and both
outcomes of the swap, `CasOk` and `CasErr`. The refill saturates at `U32Max`. The
clock may be set back. Capacity and rate may be zero, as for the type; `validate`
(`config/src/lib.rs:61-76`) lets neither through from a file. The history variables
count granted requests and the seconds refilled twice.

**AutoBan** models concurrent requests as `PolicyEngine::check` drives them into
`record_violation` (read the clock, count under the entry's lock, record the ban,
insert the host route), the sweeper's pass in its separate steps, time, and an
operator who inserts host routes. `MaxDelay` bounds how long a request may take;
`Horizon` bounds when new requests arrive and `MaxTime` the clock, so that every ban
made before the horizon has time to run out. Go takes one mutex for the whole record
and for the collecting part of the sweep.

**AdaptiveTree** models the adaptive tree one call at a time: nodes of four kinds that
grow and shrink by `add_child` and `remove_child`, `insert_node`, `search` and
`delete_node` as they walk, and the leaves' metadata, which `remove` frees (`live`).
Bytes have `ByteBits` bits and the capacities of the node kinds are constants, so that a
root goes through all kinds with a few keys. A scenario, chosen initially, gives the
prefixes, the writers, the shards and whether the SIMD search is the NEON one. With
several shards a call goes through them one step at a time. The history variables say
which leaves were shared, which prefixes were inserted twice and which calls overlapped.
It is recursive, so TLC only.

**RouteTrie** and **IpExtractor** are operators. A route trie is a function from segment
paths to limiter tables; `TrieInsert`, `Descend` and `MatchRoute` follow `route_trie.rs`.
**PolicyRoutes** builds tries from all lists of up to `MaxRoutes` routes.

**PolicyGate** serves concurrent requests through one of twelve adapters (`adapter`,
chosen initially) while a file is rewritten and reloaded. An adapter is a record of the
choices in which the twelve differ. `gens` are the `PolicyState`s so far; a request keeps
the one it loaded. `trackers` include those of replaced states, whose sweepers live on.
Time is abstracted to what it brings about: a token, an eviction, a violation that has
left its window, an expired ban. `record_violation` fills the table of bans (`Denied`)
before it calls the engine (`InsertBan`). A sweeper collects the expired bans, takes each
out of the table, then each route out of the engine (`Collect`, `Lift`, `Unblock`), and
requests come in between. The file is watched by its path as configured (`given`), which
`HandleEvent` compares with the path a notification carries. The
history variables count tokens and paid requests by bucket (`ledger`) and record bans
whose route a sweeper has removed (`stolen`). `InBudget` bounds the
events together; a write of the file counts twice, as it starts a reload.

**XdpBridge** models `start()` step by step (load the pinned maps, subscribe, read the
snapshot, write it entry by entry, attach), the task that applies messages, and `try_xdp`
as the operator `Verdict`. The maps outlive the process; a restart may bring another
configuration. Calls and connections fail, and the process ends at any point. The
process that maintains the Redis set is external: set first, then message. `reliable`
records a start on empty maps with nothing lost since.

Where Rust and Go share a module, the variable `lang` holds the implementation; the
initial state chooses it and no step changes it, so one run covers both.

`MC*` modules hold the finite sets for TLC. `*Proofs` modules hold the theorems.
Definitions named `X_y` stand before `X` and are faulty versions of `X`: each
property is shown to fail when one of them takes the place of the original.

## What the runs show

Passing runs:

| run | instance | what it shows |
|---|---|---|
| `token_bucket` | 3 threads, capacity 2, 1 token/s, 3 s, clock set back once | tokens are conserved, the ceiling holds, the rate limit holds unless a store moved the timestamp back, a refusal happens only within a second already counted |
| `trie_one_writer` | 1 writer, 1 reader, 2 shards, 3 nested prefixes | calls take effect, the first shard's counter alone is the size, a lookup misses no route that stays and returns none that was never there; refines `RouteTable` |
| `trie_two_writers` | 2 inserting writers, 1 reader | routes that stay are found even though links are overwritten |
| `compressed` | Rust and Go, prefixes of up to 3 bits | holds exactly the table, lookups are sound, and longest except, in Rust, below an edgeless node |
| `cache` | Rust and Go, 2 threads, 1 cache entry, failing Redis, any number of crashes, two spellings of a network | only results already outdated when stored outlive a finished write; the limit holds; in Rust what undisturbed writes left is what a new process loads |
| `autoban` | Rust and Go, 3 requests, an operator, threshold 2, requests shorter than half a ban | table and engine agree, a ban needs its threshold of violations in one window, only expired bans are lifted, every ban is lifted |
| `art` | one tree with 8 keys through all node kinds on two architectures, neighbours, nested prefixes, a default route; two writers of two shards | a match is in the table and contains the address, a prefix without neighbours is found, a call changes what the root finds under one byte only, metadata still in the tree are freed only through an address their leaf covers, no node exceeds its kind, shards agree unless calls overlapped |
| `routes` | all lists of up to 3 out of 24 routes: nested, with wildcards, for some methods | a limiter fits path and method, an exact route wins, a route without rivals is found |
| `gate` | 12 adapters, 2 requests at a time, 3 in all, 2 writes of the file, 4 configurations of which one is invalid | no bucket admits more than its tokens, a ban holds across reloads, forged hops do not matter, the live state catches up with a file configured by its absolute path |
| `xdp` | 6 members, 5 configurations, 2 changes, 1 fault, restarts, maps of 2 entries | protected addresses pass, only listed ones are dropped, a loader that lost nothing mirrors the set and comes to do so |
| `hybrid` | 2 processes, both Rust, both Go or one of each, and no Redis, all writing a network alike, or two Rust ones each in its own spelling; 3 calls, one fault | at rest data planes hold what the hash holds, where nothing was missed, out of step or spelled in two ways, and they come to rest |

The properties are the ones that take several steps to break. Most modules have a type
invariant `TypeOK` as well. `AdaptiveTree`'s, which bounds the nodes, is part of its run;
those of the modules with proofs are proved along, and the others document the state.

The run `trie_lost_insert` ends in a counterexample, which `findings` describes: two
inserts link nodes at one parent, and one acknowledged route is lost.

### What the passing properties leave out

Some properties carry an exception because the code needs it. What lies behind each:

* `RateLimitUnlessRewound`: `allow` reads the clock before its loop, and a late store
  moves the timestamp back, so that seconds are refilled twice. `RateLimit` without the
  exception fails with two threads and a clock that only moves forward.
* `RefusedOnlyWithinSpentSecond` speaks of positive capacity and rate: a bucket that holds
  or earns nothing refuses at any time.
* `HoldsTable` and `LookupSound` are checked for IPv6 keys. In Rust the key of an IPv4
  prefix is cut from the padding before the address: prefixes of one length all have the
  same key, although `engine/tests/integration_test.rs:54-55` expects a miss. With the
  `V4Prefixes` of `MCCompressedTree` both properties fail in Rust.
* `FreshUnlessRaced`: an answer read before an invalidation may be stored after it, and
  stays until the next write of a covering prefix. `CoherentAtRest` fails for this reason.
* `LongestUnlessHidden`: Rust's lookup takes a branch node without an edge for an
  unused one and stops there. In Go both address families live in one tree, so the
  instance uses one family.
* `TrieEngine`'s instances have no default route and one address family: `clear` does
  not reach the root, where the default route is, and equal bits of IPv4 and IPv6 are
  one node. With two writers the size counter may drift and inserts may be lost.
* `SavedUnlessDisturbed`: `prefix.to_string()` (`cache.rs:147`) keeps host bits, so a
  route written as `10.0.0.1/8` and removed as `10.0.0.2/8` comes back at the next start,
  and of two fields of one network either may win. The property speaks of writes that
  found no other spelling of their network in the hash. Go writes hash fields without the
  prefix length and cannot load them again; `clear` leaves the hash; the keys
  `radixip:lookup:<ip>` outlive a removed route.
* `ActiveBanBlocks`, `NoOrphanRoute`, `SweepLiftsExpiredBans`, `BanIsTemporary` assume
  requests shorter than half a ban. In Rust a request that stalls between table and
  engine for longer than the ban inserts its route after the sweep, and a ban renewed
  between collecting and lifting is lifted. The sweeper also removes an operator's
  route for an address whose ban runs out.
* `LoneFound`, `OthersUntouched`, `MatchSound` (adaptive tree): a `Node48` puts a new
  child into the slot after as many as it has, which is in use after a removal from the
  middle (`art/mod.rs:262`). A leaf in the way of a key that goes on alike gets the same
  byte as the new child, and the later of two neighbouring hosts is not found
  (`art/tree.rs:192`); a prefix inserted again leaves a second leaf that survives the
  removal. The NEON lane mask of a full node is a shift by the word's width
  (`node16_simd.rs:106`; `test_find_last_in_count` expects the child). `search` follows
  one path and has no shorter match to fall back to, although the repository's README
  speaks of LPM lookups, so no property says that the longest match is found.
* `FreedOnlyThroughCover`: `remove` frees the metadata of whatever leaf covers the address
  (`engine_art.rs:74-82`). The model ends where freed metadata would be freed again.
* `LoneRouteFound`: a deeper wildcard node replaces the recorded fallback even if it has
  no limiter for the method, and the walk does not go back, although the comment at
  `route_trie.rs:75-76` says deeper paths do not lose the fallback.
* `BanHolds`: a ban counts once `record_violation` has put its route into the engine.
  Between the table and the engine (`auto_ban.rs:107-109`) only an adapter that asks the
  live tracker blocks. A sweeper at work on an earlier ban of the address takes away the
  entry of a ban renewed since it collected, and the route a newer ban still needs, also
  one of another tracker (`stolen`); requests on their way are excused then. And the
  interceptor keeps the tracker of its first configuration, although
  `interceptor/src/from_yaml.rs:45-47` says every call picks up the rebuilt state.
* `ReloadConverges`: a notification that arrives as an error is dropped. One is ignored
  unless it carries the path exactly as configured (`watcher.rs:178`). The notify crate
  reports absolute paths, so a relative path, such as the `config/radixip.yaml` of
  `docs/middleware.md:507`, is never reloaded; the property excepts it.
* `LimitHolds` needs no exception, but says nothing of requests refused too early: in
  `both` mode an address that no prefix contains is charged twice to one bucket.
* `MirrorAtRest`: a full map, a lost message, and a deletion of one of two spellings of a
  prefix leave the maps different from the set. A restart reads the set again, but
  removes nothing from the maps. `ProtectedPasses` speaks of
  addresses protected by every configuration since the maps were created: an older
  entry, also one the present configuration would refuse, stays in the pinned maps.
* `ConvergesUnlessDisturbed`: Rust never polls the future that would publish a remove
  (`hybrid.rs:156`), so `SubscribersApply`, which has no `unsynced`, fails. An update is
  missed by a process that has loaded the hash and not yet subscribed, or that speaks
  the other language (Go drops the update, Rust clears its data plane). Hash and channel
  get out of step when two writes of a prefix overlap, when Rust's spawned publications
  are reordered, when Rust removes or clears, and when the hash has the network under
  another spelling, which the write leaves there.

### Why these bounds

A race in the trie needs two accesses to one node and its parent: two writers or a writer
and a reader, and prefixes that nest or fork, which the chosen sets do. Splits of the
Patricia tree depend on where two keys part: three bits give edges that are empty, partly
and wholly shared, at the root and below it. The cache is at its limit with one entry and
two addresses. The bucket's `U32Max` is scaled down so that saturation is reached within
three seconds; the proofs cover the real one. The auto-ban instance lets three requests
overlap one ban, its expiry and a sweep. Two processes are enough for `HybridSync`, whose
processes interact only through the hash and the channel; three calls give two
updates of a prefix and one in between. One network with two spellings is enough for
fields that contradict each other. The cache runs once with nested prefixes and two
addresses, once in Rust with one network in two spellings and two values. In Go spellings
are left to the proofs.
The node capacities of the adaptive tree keep their order and the gap between growing and
shrinking. Two requests and two writes of the file are enough for a request of an old
state to meet one of a new one, with a ban of either; three arrivals make a ban in
between, before or after each step of a sweep. That a tracker renews a ban between its own
sweeper's last two passes needs more requests, and only the proof covers it. In the XDP
instance the members are two spellings of a host, prefixes around and beside it and an
IPv6 prefix, and a map is full with two. Threads are interchangeable, so symmetry is used
where no liveness is checked.

Deadlock is checked except where the program really may stop: when the bounds on
allocation, time or calls have been used up.

### Fairness

* `AutoBan` (`BanIsTemporary`): requests in progress finish, because `check` has no
  loop and waits for nothing but short locks; the sweeper thread loops for ever; time
  passes. Arrivals are not fair.
* `HybridSync` (`EventuallyConsistent`): as long as a call has to return, a spawned
  task to run, a subscription to be made or a publication to be applied, some process
  does so. Nothing makes a process boot, call or recover.
* `PolicyGate` (`ReloadConverges`): the watcher's thread handles the notifications it
  has. Writes and requests are not fair.
* `XdpBridge` (`EventuallyMirrored`): a loader that has started goes on, and a change
  made is published. Nothing makes a process start, or the set change.

All of it is weak fairness. The remaining properties need none.

## What is proved

The theorems hold for all values of the constants that satisfy the named assumptions.

**TokenBucketProofs** (from `BucketAssumption`: capacity and rate are natural numbers, the
word holds at least one token). The inductive invariant is `TypeOK`, `BurstCeiling`,
`Conservation` and `NoFutureReading` (no thread holds a clock reading that has not
happened). It is needed because the rate limit follows only from an account of where
every token came from: granted + left <= burst + refill of the seconds counted in.
`CasOkPreserves` is the step where that account changes, and `RefilledBounds` bounds
the saturating refill. From it: `BurstCeilingHolds`, `ConservationHolds`,
`RateLimitHolds` (at most capacity + rate x time while no store moved the timestamp
back and the clock was not set back) and `RefusalHolds` (for positive capacity and rate).

**TrieEngineProofs** (from `ConstantsAssumption` and `PrefixAssumption`: one address
family, and no default route where `clear()` is used). For any number of concurrent
writers, lookups, shards, prefixes and nodes: `TypeCorrect` (links and threads stay among
the nodes allocated so far, no insert or remove reads a bit past the length of its prefix,
what a lookup has kept is the metadata of a route containing its address), and
`StableFound`, a lookup
returns a route at least as long as each covering route that stayed in the table while it
ran. The table is defined by walking the tree, which writers change under each other. So
`Base(P, A)` gives every node ever allocated a place `P[n]`, the bits that led to it when
it was linked, and says which nodes `A` still hang on the root. Places never change, also
when one writer overwrites another's link or `clear()` cuts off a half. Pointers, prefixes
and metadata agree with the places (`Shape`), a thread stands at the place its bits lead
to (`WriterOK`, `ReaderOK`), and a lookup has read each stable route or stands above it
inside the tree (`Finds`). `TableShown` connects the places with the recursive definition
of the table; its induction is done by hand, on a least counterexample.

The second part of the module has `SingleWriter` as a hypothesis of its theorems: one
thread calls `insert`, `remove` and `clear`, any number look up (the run
`trie_lost_insert` shows that two writers break the first theorem). `CallsEffective`,
`SizeCounts`, `ResultPresent`, and `Refines`: the trie implements **RouteTable**, each of
its steps is one of the table or a stutter. `Inv` adds to `Base` that the node the writer
stands at hangs on the root and what it read there still holds (`Lone`), which side of
its store the table is on (`Effects`), how far the first shard's counter lags (`Sizes`),
and that a lookup reaches only metadata that was in the table while it ran, also below a
half that has been cut off (`Seen`). Two facts about numbers and finite sets (the least
element of a set, and how adding or removing one element changes its cardinality) are
conjuncts of the invariants; the library's theorems give them where the invariants are
established, near the end.

**LookupCacheProofs** (from `PrefixAssumption`). `TypesHold`, and
`FreshUnlessRacedHolds`: a result that was right when stored is served only while it
is right or while the write that outdated it is still on its way to its invalidation.
The invariant is inductive together with the types; the argument is that a write only
changes matches of addresses its prefix contains (`MatchUnaffected`), and these are
what its pending `invalidate` will drop (`FreshWrite`, `FreshDrop`).

In the same module `SavedUnlessDisturbedHolds`: in Rust the engine and whatever
boot-loading may make of the hash agree about every network whose writes did not overlap,
fail, meet a clear or find another spelling, as soon as no write is in progress, however
often processes crash. The invariant `SaveInv` says what holds in between: of an
undisturbed network there is one writer at most, and the hash lags behind the engine only
while that writer has the command still to send, to the one field the network has
(`OnItsWay`). `CacheBoundedHolds`: the cache never has more than
`MaxEntries` results (one, if that is 0).

**AutoBanProofs** (from `ConstantsAssumption`). `BansAgree`: if requests take less
than half a ban (`Timely`), an active ban blocks and no host route is left behind.
`SweepIsSafe`: under the same assumption table and engine lose an address only while
no ban of it is active. `GoNoOrphan`: in Go no host route is left behind, however long
requests take. All three allow an operator. The invariant adds to the types: clock
readings are past (`Timing`); a recorded ban is in the engine or about to be
(`RecordedBan`); a ban ends after all requests that were in flight when it was made
(`RequestsEnd`); what the sweeper has collected has run out (`Collected`). The key
lemma, `NobodyInFlight`, is that nobody is in flight for an address whose ban has run
out, so nothing can happen to it between the sweeper's steps. Without the timing
assumption the first two are false in Rust, as described above. `BansNeedThreshold` needs
no such assumption: a ban rests on the threshold of violations, no further apart than the
window and the time a request may take. `Counting` says that the stored times are past,
and `KeptTimes` what the filter in `record_violation` keeps of them.

**XdpBridgeProofs** (from `ConstantsAssumption`). `ProtectedPassesHolds`,
`OnlyListedDroppedHolds` and `FailClosedHolds`, for any members, configurations, address
widths, restarts and faults. The inductive invariant is `TypeOK`, `FailClosed`,
`Provenance` (every entry of the maps is what `normalize` makes of a member listed at
some time, under a configuration used at some time) and `InForce` (the present
configuration is one of these). `NeverCovered` and `CoveredNamed` then say what an entry
`normalize` lets through can and cannot match.

Also there, with `NativeSources` (no IPv6 source lies in the
IPv4-mapped block; such a source is looked up among the IPv6 prefixes, where `normalize`
never puts a mapped one): `MirrorAtRestHolds`. Set and maps differ while messages are
under way, so `MirrorInv` speaks about the messages: the last pending one about a member
says whether it is in the set (`Tells`), and a prefix that no pending message is about is
in the maps, or about to be written from the snapshot, exactly if it is listed
(`Mirrors`). Subscribing before the snapshot is read is what makes this inductive.

**HybridSyncProofs** (from `ConstantsAssumption`). `TypesHold` and
`ConvergesUnlessDisturbedHolds`, for any number of processes of both languages, prefixes,
calls and faults. The property speaks about rest, so `SyncInv` speaks about what is under
way: a publication about a prefix that is in step says what the hash holds (`Told`), and
once none is pending, what a process's inbox leads to is what the hash holds (`Follows`;
`Ends` reads it off the last message that changes the prefix). A write puts a prefix in
step only if no other publication about it is pending (`WriteSynced`); without that
guard the last publication need not be that of the last write. Without Redis the two
planes differ only by the call in progress (`Alone`). The hash is kept by spelling:
`Plain` says that for a network in step loading can leave one value only. `Store` is the
table of these values, and what `SyncInv` speaks about (`StoreValue`, `StoreWrite`).

**PolicyGateProofs** (from `ConstantsAssumption`: the types of configurations and headers,
and that the absent value is none of them). For any number of concurrent requests, through
every adapter, with any configurations, routes, reloads, evictions and sweeps:
`LimitsHold`, `BansHold`, `ForgeriesIgnored` and `GateTyped`. `Types` and `Stocked` say
what a request in progress relies on: a state that exists, a trie that is that of its
state's routes, and buckets left to charge. `LimitHolds` is not inductive: a request in
both mode pays only when its second bucket lets it through, for a token the first one gave
earlier. `Covered` therefore counts in the requests that hold such a token: paid + left +
pending <= made. Pending requests are counted by `Cardinality`, so the lemmas on `Consume`
are about sets of requests that gain or lose one. For bans, `Held` names what still stands
between a banned request and another answer, the tracker of its state or the route in the
engine, for each step of each adapter, while insertions and sweeps of any tracker are
half-way. For addresses, `Judged` ties the address to the state the request loaded, and
`JudgedForged` shows that a hop in front never becomes the last untrusted one.

**PolicyRoutesProofs** (from `ConstantsAssumption`: paths are sequences of segments, and
the absent value is none of them). For any list of routes and any request:
`MatchIsSound`, the limiter found belongs to a route that fits the path and the method;
`ExactWins`, a route spelled like the path wins, and of those naming the method the last;
`LoneFound`, a route that fits is found if no other route leads the walk away;
`RoutesTyped`. `Inv` says of the trie under construction that each limiter stands at the
segments of its route (`Tabled`), that each route has its nodes, ancestors included, and a
limiter for each of its methods (`Stored`), and that there are no other nodes (`Made`).
`split_path` and the loop of `match_route` are recursive functions. `SplitPathSeq` and
`WalkIs` show that they have a value, built step by step, and `Climb` is induction up to
the number of segments. With it `StaysOnPath`, `ExactWalk` and `LoneWalk` say where the
walk is after each segment: at a node that agrees with the path, at the path itself, or
at the beginning of the one route that fits.

Only model-checked:

* liveness (`BanIsTemporary`, `EventuallyConsistent`, `EventuallyMirrored`,
  `ReloadConverges`), which is out of the prover's reach;
* `CompressedTree` and `AdaptiveTree`, which walk their trees by `RECURSIVE` operators.

## What is not modelled

* Concurrency inside one split of the Rust Patricia tree (its calls are modelled one
  at a time), and the locking of its node variants.
* In the adaptive tree: keys of both address families in one tree, calls after one child
  hangs in two places, and what reading freed metadata does. The vector instructions of
  the SIMD search (its result is modelled).
* Go's uncompressed trie, adaptive tree, buckets, watcher and adapters, and the XDP
  programs in Go and C. They are second implementations of parts modelled from Rust, but
  not the same code: a Go bucket idle for longer than its time to live is reset by a plain
  store (`token_bucket.go:98-104`), its sharded engine has a tree for each shard, and its
  XDP loader skips the snapshot when the subscription fails. Nothing here is claimed of
  them.
* The Kubernetes operator and the Lua limiters.
* gRPC services and bindings: each call forwards to one operation (`stream_insert` to one
  per message, and what was inserted stays when the stream breaks); pointer lifetimes are
  outside TLA+. The generic cache in `lib/rust/cache/src/memory.rs`: nothing uses it.
  Benchmarks, tools, generated code.
* Statistics counters, metrics, logging, status codes and error texts.
* Redis itself beyond its use: commands are atomic, a publication reaches those
  subscribed at that moment.

## Plan

In this order:

1. `GoBucket`: Go's token and leaky bucket and the bucket table at its limit. `GoTrie`:
   Go's tree under its mutex and the sharded engine.
2. `CompressedRace`: a Rust Patricia split store by store under a reader.
3. `Operator`: reconciliation and the Lua scripts across Redis restarts.
4. Theorems about `CompressedTree`, with its walks as recursive functions.
