----------------------------- MODULE PolicyGate -----------------------------
(***************************************************************************)
(* Requests through a framework adapter while the configuration is         *)
(* reloaded: the file watcher (policy/src/watcher.rs), the limiter with    *)
(* its key modes (limiter.rs), PolicyEngine and PolicyHandle (lib.rs,      *)
(* handle.rs, policy-ffi) and the adapters for axum, actix, tower and gRPC *)
(* (adapters/).                                                            *)
(*                                                                         *)
(* Every reload makes a PolicyState with a limiter, a route trie and an    *)
(* auto-ban tracker of its own; the engine is shared, and the trackers of  *)
(* replaced states keep sweeping it.  Time is abstracted to the events it  *)
(* brings about (a token, an idle bucket, an expired ban); AutoBan and     *)
(* TokenBucket model the clock.  Counting a violation and banning happen   *)
(* under one lock and are one step; the engine is called after it, and the *)
(* sweeper's passes are steps of their own.                                *)
(***************************************************************************)
EXTENDS RouteTrie, FiniteSets

CONSTANTS Reqs,         \* concurrent requests, numbered; the first free one is used
          Bad, Invalid, \* text that is no address; an error of extract_ip
          Ips,          \* client addresses
          Listed,       \* addresses that networks in the engine cover
          Subnet,       \* the network of an address at the configured depth
          Configs,      \* configurations a file may hold
          Notes,        \* notifications: [path, kind]
          Inputs,       \* requests: headers, packed address, method, path
          MaxWrites,    \* bound: writes of the file
          MaxArrivals,  \* bound: requests
          MaxTicks,     \* bound: tokens, evictions and expiries
          MaxEvents     \* bound: all of these together, a write counting twice

Limits == [mode : {"ip", "subnet", "both"}, capacity : Nat, refill : Nat]

\* answers: a probe, a bad address, blocked, allowed, over the limit
Results == {"probe", "bad", "blocked", "allow", "limited"}

ASSUME ConstantsAssumption ==
    /\ Reqs \subseteq Nat /\ IsFiniteSet(Reqs)
    /\ {Nil, Bad, Invalid} \cap Ips = {} /\ Invalid # Nil
    /\ Nil \notin Nat \cup Configs \cup Results \cup Seq(Ips \cup {Bad})
    /\ Inputs \subseteq [probe : BOOLEAN, xff : {Nil} \cup Seq(Ips \cup {Bad}),
                       real : Ips \cup {Bad, Nil}, remote : Ips \cup {Nil},
                       packed : Ips \cup {Bad}, method : DOMAIN Upper, path : Seq(STRING)]
    /\ \A c \in Configs :
        /\ {c.rl, c.bl, c.ban, c.routesOn} \subseteq BOOLEAN
        /\ c.threshold \in Nat /\ c.trusted \subseteq Ips /\ c.limit \in Limits
        /\ c.routes \in Seq([path : Seq(STRING), methods : SUBSET DOMAIN Upper, limit : Limits])

VARIABLES adapter,      \* which adapter serves the requests
          withEngine,   \* ConfigWatcher::new_with_engine rather than new
          given,        \* the path the watcher was given, "absolute" or "relative"
          file,         \* content of the file, Nil while it does not parse
          events,       \* notifications the watcher has not handled
          wpc, wread,   \* handle_event: where it is, what it has read
          gens,         \* the PolicyStates so far; the last one is live
          trackers,     \* the auto-ban trackers so far
          own,          \* the tracker of the gRPC interceptor itself, or 0
          buckets,      \* tokens of the buckets, by state, limiter and key
          hosts,        \* host routes of bans in the engine
          req,          \* the requests
          ledger,       \* history: tokens made, requests paid for, by bucket
          stolen,       \* history: banned addresses a sweeper unblocked
          lost,         \* history: a notification was an error
          writes, arrivals, ticks

watch == <<file, events, wpc, wread, gens, lost, writes>>
bans == <<trackers, hosts, stolen>>
limits == <<buckets, ledger>>
fixed == <<adapter, withEngine, given, own>>
vars == <<fixed, watch, bans, limits, req, arrivals, ticks>>

INSTANCE IpExtractor
----------------------------------------------------------------------------
(***************************************************************************)
(* The adapters.  "probes": health paths pass unchecked; "watched": the    *)
(* state is loaded per request; "packed": the caller extracts the address; *)
(* "checksBan": is_banned comes first; "method": the method for the route  *)
(* trie, Nil for the request's, "none" for no route limiters; "always":    *)
(* the limiter is charged even if disabled; "tracker": who records a       *)
(* violation; "onBan": the answer to the request that causes a ban.        *)
(***************************************************************************)
Static == [probes |-> FALSE, watched |-> FALSE, packed |-> FALSE, checksBan |-> FALSE,
           method |-> "none", always |-> FALSE, tracker |-> "state", onBan |-> "blocked"]

AxumRadixIpService == Static
ActixRadixIpService == Static
TowerRadixIpMiddleware == Static
GrpcRadixIpInterceptor == Static
GrpcRadixIpService == Static

PolicyHandleCheck == [Static EXCEPT !.packed = TRUE, !.always = TRUE]
PolicyHandleCheckRequest == [PolicyHandleCheck EXCEPT !.method = Nil]

AxumWatched == [Static EXCEPT !.probes = TRUE, !.watched = TRUE, !.checksBan = TRUE,
                              !.method = Nil, !.onBan = "limited"]
ActixWatched == [Static EXCEPT !.probes = TRUE, !.watched = TRUE, !.checksBan = TRUE,
                               !.method = Nil, !.onBan = "limited"]
TowerWatched == [Static EXCEPT !.watched = TRUE, !.method = Nil, !.tracker = "none"]
GrpcWatchedInterceptor == [Static EXCEPT !.watched = TRUE, !.tracker = "own"]
GrpcWatchedService == [Static EXCEPT !.watched = TRUE, !.method = "POST"]

Adapters == {AxumRadixIpService, ActixRadixIpService, TowerRadixIpMiddleware,
             GrpcRadixIpInterceptor, GrpcRadixIpService, PolicyHandleCheck,
             PolicyHandleCheckRequest, AxumWatched, ActixWatched, TowerWatched,
             GrpcWatchedInterceptor, GrpcWatchedService}
----------------------------------------------------------------------------
\* validate: only the global limit, and only if it is enabled
Validate(c) == c.rl => c.limit.capacity > 0 /\ c.limit.refill > 0

\* from_file
FromFile(content) == content # Nil /\ Validate(content)

NewTracker(c) == [threshold |-> c.threshold, violations |-> [a \in Ips |-> 0],
                  banned |-> [a \in Ips |-> "no"], lift |-> {}, unblock |-> {}]

\* PolicyState::from_config_with_engine and from_config, PolicyHandle::new
HasTracker(c) == c.ban /\ (adapter.watched => withEngine)

NewState(c, n) ==
    [cfg |-> c, tracker |-> IF HasTracker(c) THEN n + 1 ELSE 0,
     trie |-> IF c.routesOn THEN BuildTrie(c.routes) ELSE Nil]

Idle == [pc |-> "idle", input |-> Nil, ip |-> Nil, gen |-> 0, since |-> 0, todo |-> <<>>,
         charged |-> {}, result |-> Nil, banned |-> FALSE, lifted |-> FALSE]

\* the interceptor builds a tracker of its own, once
Init ==
    /\ adapter \in Adapters /\ withEngine \in BOOLEAN
    /\ given \in {"absolute", "relative"}
    /\ ~adapter.watched => withEngine /\ given = "absolute"
    /\ file \in {c \in Configs : FromFile(c)}
    /\ gens = <<NewState(file, 0)>>
    /\ own = IF adapter.tracker = "own" /\ file.ban THEN gens[1].tracker + 1 ELSE 0
    /\ trackers = [t \in 1..(IF own > 0 THEN own ELSE gens[1].tracker) |-> NewTracker(file)]
    /\ events = <<>> /\ wpc = "idle" /\ wread = Nil
    /\ buckets = <<>> /\ ledger = <<>> /\ hosts = {}
    /\ req = [r \in Reqs |-> Idle]
    /\ stolen = {} /\ lost = FALSE
    /\ writes = 0 /\ arrivals = 0 /\ ticks = 0
----------------------------------------------------------------------------
\* data modified, renamed to this name, created
Interesting == {"data", "renameTo", "create"}

InBudget(cost) == 2 * writes + arrivals + ticks + cost <= MaxEvents

(***************************************************************************)
(* Someone writes the file, or there is a notification of no interest: of  *)
(* another kind, or of another file in the directory.  notify reports the  *)
(* file by its absolute path, however the watcher was given it.            *)
(***************************************************************************)
Write(content, note) ==
    /\ adapter.watched /\ writes < MaxWrites /\ InBudget(2)
    /\ (note.path = "absolute" /\ note.kind \in Interesting) \/ content = file
    /\ writes' = writes + 1
    /\ file' = content /\ events' = Append(events, note)
    /\ UNCHANGED <<fixed, wpc, wread, gens, lost, bans, limits, req, arrivals, ticks>>

\* the notification of a write does not arrive as such
LoseEvent(k) ==
    /\ ~lost /\ events[k].kind # "error"
    /\ events' = [events EXCEPT ![k].kind = "error"] /\ lost' = TRUE
    /\ UNCHANGED <<fixed, file, wpc, wread, gens, writes, bans, limits, req, arrivals, ticks>>

\* handle_event up to the debounce: errors, other kinds and every path but the one given
\* are dropped
HandleEvent ==
    /\ wpc = "idle" /\ events # <<>>
    /\ events' = Tail(events)
    /\ LET note == Head(events)
           isOurFile == note.path = given
       IN  wpc' = IF isOurFile /\ note.kind \in Interesting THEN "debounce" ELSE "idle"
    /\ UNCHANGED <<fixed, file, wread, gens, lost, writes, bans, limits, req, arrivals, ticks>>

\* from_file after the debounce: on an error the old state stays
ReadFile ==
    /\ wpc = "debounce"
    /\ wread' = file
    /\ wpc' = IF FromFile(file) THEN "store" ELSE "idle"
    /\ UNCHANGED <<fixed, file, events, gens, lost, writes, bans, limits, req, arrivals, ticks>>

\* Mutant: what was notified during the reload is taken as handled.
StoreState_drains ==
    /\ wpc = "store" /\ wpc' = "idle" /\ wread' = Nil /\ events' = <<>>
    /\ gens' = Append(gens, NewState(wread, Len(trackers)))
    /\ trackers' = IF HasTracker(wread) THEN Append(trackers, NewTracker(wread)) ELSE trackers
    /\ UNCHANGED <<fixed, file, lost, writes, hosts, stolen, limits, req, arrivals, ticks>>

\* state.store: a new limiter, a new trie and a new tracker
StoreState ==
    /\ wpc = "store" /\ wpc' = "idle" /\ wread' = Nil
    /\ gens' = Append(gens, NewState(wread, Len(trackers)))
    /\ trackers' = IF HasTracker(wread) THEN Append(trackers, NewTracker(wread)) ELSE trackers
    /\ UNCHANGED <<fixed, file, events, lost, writes, hosts, stolen, limits, req, arrivals, ticks>>
----------------------------------------------------------------------------
\* RadixEngine::lookup(ip).is_some()
Hit(ip) == ip \in hosts \cup Listed

Active(t, ip) == t > 0 /\ trackers[t].banned[ip] = "active"

Cfg(r) == gens[req[r].gen].cfg

Go(r, pc) == req' = [req EXCEPT ![r].pc = pc]

Answer(r, result) == req' = [req EXCEPT ![r].pc = "done", ![r].result = result]

Free(r) == req[r].pc \in {"idle", "done"}

Arrive(r, input) ==
    /\ Free(r) /\ \A q \in Reqs : q < r => ~Free(q)
    /\ arrivals < MaxArrivals /\ InBudget(1)
    /\ arrivals' = arrivals + 1
    /\ req' = [req EXCEPT ![r] =
                 IF adapter.probes /\ input.probe
                 THEN [Idle EXCEPT !.pc = "done", !.input = input, !.result = "probe"]
                 ELSE [Idle EXCEPT !.pc = "load", !.input = input, !.since = Len(gens)]]
    /\ UNCHANGED <<fixed, watch, bans, limits, ticks>>

\* the state a request is served with
StateFor(r) == IF adapter.watched THEN Len(gens) ELSE 1

\* into_ip_addr, or extract_ip with the proxies the loaded state trusts
ClientIp(r) ==
    IF adapter.packed THEN Parsed(req[r].input.packed)
    ELSE ExtractIp(req[r].input, gens[StateFor(r)].cfg.trusted)

TrackerFor(r) ==
    CASE adapter.tracker = "state" -> gens[req[r].gen].tracker
      [] adapter.tracker = "own" -> own
      [] adapter.tracker = "none" -> 0

\* record_violation has filled the table of t and not yet called the engine
Inserting(t, ip) == \E r \in Reqs : req[r].pc = "insert" /\ req[r].ip = ip /\ TrackerFor(r) = t

\* history: the request has to be blocked for a ban, of any tracker if the blocklist is
\* on, the route is in the engine and no sweeper has removed it, of its own state's
\* tracker in any case
BannedNow(g, ip) ==
    \/ /\ gens[g].cfg.bl /\ ip \notin stolen
       /\ \E t \in 1..Len(trackers) : Active(t, ip) /\ ~Inserting(t, ip)
    \/ adapter.checksBan /\ Active(gens[g].tracker, ip)

\* watcher.state() and the client address
Load(r) ==
    /\ req[r].pc = "load"
    /\ LET g == StateFor(r)
           ip == ClientIp(r)
       IN  req' = [req EXCEPT ![r] =
             IF ip = Invalid
             THEN [@ EXCEPT !.gen = g, !.pc = "done", !.result = "bad"]
             ELSE [@ EXCEPT !.gen = g, !.ip = ip, !.banned = BannedNow(g, ip),
                            !.pc = IF adapter.checksBan THEN "ban" ELSE "block"]]
    /\ UNCHANGED <<fixed, watch, bans, limits, arrivals, ticks>>

\* is_banned of the state's tracker
CheckBan(r) ==
    /\ req[r].pc = "ban"
    /\ IF Active(gens[req[r].gen].tracker, req[r].ip)
       THEN Answer(r, "blocked") ELSE Go(r, "block")
    /\ UNCHANGED <<fixed, watch, bans, limits, arrivals, ticks>>

\* Mutant: the blocklist is only looked at for requests that are over the limit.
CheckBlock_skips(r) ==
    /\ req[r].pc = "block"
    /\ IF Cfg(r).rl \/ adapter.always THEN Go(r, "limit") ELSE Answer(r, "allow")
    /\ UNCHANGED <<fixed, watch, bans, limits, arrivals, ticks>>

\* the blocklist, and whether there is a limit at all
CheckBlock(r) ==
    /\ req[r].pc = "block"
    /\ CASE Cfg(r).bl /\ Hit(req[r].ip) -> Answer(r, "blocked")
         [] ~(Cfg(r).bl /\ Hit(req[r].ip)) /\ (Cfg(r).rl \/ adapter.always) -> Go(r, "limit")
         [] OTHER -> Answer(r, "allow")
    /\ UNCHANGED <<fixed, watch, bans, limits, arrivals, ticks>>

\* the route's limiter, 0 for the global one
Limiter(r) ==
    LET trie == gens[req[r].gen].trie
        method == IF adapter.method = Nil THEN req[r].input.method ELSE adapter.method
        found == IF trie = Nil \/ adapter.method = "none" THEN Nil
                 ELSE MatchRoute(trie, method, req[r].input.path)
    IN  IF found = Nil THEN 0 ELSE found

LimitOf(g, lim) == IF lim = 0 THEN gens[g].cfg.limit ELSE gens[g].cfg.routes[lim].limit

\* ip_to_key: a network only if the engine has a match, else the address
SubnetKey(ip) == IF Hit(ip) THEN <<"subnet", Subnet[ip]>> ELSE <<"exact", ip>>

\* the keys allow() charges, in order
Keys(r) ==
    LET ip == req[r].ip
        mode == LimitOf(req[r].gen, Limiter(r)).mode
        keys == CASE mode = "ip" -> << <<"exact", ip>> >>
                  [] mode = "subnet" -> << SubnetKey(ip) >>
                  [] mode = "both" -> << SubnetKey(ip), <<"exact", ip>> >>
    IN  [k \in 1..Len(keys) |-> <<req[r].gen, Limiter(r), keys[k]>>]

ChooseKeys(r) ==
    /\ req[r].pc = "limit"
    /\ req' = [req EXCEPT ![r].pc = "consume", ![r].todo = Keys(r)]
    /\ UNCHANGED <<fixed, watch, bans, limits, arrivals, ticks>>

Capacity(b) == LimitOf(b[1], b[2]).capacity

\* the bucket as get_with leaves it: made full if it is not in the cache
Tokens(b) == IF b \in DOMAIN buckets THEN buckets[b] ELSE Capacity(b)

Entry(b) == IF b \in DOMAIN ledger THEN ledger[b] ELSE [made |-> 0, paid |-> 0]

Credit(b) ==
    [Entry(b) EXCEPT !.made = @ + (IF b \in DOMAIN buckets THEN 0 ELSE Capacity(b))]

\* Mutant: a bucket with no token left still allows.
Consume_free(r) ==
    /\ req[r].pc = "consume"
    /\ LET b == Head(req[r].todo)
           rest == Tail(req[r].todo)
           charged == req[r].charged \cup {b}
       IN  /\ buckets' = Overlay([c \in {b} |-> IF Tokens(b) > 0 THEN Tokens(b) - 1 ELSE 0],
                                 buckets)
           /\ ledger' = Overlay([c \in charged |->
                                   [(IF c = b THEN Credit(b) ELSE Entry(c)) EXCEPT
                                       !.paid = IF rest = <<>> THEN @ + 1 ELSE @]],
                                ledger)
           /\ req' = [req EXCEPT ![r].todo = rest, ![r].charged = charged,
                                 ![r].pc = IF rest = <<>> THEN "done" ELSE "consume",
                                 ![r].result = IF rest = <<>> THEN "allow" ELSE Nil]
    /\ UNCHANGED <<fixed, watch, bans, arrivals, ticks>>

(***************************************************************************)
(* consume: one bucket after the other, as && evaluates them.  What the    *)
(* first one gave stays spent if the second refuses.                       *)
(***************************************************************************)
Consume(r) ==
    /\ req[r].pc = "consume"
    /\ LET b == Head(req[r].todo)
           rest == Tail(req[r].todo)
           charged == req[r].charged \cup {b}
           admitted == Tokens(b) > 0 /\ rest = <<>>
       IN  /\ buckets' = Overlay([c \in {b} |-> IF Tokens(b) > 0 THEN Tokens(b) - 1 ELSE 0],
                                 buckets)
           /\ ledger' = Overlay([c \in charged |->
                                   [(IF c = b THEN Credit(b) ELSE Entry(c)) EXCEPT
                                       !.paid = IF admitted THEN @ + 1 ELSE @]],
                                ledger)
           /\ req' = [req EXCEPT ![r] =
                        [@ EXCEPT !.todo = rest, !.charged = charged,
                                  !.result = IF admitted THEN "allow" ELSE Nil,
                                  !.pc = CASE Tokens(b) = 0 -> "denied"
                                           [] admitted -> "done"
                                           [] OTHER -> "consume"]]
    /\ UNCHANGED <<fixed, watch, bans, arrivals, ticks>>

(***************************************************************************)
(* over the limit: record_violation up to the table of bans, if there is a *)
(* tracker.  Of the earlier violations it keeps those still in the window. *)
(***************************************************************************)
Denied(r) ==
    LET t == TrackerFor(r)
        ip == req[r].ip
    IN  /\ req[r].pc = "denied"
        /\ IF ~Cfg(r).rl
           THEN Answer(r, "allow") /\ UNCHANGED bans
           ELSE IF t = 0 THEN Answer(r, "limited") /\ UNCHANGED bans
           ELSE \E kept \in 0..trackers[t].violations[ip] :
             IF kept + 1 < trackers[t].threshold
             THEN /\ trackers' = [trackers EXCEPT ![t].violations[ip] = kept + 1]
                  /\ Answer(r, "limited")
                  /\ UNCHANGED <<hosts, stolen>>
             ELSE /\ trackers' = [trackers EXCEPT ![t] =
                                     [@ EXCEPT !.violations[ip] = 0, !.banned[ip] = "active"]]
                  /\ Go(r, "insert")
                  /\ UNCHANGED <<hosts, stolen>>
        /\ UNCHANGED <<fixed, watch, limits, arrivals, ticks>>

\* insert_ban, and the answer
InsertBan(r) ==
    /\ req[r].pc = "insert"
    /\ hosts' = hosts \cup {req[r].ip} /\ stolen' = stolen \ {req[r].ip}
    /\ Answer(r, adapter.onBan)
    /\ UNCHANGED <<fixed, watch, trackers, limits, arrivals, ticks>>
----------------------------------------------------------------------------
Tick == ticks < MaxTicks /\ InBudget(1) /\ ticks' = ticks + 1

\* a token comes back
Refill(b) ==
    /\ Tick /\ buckets[b] < Capacity(b)
    /\ buckets' = [buckets EXCEPT ![b] = @ + 1]
    /\ ledger' = [ledger EXCEPT ![b].made = @ + 1]
    /\ UNCHANGED <<fixed, watch, bans, req, arrivals>>

\* an idle or superfluous bucket leaves the cache
Evict(b) ==
    /\ Tick
    /\ buckets' = [c \in DOMAIN buckets \ {b} |-> buckets[c]]
    /\ UNCHANGED <<fixed, watch, bans, ledger, req, arrivals>>

\* history: requests about these addresses are excused
Excuse(ips) == req' = [r \in Reqs |-> [req[r] EXCEPT !.lifted = @ \/ req[r].ip \in ips]]

\* a ban runs out
Expire(t, ip) ==
    /\ Tick /\ Active(t, ip)
    /\ trackers' = [trackers EXCEPT ![t].banned[ip] = "expired"]
    /\ Excuse({ip})
    /\ UNCHANGED <<fixed, watch, hosts, stolen, limits, arrivals>>

Over(t) == {ip \in Ips : trackers[t].banned[ip] = "expired"}

\* the sweeper of a tracker, also of a replaced one, collects the expired bans
Collect(t) ==
    /\ trackers[t].unblock = {} /\ Over(t) # {}
    /\ trackers' = [trackers EXCEPT ![t] = [@ EXCEPT !.lift = Over(t), !.unblock = Over(t)]]
    /\ UNCHANGED <<fixed, watch, hosts, stolen, limits, req, arrivals, ticks>>

\* it takes each out of the table, also one that was renewed since
Lift(t, ip) ==
    /\ ip \in trackers[t].lift
    /\ trackers' = [trackers EXCEPT ![t] =
                        [@ EXCEPT !.banned[ip] = "no", !.lift = trackers[t].lift \ {ip}]]
    /\ Excuse(IF Active(t, ip) THEN {ip} ELSE {})
    /\ UNCHANGED <<fixed, watch, hosts, stolen, limits, arrivals, ticks>>

\* and then each route out of the engine, also one that a later ban has put there
Unblock(t, ip) ==
    /\ trackers[t].lift = {} /\ ip \in trackers[t].unblock
    /\ trackers' = [trackers EXCEPT ![t].unblock = @ \ {ip}]
    /\ hosts' = hosts \ {ip}
    /\ stolen' = IF \E u \in 1..Len(trackers) : Active(u, ip) THEN stolen \cup {ip} ELSE stolen
    /\ Excuse(stolen' \cap {ip})
    /\ UNCHANGED <<fixed, watch, limits, arrivals, ticks>>

Sweep(t) == Collect(t) \/ \E ip \in Ips : Lift(t, ip) \/ Unblock(t, ip)

Serve(r) == Load(r) \/ CheckBan(r) \/ CheckBlock(r) \/ ChooseKeys(r) \/ Consume(r)
            \/ Denied(r) \/ InsertBan(r)

Watch == HandleEvent \/ ReadFile \/ StoreState

Next ==
    \/ \E c \in Configs \cup {Nil}, note \in Notes : Write(c, note)
    \/ \E k \in 1..Len(events) : LoseEvent(k)
    \/ Watch
    \/ \E r \in Reqs : Serve(r) \/ \E input \in Inputs : Arrive(r, input)
    \/ \E b \in DOMAIN buckets : Refill(b) \/ Evict(b)
    \/ \E t \in 1..Len(trackers) : Sweep(t) \/ \E ip \in Ips : Expire(t, ip)

Spec == Init /\ [][Next]_vars

\* the watcher's thread handles what it is notified of
FairSpec == Spec /\ WF_vars(Watch)
----------------------------------------------------------------------------
TypeOK ==
    /\ adapter \in Adapters
    /\ wpc \in {"idle", "debounce", "store"} /\ wread \in Configs \cup {Nil}
    /\ DOMAIN buckets \subseteq DOMAIN ledger
    /\ \A b \in DOMAIN buckets : buckets[b] \in 0..Capacity(b)
    /\ \A i \in 1..Len(gens) : gens[i].tracker \in 0..Len(trackers)
    /\ \A r \in Reqs : /\ req[r].ip \in Ips \cup {Nil} /\ req[r].gen \in 0..Len(gens)
                       /\ req[r].pc = "done" <=> req[r].result # Nil

(***************************************************************************)
(* "When `bucket_mode` is `Both`, the request must pass *both* the subnet  *)
(* bucket and the exact-IP bucket" (limiter.rs:96-97), and in the other    *)
(* modes its one bucket: no bucket ever admits more requests than tokens   *)
(* were put into it, whatever requests, evictions and reloads interleave.  *)
(***************************************************************************)
LimitHolds ==
    \A b \in DOMAIN ledger :
        ledger[b].paid + (IF b \in DOMAIN buckets THEN buckets[b] ELSE 0) <= ledger[b].made

(***************************************************************************)
(* "Create a watcher that preserves engine-backed policy state on reload"  *)
(* (watcher.rs:122): a request that finds its address banned, be it by the *)
(* tracker of a replaced state, does not get through.  A ban counts from   *)
(* the return of record_violation on, which fills the table before the     *)
(* engine (auto_ban.rs:107-109), and until it runs out or a sweeper takes  *)
(* its entry or its route away: a sweeper at work on an earlier ban of the *)
(* address, of this tracker or of another, does not look at what came      *)
(* since (149-155).  If the adapter asks the live tracker, that one's      *)
(* entry alone is enough.                                                  *)
(***************************************************************************)
BanHolds ==
    \A r \in Reqs : req[r].banned /\ req[r].result \in {"allow", "limited"} => req[r].lifted

(***************************************************************************)
(* "walk right-to-left stripping trusted hops" (ip_extractor.rs:30): the   *)
(* address a request is judged by does not depend on what stands before    *)
(* the last untrusted hop.                                                 *)
(***************************************************************************)
ForgedHopsIgnored ==
    \A r \in Reqs :
        LET in == req[r].input
            trusted == gens[req[r].gen].cfg.trusted
        IN  /\ req[r].ip # Nil /\ ~adapter.packed /\ in.xff # Nil
            /\ \E k \in 1..Len(in.xff) : in.xff[k] \notin trusted
            => \A hop \in Ips \cup trusted \cup {Bad} :
                  ExtractIp([in EXCEPT !.xff = <<hop>> \o @], trusted) = req[r].ip

(***************************************************************************)
(* "keeps an [`ArcSwap<PolicyState>`] up-to-date" (watcher.rs:106): once   *)
(* the file is left alone and parses, the live state is built from it,     *)
(* although writes come during a reload.  Excepted are lost notifications, *)
(* and a path given as a relative one, which is_our_file (178) never finds *)
(* among the paths reported: then nothing is ever reloaded.                *)
(***************************************************************************)
ReloadConverges ==
    <>[](lost \/ given = "relative" \/ ~FromFile(file) \/ gens[Len(gens)].cfg = file)
=============================================================================
