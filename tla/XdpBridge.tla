----------------------------- MODULE XdpBridge -----------------------------
(***************************************************************************)
(* The XDP blocklist: the loader that mirrors the Redis blocklist into the *)
(* kernel's LPM maps (ebpf/xdp-loader/src/lib.rs) and the program that     *)
(* filters packets with them (ebpf/xdp-kernel/src/main.rs).                *)
(*                                                                         *)
(* start() loads the maps, which are pinned and may hold the entries of an *)
(* earlier process, subscribes, reads the snapshot, writes it entry by     *)
(* entry and attaches; then one task applies the messages.  Redis and the  *)
(* process that maintains the blocklist are external: it changes the set   *)
(* and publishes the change, one change at a time.                         *)
(*                                                                         *)
(* An address is [fam, bits]: 2 bits for IPv4 and, after the bits of the   *)
(* IPv4-mapped block, as many for IPv6.  A prefix has fewer bits.          *)
(***************************************************************************)
EXTENDS Integers, Sequences, FiniteSets

CONSTANTS Items,        \* members of the Redis set: [text, fam, addr, len]
          Configs,      \* loader configurations: [enabled, mode, minV4, minV6,
                        \* never, failClosed]; never = Nil if it does not parse
          Addrs,        \* source addresses of packets
          Mapped,       \* the bits of ::ffff:0:0/96
          MapSize,      \* max_entries of each map
          Nil,
          MaxListed,    \* bound: members of the Redis set at first
          MaxChanges,   \* bound: changes of the blocklist
          MaxFaults     \* bound: failing calls, lost connections, exits

ASSUME ConstantsAssumption ==
    /\ Mapped \in Seq({0, 1})
    /\ \A i \in Items : i.addr \in Seq({0, 1}) /\ i.len \in 0..Len(i.addr)
    /\ \A c \in Configs : c.never # Nil => \A n \in c.never : n.bits \in Seq({0, 1})
    /\ \A a \in Addrs : a.bits \in Seq({0, 1})
    /\ Nil \notin [op : {"add", "bare", "del"}, item : Items]

VARIABLES redisSet,     \* the snapshot set
          outbox,       \* the change that is not published yet, or Nil
          channel,      \* messages delivered to the subscription
          blocklist,    \* entries of the pinned kernel maps
          entries,      \* Maps.entries, the loader's own record of them
          phase,        \* where start() is; "running" once attached
          cfg,          \* the configuration of the current process
          sub, seeded,  \* subscribed; the snapshot was read
          todo,         \* snapshot members not written yet
          used,         \* history: configurations since the maps were created
          listed,       \* history: members the Redis set has had
          reliable,     \* history: a cold map, and nothing lost since
          changes, faults

vars == <<redisSet, outbox, channel, blocklist, entries, phase, cfg, sub, seeded,
          todo, used, listed, reliable, changes, faults>>

redis == <<redisSet, outbox, listed, changes>>

----------------------------------------------------------------------------
\* IpNet::contains
Contains(p, q) ==
    /\ p.fam = q.fam
    /\ Len(p.bits) <= Len(q.bits)
    /\ \A k \in 1..Len(p.bits) : p.bits[k] = q.bits[k]

\* parse_net: a bare address is a host prefix; anything else does not parse
ParseNet(i) ==
    CASE i.text = "cidr" -> [fam |-> i.fam, addr |-> i.addr, len |-> i.len]
      [] i.text = "bare" -> [fam |-> i.fam, addr |-> i.addr, len |-> Len(i.addr)]
      [] OTHER -> Nil

Trunc(net) == [fam |-> net.fam, bits |-> SubSeq(net.addr, 1, net.len)]

\* Mutant: any prefix of at least 96 bits is taken for a mapped one.
Unmap_anyBlock(p) ==
    IF p.fam = 6 /\ Len(p.bits) >= Len(Mapped)
    THEN [fam |-> 4, bits |-> SubSeq(p.bits, Len(Mapped) + 1, Len(p.bits))]
    ELSE p

\* to_ipv4_mapped, for prefixes of at least 96 bits
Unmap(p) ==
    IF p.fam = 6 /\ Contains([fam |-> 6, bits |-> Mapped], p)
    THEN [fam |-> 4, bits |-> SubSeq(p.bits, Len(Mapped) + 1, Len(p.bits))]
    ELSE p

\* Mutant: only never-block entries inside the prefix count as an overlap.
Overlaps_oneWay(p, n) == Contains(p, n)

Overlaps(p, n) == Contains(p, n) \/ Contains(n, p)

Accepts(c, p) ==
    /\ Len(p.bits) >= (IF p.fam = 4 THEN c.minV4 ELSE c.minV6)
    /\ \A n \in c.never : ~Overlaps(p, n)

\* normalize, Nil for a refusal
Normalize(c, net) ==
    LET p == Unmap(Trunc(net)) IN IF Accepts(c, p) THEN p ELSE Nil

\* parse_net and normalize in a row
Net(c, i) == IF ParseNet(i) = Nil THEN Nil ELSE Normalize(c, ParseNet(i))

Full(p) == Cardinality({q \in blocklist : q.fam = p.fam}) >= MapSize

(***************************************************************************)
(* Maps::put and Maps::delete: the kernel map first, then entries.  A full *)
(* map refuses a new key.                                                  *)
(***************************************************************************)
Put(p) ==
    IF p \notin blocklist /\ Full(p)
    THEN reliable' = FALSE /\ UNCHANGED <<blocklist, entries>>
    ELSE /\ blocklist' = blocklist \cup {p}
         /\ entries' = entries \cup {p}
         /\ UNCHANGED reliable

Delete(p) ==
    /\ blocklist' = blocklist \ {p}
    /\ entries' = entries \ {p}
----------------------------------------------------------------------------
\* config_from_env: a disabled or faulty configuration means no XDP at all
ConfigFromEnv(c) == c.enabled /\ c.never # Nil /\ c.mode \in {"skb", "drv"}

Init ==
    /\ redisSet \in {S \in SUBSET Items : Cardinality(S) <= MaxListed}
    /\ outbox = Nil /\ channel = <<>>
    /\ blocklist = {} /\ entries = {}
    /\ phase = "down" /\ cfg \in {c \in Configs : ConfigFromEnv(c)}
    /\ sub = FALSE /\ seeded = FALSE /\ todo = {}
    /\ used = {} /\ listed = redisSet /\ reliable = FALSE
    /\ changes = 0 /\ faults = 0

\* a call that succeeds, or one of the bounded number that fail
Outcome(ok) ==
    IF ok THEN UNCHANGED faults ELSE faults < MaxFaults /\ faults' = faults + 1

\* the process starts and loads the object: pinned maps are reused as they are
Load(c) ==
    /\ phase = "down" /\ ConfigFromEnv(c)
    /\ phase' = "loaded" /\ cfg' = c
    /\ used' = used \cup {c}
    /\ entries' = {} /\ seeded' = FALSE
    /\ reliable' = (blocklist = {})
    /\ UNCHANGED <<redis, channel, blocklist, sub, todo, faults>>

\* get_async_pubsub and subscribe; start() goes on without a subscription
Subscribe(ok) ==
    /\ phase = "loaded"
    /\ phase' = "subscribed" /\ sub' = ok
    /\ reliable' = (reliable /\ ok)
    /\ Outcome(ok)
    /\ UNCHANGED <<redis, channel, blocklist, entries, cfg, seeded, todo, used>>

\* SMEMBERS
ReadSnapshot(ok) ==
    /\ phase = "subscribed"
    /\ phase' = "seeding"
    /\ todo' = (IF ok THEN redisSet ELSE {}) /\ seeded' = ok
    /\ reliable' = (reliable /\ ok)
    /\ Outcome(ok)
    /\ UNCHANGED <<redis, channel, blocklist, entries, cfg, sub, used>>

\* one member of the snapshot; what does not parse or is refused is skipped
SeedItem(i) ==
    /\ phase = "seeding" /\ i \in todo
    /\ todo' = todo \ {i}
    /\ IF Net(cfg, i) = Nil
       THEN UNCHANGED <<blocklist, entries, reliable>>
       ELSE Put(Net(cfg, i))
    /\ UNCHANGED <<redis, channel, phase, cfg, sub, seeded, used, faults>>

\* the process ends: link, subscription and entries go with it, the maps stay
Ended ==
    /\ phase' = "down" /\ sub' = FALSE /\ channel' = <<>>
    /\ todo' = {} /\ entries' = {} /\ reliable' = FALSE
    /\ UNCHANGED <<redis, blocklist, cfg, seeded, used>>

Refuse == ~seeded /\ cfg.failClosed

\* Mutant: messages are only received once the program is attached.
Attach_deaf(ok) ==
    /\ phase = "seeding" /\ todo = {} /\ ~Refuse
    /\ Outcome(ok)
    /\ IF ok
       THEN /\ phase' = "running" /\ channel' = <<>>
            /\ UNCHANGED <<redis, blocklist, entries, cfg, sub, seeded, todo, used,
                           reliable>>
       ELSE Ended

\* program.load and attach, after the fail_closed test
Attach(ok) ==
    /\ phase = "seeding" /\ todo = {} /\ ~Refuse
    /\ Outcome(ok)
    /\ IF ok
       THEN /\ phase' = "running"
            /\ UNCHANGED <<redis, channel, blocklist, entries, cfg, sub, seeded,
                           todo, used, reliable>>
       ELSE Ended

\* "refusing to attach": the server goes on without XDP
BailOut ==
    /\ phase = "seeding" /\ todo = {} /\ Refuse
    /\ Ended
    /\ UNCHANGED faults

\* shutdown or a crash, at any point
Exit ==
    /\ phase # "down"
    /\ Outcome(FALSE)
    /\ Ended

\* Mutant: a message without an operation is ignored.
ApplyEvent_noBare(m) ==
    LET p == Net(cfg, m.item) IN
    CASE p = Nil \/ m.op = "bare" -> UNCHANGED <<blocklist, entries, reliable>>
      [] p # Nil /\ m.op = "del" ->
            /\ Delete(p)
            /\ reliable' = (reliable /\ \A j \in redisSet \ {m.item} : Net(cfg, j) # p)
      [] OTHER -> Put(p)

(***************************************************************************)
(* apply_event.  A deletion removes the entry even if the set has another  *)
(* spelling of the same prefix: the map is then no longer a mirror.        *)
(***************************************************************************)
ApplyEvent(m) ==
    LET p == Net(cfg, m.item) IN
    CASE p = Nil -> UNCHANGED <<blocklist, entries, reliable>>
      [] p # Nil /\ m.op = "del" ->
            /\ Delete(p)
            /\ reliable' = (reliable /\ \A j \in redisSet \ {m.item} : Net(cfg, j) # p)
      [] OTHER -> Put(p)

\* one message in the task's loop
Message ==
    /\ phase = "running" /\ sub /\ channel # <<>>
    /\ channel' = Tail(channel)
    /\ ApplyEvent(Head(channel))
    /\ UNCHANGED <<redis, phase, cfg, sub, seeded, todo, used, faults>>

\* the connection is lost: start(), or the task, goes on without updates
Closed ==
    /\ sub
    /\ sub' = FALSE /\ channel' = <<>> /\ reliable' = FALSE
    /\ Outcome(FALSE)
    /\ UNCHANGED <<redis, blocklist, entries, phase, cfg, seeded, todo, used>>
----------------------------------------------------------------------------
\* the process that maintains the blocklist: the set first, then the message
Change(i, op) ==
    /\ changes < MaxChanges /\ outbox = Nil
    /\ changes' = changes + 1
    /\ redisSet' = IF op = "del" THEN redisSet \ {i} ELSE redisSet \cup {i}
    /\ listed' = listed \cup redisSet'
    /\ outbox' = [op |-> op, item |-> i]
    /\ UNCHANGED <<channel, blocklist, entries, phase, cfg, sub, seeded, todo, used,
                   reliable, faults>>

Publish ==
    /\ outbox # Nil
    /\ channel' = IF sub THEN Append(channel, outbox) ELSE channel
    /\ outbox' = Nil
    /\ UNCHANGED <<redisSet, listed, changes, blocklist, entries, phase, cfg, sub,
                   seeded, todo, used, reliable, faults>>

Loader ==
    \/ \E ok \in BOOLEAN : Subscribe(ok) \/ ReadSnapshot(ok) \/ Attach(ok)
    \/ \E i \in todo : SeedItem(i)
    \/ BailOut \/ Message

Next ==
    \/ \E c \in Configs : Load(c)
    \/ Loader \/ Exit \/ Closed
    \/ \E i \in Items, op \in {"add", "bare", "del"} : Change(i, op)
    \/ Publish

Spec == Init /\ [][Next]_vars

\* a started loader and a started change go on
FairSpec == Spec /\ WF_vars(Loader) /\ WF_vars(Publish)
----------------------------------------------------------------------------
(***************************************************************************)
(* try_xdp on a frame [tags, kind, src]: the EtherType after at most one   *)
(* VLAN tag decides, and deeper stacks and other protocols pass; a frame   *)
(* that ends too early is a parse error and passes.  The kind says where   *)
(* it ends, for a whole frame whether it is an IP one.                     *)
(***************************************************************************)
Frames == [tags : 0..2, kind : {"noEther", "noTag", "noIp", "ip", "other"}, src : Addrs]

ParseError(f) ==
    \/ f.kind = "noEther"
    \/ f.kind = "noTag" /\ f.tags > 0
    \/ f.kind = "noIp" /\ f.tags < 2

\* BLOCKLIST_V4.get, BLOCKLIST_V6.get with a full-length key
Hit(a) == \E p \in blocklist : Contains(p, a)

TryXdp(f) ==
    IF ~ParseError(f) /\ f.tags < 2 /\ f.kind = "ip" /\ Hit(f.src)
    THEN "drop" ELSE "pass"

\* without an attached program every frame passes
Verdict(f) == IF phase = "running" THEN TryXdp(f) ELSE "pass"
----------------------------------------------------------------------------
TypeOK ==
    /\ redisSet \subseteq Items /\ todo \subseteq Items /\ listed \subseteq Items
    /\ phase \in {"down", "loaded", "subscribed", "seeding", "running"}
    /\ cfg \in Configs /\ used \subseteq Configs
    /\ {sub, seeded, reliable} \subseteq BOOLEAN
    /\ (sub => phase # "down") /\ (todo # {} => phase = "seeding")
    /\ entries \subseteq blocklist

Protected(c, a) == \E n \in c.never : Contains(n, a)

(***************************************************************************)
(* The self-lockout guard (normalize, loader lib.rs:265-299): an address   *)
(* that every configuration since the maps were created protects is never  *)
(* dropped, whatever is in the Redis set, through restarts that reuse the  *)
(* pinned maps.                                                            *)
(***************************************************************************)
ProtectedPasses ==
    \A a \in Addrs : (\A c \in used : Protected(c, a)) =>
        \A f \in Frames : f.src = a => Verdict(f) = "pass"

(***************************************************************************)
(* The addresses a list member stands for, without going through           *)
(* normalize: those that start with its bits, and for a prefix inside the  *)
(* IPv4-mapped block the IPv4 addresses it embeds.                         *)
(***************************************************************************)
Names(i, a) ==
    LET n == ParseNet(i)
        Starts(bits) == n.len <= Len(bits) /\ \A k \in 1..n.len : n.addr[k] = bits[k]
    IN  n # Nil /\ (\/ n.fam = a.fam /\ Starts(a.bits)
                    \/ n.fam = 6 /\ a.fam = 4 /\ n.len >= Len(Mapped) /\ Starts(Mapped \o a.bits))

(***************************************************************************)
(* Only what has been listed is dropped (map contract, kernel main.rs:3-9, *)
(* and the mapped-prefix rule of normalize): the source of a dropped frame *)
(* is one that a current or former member of the Redis set stands for.     *)
(***************************************************************************)
OnlyListedDropped ==
    \A f \in Frames : Verdict(f) = "drop" =>
        \E i \in listed : Names(i, f.src)

(***************************************************************************)
(* "fail_closed ... refusing to attach" (lib.rs:197-201): the program is   *)
(* attached without a snapshot only if fail_closed is off.                 *)
(***************************************************************************)
FailClosed == phase = "running" /\ cfg.failClosed => seeded

\* what the Redis set blocks under the current configuration
Listed(a) == \E i \in redisSet : Net(cfg, i) # Nil /\ Names(i, a)

AtRest == phase = "running" /\ channel = <<>> /\ outbox = Nil

(***************************************************************************)
(* "subscribe and seed from Redis, then attach" (lib.rs:117-118): a loader *)
(* that started on empty maps and has lost nothing since drops, once it    *)
(* has caught up, exactly the addresses the Redis set lists, although the  *)
(* set changes while the snapshot is being written.                        *)
(***************************************************************************)
MirrorAtRest ==
    AtRest /\ reliable => \A a \in Addrs : Hit(a) <=> Listed(a)

(***************************************************************************)
(* The task applies what it is sent (lib.rs:232-258): a loader that stays  *)
(* up and loses nothing eventually agrees with the Redis set for good.     *)
(***************************************************************************)
EventuallyMirrored ==
    <>[](phase = "running" /\ reliable) => <>[](\A a \in Addrs : Hit(a) <=> Listed(a))
=============================================================================
