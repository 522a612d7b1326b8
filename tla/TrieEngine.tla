----------------------------- MODULE TrieEngine -----------------------------
(***************************************************************************)
(* StandardEngine<UncompressedTree> and ShardedEngine<UncompressedTree>    *)
(* (lib/rust/engine/src/engine.rs, tree.rs, lpm.rs): the default engine, a *)
(* bit-by-bit trie that any number of threads share without a lock around  *)
(* a whole operation.                                                      *)
(*                                                                         *)
(* Every read or write of one node field is one step, because every field  *)
(* has its own lock or atomic map entry (node/uncompressed.rs) and nothing *)
(* is held from one to the next.  The shards of a ShardedEngine clone the  *)
(* tree, and a clone shares the root Arc: all shards work on ONE trie and  *)
(* own only their size counter, so an engine here is a trie and NumShards  *)
(* counters (1 for StandardEngine).                                        *)
(*                                                                         *)
(* A metadata value carries the prefix it was inserted under, so that a    *)
(* property can tell whose metadata a lookup returned.                     *)
(***************************************************************************)
EXTENDS Integers, Sequences, FiniteSets

CONSTANTS Writers, Readers,     \* threads that update, threads that look up
          Prefixes, Vals, Nil,  \* as in RouteTable
          Ips,                  \* addresses looked up
          Ops,                  \* update operations in use
          NumShards,            \* 1: StandardEngine; more: ShardedEngine
          SizeMod,              \* 2^64 of the AtomicUsize
          MaxNodes,             \* bound: nodes ever allocated
          MaxClears             \* bound: calls of clear()

ASSUME ConstantsAssumption ==
    /\ {NumShards, SizeMod, MaxNodes} \subseteq Nat \ {0} /\ MaxClears \in Nat
    /\ MaxNodes < SizeMod
    /\ Writers \cap Readers = {}
    /\ \A a \in Prefixes \cup Ips : a.bits \in Seq({0, 1})
    /\ Nil \notin Nat /\ Nil \notin Prefixes \cup Vals \cup [p : Prefixes, v : Vals]

(***************************************************************************)
(* One address family: the trie takes equal bits of two families for the   *)
(* same node.  And no default route where clear() is used, which does not  *)
(* reach the root's own metadata.                                          *)
(***************************************************************************)
ASSUME PrefixAssumption ==
    /\ \A p, q \in Prefixes : p.bits = q.bits => p = q
    /\ "clear" \in Ops => \A p \in Prefixes : p.bits # <<>>

VARIABLES
    node,       \* the fields of every node
    alloc,      \* nodes allocated so far
    size,       \* the size counter of each shard
    th,         \* each thread's position and locals
    clears,     \* history: calls of clear() so far
    expect,     \* history: the table the calls that returned should have left
    hist        \* history: what each running lookup could have seen

vars == <<node, alloc, size, th, clears, expect, hist>>

Threads == Writers \cup Readers
Shards == 1..NumShards
Nodes == 1..MaxNodes
Root == 1
NewNode == [child |-> [b \in {0, 1} |-> Nil], prefix |-> Nil, meta |-> Nil]
EmptyTable == [p \in Prefixes |-> Nil]

\* Mutant: the bit after the one asked for.
GetBit_shifted(a, depth) == IF depth + 1 < Len(a.bits) THEN a.bits[depth + 2] ELSE 0

(***************************************************************************)
(* get_bit: a position past the end of the address reads as 0              *)
(***************************************************************************)
GetBit(a, depth) == IF depth < Len(a.bits) THEN a.bits[depth + 1] ELSE 0

Covers(p, ip) ==
    /\ p.fam = ip.fam
    /\ Len(p.bits) <= Len(ip.bits)
    /\ SubSeq(ip.bits, 1, Len(p.bits)) = p.bits

(***************************************************************************)
(* The table the nodes nd stand for: the metadata found by following each  *)
(* prefix's bits along the child pointers from the root.                   *)
(***************************************************************************)
Kids(nd) == [n \in Nodes |-> nd[n].child]

NodeAt(kids, bits) ==
    LET at[i \in 0..Len(bits)] ==
            IF i = 0 THEN Root
            ELSE IF at[i - 1] = Nil THEN Nil ELSE kids[at[i - 1]][bits[i]]
    IN  at[Len(bits)]

TableOf(nd, kids) ==
    [p \in Prefixes |->
        LET n == NodeAt(kids, p.bits)
            m == IF n = Nil THEN Nil ELSE nd[n].meta
        IN  IF m # Nil /\ m.p = p THEN m.v ELSE Nil]

Table == TableOf(node, Kids(node))

(***************************************************************************)
(* The refinement mapping.  clear() drops the left half and then the right *)
(* one; the abstract Clear happens at the first of the two steps, so that  *)
(* between them the right half no longer counts.                           *)
(***************************************************************************)
Clearing == \E t \in Threads : th[t].pc = "set_right_none"

LeftHalf(kids) == [kids EXCEPT ![Root][1] = Nil]

Abstract == INSTANCE RouteTable WITH
    routes <- TableOf(node, IF Clearing THEN LeftHalf(Kids(node)) ELSE Kids(node))

Entries(table) == {[p |-> p, v |-> table[p]] : p \in Abstract!Present(table)}

Idle == [pc |-> "idle", op |-> Nil, arg |-> Nil, v |-> Nil, node |-> Nil,
         depth |-> 0, shard |-> 1, isNew |-> FALSE, best |-> Nil]

NoHist == [stable |-> {}, seen |-> {}]

Init ==
    /\ node = [n \in Nodes |-> NewNode]
    /\ alloc = 1
    /\ size = [s \in Shards |-> 0]
    /\ th = [t \in Threads |-> Idle]
    /\ clears = 0
    /\ expect = EmptyTable
    /\ hist = [t \in Readers |-> NoHist]
----------------------------------------------------------------------------
(***************************************************************************)
(* Thread t goes on with locals l: alone, or while it stores one field     *)
(***************************************************************************)
Goto(t, l) == th' = [th EXCEPT ![t] = l] /\ UNCHANGED expect

Local(t, l) == Goto(t, l) /\ UNCHANGED <<node, alloc, size, clears>>

SetField(n, f, x) ==
    node' = [node EXCEPT ![n][f] = x] /\ UNCHANGED <<alloc, size, clears>>

SetChild(n, b, c) == SetField(n, "child", [node[n].child EXCEPT ![b] = c])

SetSize(s, x) ==
    size' = [size EXCEPT ![s] = x % SizeMod] /\ UNCHANGED <<node, alloc, clears>>

(***************************************************************************)
(* Where insert and remove continue once they stand at `depth' of the walk *)
(***************************************************************************)
At(op, p, depth) ==
    IF depth < Len(p.bits) THEN "walk"
    ELSE IF op = "insert" THEN "is_new" ELSE "take"

(***************************************************************************)
(* The table that the call with locals l should leave                      *)
(***************************************************************************)
Effect(l, table) ==
    CASE l.op = "insert" -> [table EXCEPT ![l.arg] = l.v]
      [] l.op = "remove" -> [table EXCEPT ![l.arg] = Nil]
      [] l.op = "clear" -> EmptyTable

(***************************************************************************)
(* for shard in &self.shards: the next shard repeats the operation, and    *)
(* after the last one the call returns                                     *)
(***************************************************************************)
NextShard(t) ==
    LET l == th[t] IN
    IF l.shard < NumShards
    THEN Goto(t, [l EXCEPT !.shard = @ + 1, !.node = Root, !.depth = 0, !.isNew = FALSE,
                           !.pc = IF l.op = "clear" THEN "set_left_none"
                                  ELSE At(l.op, l.arg, 0)])
    ELSE /\ th' = [th EXCEPT ![t] = Idle]
         /\ expect' = Effect(l, expect)

Quiet == UNCHANGED <<node, alloc, size, clears>>
----------------------------------------------------------------------------
(***************************************************************************)
(* Calls                                                                   *)
(***************************************************************************)
CallInsert(t) ==
    /\ th[t] = Idle /\ "insert" \in Ops
    /\ \E p \in Prefixes, v \in Vals :
          Local(t, [Idle EXCEPT !.op = "insert", !.arg = p, !.v = v,
                                !.node = Root, !.pc = At("insert", p, 0)])

CallRemove(t) ==
    /\ th[t] = Idle /\ "remove" \in Ops
    /\ \E p \in Prefixes :
          Local(t, [Idle EXCEPT !.op = "remove", !.arg = p,
                                !.node = Root, !.pc = At("remove", p, 0)])

CallClear(t) ==
    /\ th[t] = Idle /\ "clear" \in Ops
    /\ clears < MaxClears
    /\ clears' = clears + 1
    /\ Goto(t, [Idle EXCEPT !.op = "clear", !.node = Root, !.pc = "set_left_none"])
    /\ UNCHANGED <<node, alloc, size>>

CallLookup(t) ==
    /\ th[t] = Idle
    /\ \E ip \in Ips :
          Local(t, [Idle EXCEPT !.op = "lookup", !.arg = ip, !.node = Root,
                                !.pc = "read_prefix"])
----------------------------------------------------------------------------
(***************************************************************************)
(* The walk of insert and remove: read one child pointer                   *)
(***************************************************************************)
NextNode(t) == node[th[t].node].child[GetBit(th[t].arg, th[t].depth)]

Descend(t) ==
    /\ th[t].pc = "walk" /\ NextNode(t) # Nil
    /\ Local(t, [th[t] EXCEPT !.node = NextNode(t), !.depth = @ + 1,
                              !.pc = At(th[t].op, th[t].arg, th[t].depth + 1)])

\* insert: None => build a node; linking it is a step of its own
MissInsert(t) ==
    /\ th[t].pc = "walk" /\ th[t].op = "insert" /\ NextNode(t) = Nil
    /\ Local(t, [th[t] EXCEPT !.pc = "link"])

\* remove: None => return None
MissRemove(t) ==
    /\ th[t].pc = "walk" /\ th[t].op = "remove" /\ NextNode(t) = Nil
    /\ NextShard(t)
    /\ Quiet

\* set_left / set_right (Some(new_node)): an unconditional store
Link(t) ==
    LET l == th[t] side == GetBit(l.arg, l.depth) IN
    /\ l.pc = "link" /\ alloc < MaxNodes
    /\ alloc' = alloc + 1
    /\ node' = [node EXCEPT ![l.node].child[side] = alloc + 1]
    /\ Goto(t, [l EXCEPT !.node = alloc + 1, !.depth = @ + 1,
                         !.pc = At("insert", l.arg, l.depth + 1)])
    /\ UNCHANGED <<size, clears>>

\* Mutant: every insert counts as new.
IsNew_always(t) ==
    /\ th[t].pc = "is_new"
    /\ Local(t, [th[t] EXCEPT !.isNew = TRUE, !.pc = "set_prefix"])

\* let is_new = current_arc.metadata().is_none()
IsNew(t) ==
    /\ th[t].pc = "is_new"
    /\ Local(t, [th[t] EXCEPT !.isNew = (node[th[t].node].meta = Nil), !.pc = "set_prefix"])

SetPrefix(t) ==
    /\ th[t].pc = "set_prefix"
    /\ SetField(th[t].node, "prefix", th[t].arg)
    /\ Goto(t, [th[t] EXCEPT !.pc = "set_metadata"])

\* set_metadata; when the route was not new the shard's insert is over
SetMetadata(t) ==
    LET l == th[t] IN
    /\ l.pc = "set_metadata"
    /\ SetField(l.node, "meta", [p |-> l.arg, v |-> l.v])
    /\ IF l.isNew THEN Goto(t, [l EXCEPT !.pc = "count"]) ELSE NextShard(t)

\* self.size.fetch_add(1)
Count(t) ==
    /\ th[t].pc = "count"
    /\ SetSize(th[t].shard, size[th[t].shard] + 1)
    /\ NextShard(t)

\* let removed = current_arc.metadata()
Take(t) ==
    /\ th[t].pc = "take"
    /\ IF node[th[t].node].meta # Nil
       THEN Goto(t, [th[t] EXCEPT !.pc = "clear_metadata"]) ELSE NextShard(t)
    /\ Quiet

\* Mutant: removing a route also prunes the subtree below it.
ClearMetadata_pruning(t) ==
    /\ th[t].pc = "clear_metadata"
    /\ node' = [node EXCEPT ![th[t].node] = [NewNode EXCEPT !.prefix = node[th[t].node].prefix]]
    /\ Goto(t, [th[t] EXCEPT !.pc = "uncount"])
    /\ UNCHANGED <<alloc, size, clears>>

\* clear_metadata: the prefix field stays
ClearMetadata(t) ==
    /\ th[t].pc = "clear_metadata"
    /\ SetField(th[t].node, "meta", Nil)
    /\ Goto(t, [th[t] EXCEPT !.pc = "uncount"])

\* self.size.fetch_sub(1): wraps below zero
Uncount(t) ==
    /\ th[t].pc = "uncount"
    /\ SetSize(th[t].shard, size[th[t].shard] - 1)
    /\ NextShard(t)
----------------------------------------------------------------------------
\* Mutant: clear() forgets one half of the trie.
SetRightNone_skipped(t) ==
    /\ th[t].pc = "set_right_none"
    /\ Local(t, [th[t] EXCEPT !.pc = "store_zero"])

(***************************************************************************)
(* clear(): root.set_left(None); root.set_right(None); size.store(0).  The *)
(* root's own metadata, the default route's, is not touched.               *)
(***************************************************************************)
SetLeftNone(t) ==
    /\ th[t].pc = "set_left_none"
    /\ SetChild(Root, 0, Nil)
    /\ Goto(t, [th[t] EXCEPT !.pc = "set_right_none"])

SetRightNone(t) ==
    /\ th[t].pc = "set_right_none"
    /\ SetChild(Root, 1, Nil)
    /\ Goto(t, [th[t] EXCEPT !.pc = "store_zero"])

StoreZero(t) ==
    /\ th[t].pc = "store_zero"
    /\ SetSize(th[t].shard, 0)
    /\ NextShard(t)
----------------------------------------------------------------------------
(***************************************************************************)
(* longest_prefix_match_binary: at each node read the prefix, then (if it  *)
(* contains the address) the metadata, then one child pointer              *)
(***************************************************************************)
ReadPrefix(t) ==
    LET l == th[t] p == node[l.node].prefix IN
    /\ l.pc = "read_prefix"
    /\ Local(t, [l EXCEPT !.pc = IF p # Nil /\ Covers(p, l.arg)
                                 THEN "read_metadata" ELSE "read_child"])

\* Mutant: a node whose metadata was removed still replaces the best match.
ReadMetadata_overwriting(t) ==
    /\ th[t].pc = "read_metadata"
    /\ Local(t, [th[t] EXCEPT !.best = node[th[t].node].meta, !.pc = "read_child"])

ReadMetadata(t) ==
    LET l == th[t] m == node[l.node].meta IN
    /\ l.pc = "read_metadata"
    /\ Local(t, [l EXCEPT !.best = IF m # Nil THEN m ELSE @, !.pc = "read_child"])

ReadChild(t) ==
    LET l == th[t] IN
    /\ l.pc = "read_child"
    /\ Local(t, IF NextNode(t) # Nil
                THEN [l EXCEPT !.node = NextNode(t), !.depth = @ + 1, !.pc = "read_prefix"]
                ELSE [l EXCEPT !.node = Nil, !.depth = 0, !.pc = "return"])

Return(t) == th[t].pc = "return" /\ Local(t, Idle)
----------------------------------------------------------------------------
Write(t) ==
    \/ CallInsert(t) \/ CallRemove(t) \/ CallClear(t)
    \/ Descend(t) \/ MissInsert(t) \/ MissRemove(t) \/ Link(t)
    \/ IsNew(t) \/ SetPrefix(t) \/ SetMetadata(t) \/ Count(t)
    \/ Take(t) \/ ClearMetadata(t) \/ Uncount(t)
    \/ SetLeftNone(t) \/ SetRightNone(t) \/ StoreZero(t)

Read(t) ==
    CallLookup(t) \/ ReadPrefix(t) \/ ReadMetadata(t) \/ ReadChild(t) \/ Return(t)

(***************************************************************************)
(* History: for each running lookup, the routes that were in the table all *)
(* the time since it began and the entries that were in it at some time    *)
(***************************************************************************)
Observe ==
    LET present == Abstract!Present(Table')
        entries == Entries(Table')
    IN  hist' = [t \in Readers |->
            IF th'[t].pc = "idle" THEN NoHist
            ELSE IF th[t].pc = "idle" THEN [stable |-> present, seen |-> entries]
            ELSE IF th[t].pc = "return" \/ UNCHANGED node THEN hist[t]
            ELSE [stable |-> hist[t].stable \cap present, seen |-> hist[t].seen \cup entries]]

Next ==
    /\ \/ \E t \in Writers : Write(t)
       \/ \E t \in Readers : Read(t)
    /\ Observe

Spec == Init /\ [][Next]_vars
----------------------------------------------------------------------------
\* where an insert or remove, and a lookup, may be
UpdateInRange(l) ==
    /\ l.arg \in Prefixes /\ l.node \in 1..alloc /\ l.depth \in 0..Len(l.arg.bits)
    /\ l.pc \in {"walk", "link"} => l.depth < Len(l.arg.bits)

LookupInRange(l) ==
    /\ l.arg \in Ips /\ l.node \in 1..alloc /\ l.depth \in Nat
    /\ l.best # Nil => l.best \in [p : Prefixes, v : Vals] /\ Covers(l.best.p, l.arg)

(***************************************************************************)
(* Types: every pointer is an allocated node or None, every counter is a   *)
(* usize (node/uncompressed.rs, engine.rs:19-23).  A call that walks, or   *)
(* is about to store a field, stands at an allocated node, and an insert   *)
(* or remove reads no bit past its prefix (tree.rs:42-110), where get_bit  *)
(* would make one up.  A lookup keeps metadata of routes that contain its  *)
(* address (lpm.rs:133-173).                                               *)
(***************************************************************************)
TypeOK ==
    /\ node \in [Nodes -> [child : [{0, 1} -> 1..alloc \cup {Nil}],
                           prefix : Prefixes \cup {Nil},
                           meta : [p : Prefixes, v : Vals] \cup {Nil}]]
    /\ alloc \in Nodes
    /\ size \in [Shards -> 0..(SizeMod - 1)]
    /\ \A t \in Writers :
          \/ th[t] = Idle
          \/ th[t].pc \in {"set_left_none", "set_right_none", "store_zero"}
          \/ UpdateInRange(th[t])
    /\ \A t \in Readers : th[t].pc \in {"idle", "return"} \/ LookupInRange(th[t])

(***************************************************************************)
(* Refinement: the trie implements the route table.  Each step of insert,  *)
(* remove and clear (tree.rs:42-135) changes the table the trie stands for *)
(* as the call promises, or not at all: no partial walk, no freshly linked *)
(* node and no stale field is ever visible as a route.                     *)
(***************************************************************************)
Implements == Abstract!Spec

(***************************************************************************)
(* radix_engine_size is documented as the number of subnets (ffi.rs:174):  *)
(* when no update is running the first shard's counter, which size()       *)
(* returns (engine.rs:227), equals the number of routes in the table.      *)
(***************************************************************************)
SizeIsCount ==
    (\A t \in Writers : th[t] = Idle) =>
        size[1] = Cardinality(Abstract!Present(Table))

(***************************************************************************)
(* A lookup finds a route at least as specific as every covering route     *)
(* that was in the table during the whole lookup, whatever the writers do  *)
(* to the nodes around it (lpm.rs:133-173 reads one field at a time).      *)
(***************************************************************************)
StableRouteFound ==
    \A t \in Readers : th[t].pc = "return" =>
        \A p \in hist[t].stable :
            Covers(p, th[t].arg) =>
                th[t].best # Nil /\ Len(th[t].best.p.bits) >= Len(p.bits)

(***************************************************************************)
(* A lookup returns only a route that contains the address and that was in *)
(* the table at some moment of the lookup: nodes detached by clear()       *)
(* (tree.rs:132-135) while a reader is inside them do not leak later data. *)
(***************************************************************************)
ResultWasPresent ==
    \A t \in Readers : th[t].pc = "return" /\ th[t].best # Nil =>
        Covers(th[t].best.p, th[t].arg) /\ th[t].best \in hist[t].seen

(***************************************************************************)
(* When no update is running the table is what the calls that returned     *)
(* should have left: inserts are found, removals and clear() are complete  *)
(* (tree.rs:42-135).  With one writer this is what the trait's operations  *)
(* mean; with several it is what "Writes: serialized per-instance"         *)
(* (docs/guides/architecture.md:103) promises for inserts.                 *)
(***************************************************************************)
CallsTakeEffect ==
    (\A t \in Writers : th[t] = Idle) => Table = expect
=============================================================================
