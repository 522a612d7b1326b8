---------------------------- MODULE AdaptiveTree ----------------------------
(***************************************************************************)
(* The adaptive radix tree (engine/src/art/) and its engines, one tree     *)
(* under a lock and one tree per shard (engine_art.rs).                    *)
(*                                                                         *)
(* A byte has ByteBits bits here, a key KeyLen bytes, and the four node    *)
(* kinds hold Cap4, Cap16, Cap48 and 2^ByteBits children.  Nodes are       *)
(* values, so a tree in which one child hangs in two places is where the   *)
(* model ends: Shared tells it, and no writer goes on from there.  It also *)
(* ends where metadata already freed would be freed again.                 *)
(***************************************************************************)
EXTENDS SequencesExt

CONSTANTS Nil,
          ByteBits, KeyLen,
          Cap4, Cap16, Cap48,   \* children a node of a kind holds
          Grow48,               \* children at which a Node48 becomes a Node256
          Scenarios,            \* [prefixes, writers, shards, neon, maxSize]: what is
                                \* inserted by whom, and a bound on the size of a tree
          Addrs                 \* addresses looked up

ASSUME ConstantsAssumption ==
    /\ 2 <= Cap4 /\ Cap4 < Cap16 /\ Cap16 + 1 < Grow48
    /\ Grow48 <= Cap48 /\ Cap48 < 2^ByteBits

VARIABLES scn,          \* the scenario
          shards,       \* [root, size] of the shards
          table,        \* history: what each shard was told to hold
          twice,        \* history: prefixes of several bytes inserted again
          job,          \* what a writer is in the middle of, or Nil
          overlap       \* history: two writers were at work at once

vars == <<scn, shards, table, twice, job, overlap>>

Bytes == 0..(2^ByteBits - 1)
----------------------------------------------------------------------------
\* b & (0xFF << (8 - r))
Mask(b, r) == b - (b % 2^(ByteBits - r))

\* the byte at a depth, its host bits masked out at the boundary
IndexByte(p, depth) ==
    IF depth = p.len \div ByteBits /\ p.len % ByteBits > 0
    THEN Mask(p.key[depth + 1], p.len % ByteBits)
    ELSE p.key[depth + 1]

MaskedKey(key, len) ==
    [i \in 1..KeyLen |->
        CASE i <= len \div ByteBits -> key[i]
          [] i = len \div ByteBits + 1 -> Mask(key[i], len % ByteBits)
          [] OTHER -> 0]

MaxDepth(p) == (p.len + ByteBits - 1) \div ByteBits

Leaf(p) == [kind |-> "leaf", key |-> MaskedKey(p.key, p.len), len |-> p.len, live |-> TRUE]

Matches(leaf, ip) == MaskedKey(ip, leaf.len) = leaf.key

IsLeaf(n) == n # Nil /\ n.kind = "leaf"

EmptyN4 == [kind |-> "n4", keys |-> <<>>, kids |-> <<>>]

(***************************************************************************)
(* simd_find_child.  On aarch64 the mask of the valid lanes is 1 << 64 for *)
(* a full node, which an optimised build reduces to 1 << 0: nothing found. *)
(***************************************************************************)
SimdFindChild(n, b) ==
    {i \in 1..Len(n.keys) : n.keys[i] = b /\ ~(scn.neon /\ Len(n.keys) = Cap16)}

FindChild(n, b) ==
    LET at == IF n.kind = "n4" THEN {i \in 1..Len(n.keys) : n.keys[i] = b}
              ELSE SimdFindChild(n, b)
    IN  CASE n.kind \in {"n4", "n16"} -> IF at = {} THEN Nil ELSE n.kids[Min(at)]
          [] n.kind = "n48" -> IF n.index[b] = 0 THEN Nil ELSE n.slots[n.index[b]]
          [] n.kind = "n256" -> n.kids[b]
          [] n.kind = "leaf" -> Nil
----------------------------------------------------------------------------
\* add_child; num_children is one byte wide
Add256(n, b, c) ==
    [n EXCEPT !.kids[b] = c,
              !.num = IF n.kids[b] = Nil THEN (@ + 1) % 2^ByteBits ELSE @]

To256(n) ==
    [kind |-> "n256", num |-> n.num,
     kids |-> [b \in Bytes |-> IF n.index[b] = 0 THEN Nil ELSE n.slots[n.index[b]]],
     dup |-> \E x, y \in Bytes : x # y /\ n.index[x] # 0 /\ n.index[x] = n.index[y]]

\* the slot taken is the one after as many as there are children
Add48(n, b, c) ==
    IF n.num >= Cap48 THEN Add256(To256(n), b, c)
    ELSE LET m == [n EXCEPT !.index[b] = n.num + 1, !.slots[n.num + 1] = c, !.num = @ + 1]
         IN  IF m.num >= Grow48 THEN To256(m) ELSE m

\* the last key of its kind wins in the index
To48(n) ==
    [kind |-> "n48", num |-> Len(n.keys),
     index |-> [b \in Bytes |-> Max({0} \cup {i \in 1..Len(n.keys) : n.keys[i] = b})],
     slots |-> [i \in 1..Cap48 |-> IF i <= Len(n.kids) THEN n.kids[i] ELSE Nil]]

Push(n, b, c) == [n EXCEPT !.keys = Append(@, b), !.kids = Append(@, c)]

\* Mutant: one child too many.
Add16_late(n, b, c) == IF Len(n.keys) > Cap16 THEN Add48(To48(n), b, c) ELSE Push(n, b, c)

Add16(n, b, c) == IF Len(n.keys) >= Cap16 THEN Add48(To48(n), b, c) ELSE Push(n, b, c)

Add4(n, b, c) ==
    IF Len(n.keys) >= Cap4 THEN Add16([n EXCEPT !.kind = "n16"], b, c) ELSE Push(n, b, c)

AddChild(n, b, c) ==
    CASE n.kind = "n4" -> Add4(n, b, c)
      [] n.kind = "n16" -> Add16(n, b, c)
      [] n.kind = "n48" -> Add48(n, b, c)
      [] n.kind = "n256" -> Add256(n, b, c)
----------------------------------------------------------------------------
\* Mutant: the last child goes, whichever it is.
Drop_last(n, b) ==
    IF \A i \in 1..Len(n.keys) : n.keys[i] # b THEN n
    ELSE [n EXCEPT !.keys = Front(@), !.kids = Front(@)]

\* remove_child: the others move up
Drop(n, b) ==
    LET at == {i \in 1..Len(n.keys) : n.keys[i] = b}
    IN  IF at = {} THEN n
        ELSE [n EXCEPT !.keys = RemoveAt(@, Min(at)), !.kids = RemoveAt(@, Min(at))]

Remove16(n, b) ==
    LET m == Drop(n, b)
    IN  IF m # n /\ Len(m.keys) < Cap4 THEN [m EXCEPT !.kind = "n4"] ELSE m

\* bytes with a child, in order
Used(child) == SetToSortSeq({b \in Bytes : child[b] # Nil}, LAMBDA x, y : x < y)

Child48(n) == [b \in Bytes |-> IF n.index[b] = 0 THEN Nil ELSE n.slots[n.index[b]]]

Remove48(n, b) ==
    IF n.index[b] = 0 THEN n
    ELSE LET m == [n EXCEPT !.slots[n.index[b]] = Nil, !.index[b] = 0, !.num = @ - 1]
             used == Used(Child48(m))
         IN  IF m.num < Cap16 + 1
             THEN [kind |-> "n16", keys |-> used,
                   kids |-> [i \in 1..Len(used) |-> Child48(m)[used[i]]]]
             ELSE m

\* Mutant: the children are moved only as far as a Node16 has room.
Remove256_short(n, b) ==
    IF n.kids[b] = Nil THEN n
    ELSE LET m == [n EXCEPT !.kids[b] = Nil, !.num = (@ - 1) % 2^ByteBits]
             used == Used(m.kids)
         IN  IF m.num < Cap48 + 1
             THEN [kind |-> "n48", num |-> Len(used),
                   index |-> [x \in Bytes |->
                                Max({0} \cup {i \in DOMAIN used : used[i] = x /\ i <= Cap16})],
                   slots |-> [i \in 1..Cap48 |-> IF i <= Len(used) THEN m.kids[used[i]] ELSE Nil]]
             ELSE m

Remove256(n, b) ==
    IF n.kids[b] = Nil THEN n
    ELSE LET m == [n EXCEPT !.kids[b] = Nil, !.num = (@ - 1) % 2^ByteBits]
             used == Used(m.kids)
         IN  IF m.num < Cap48 + 1
             THEN [kind |-> "n48", num |-> Len(used),
                   index |-> [x \in Bytes |-> Max({0} \cup {i \in DOMAIN used : used[i] = x})],
                   slots |-> [i \in 1..Cap48 |-> IF i <= Len(used) THEN m.kids[used[i]] ELSE Nil]]
             ELSE m

RemoveChild(n, b) ==
    CASE n.kind = "n4" -> Drop(n, b)
      [] n.kind = "n16" -> Remove16(n, b)
      [] n.kind = "n48" -> Remove48(n, b)
      [] n.kind = "n256" -> Remove256(n, b)

\* update_child
UpdateChild(n, b, c) ==
    LET first == Min({i \in 1..Len(n.keys) : n.keys[i] = b})
    IN  CASE n.kind \in {"n4", "n16"} -> [n EXCEPT !.kids[first] = c]
          [] n.kind = "n48" -> [n EXCEPT !.slots[n.index[b]] = c]
          [] n.kind = "n256" -> [n EXCEPT !.kids[b] = c]
----------------------------------------------------------------------------
RECURSIVE InsertNode(_, _, _), Search(_, _, _), DeleteNode(_, _, _), Free(_, _, _)

(***************************************************************************)
(* insert_node.  At its depth a prefix takes the place of whatever is      *)
(* there, a leaf or a whole subtree.  A leaf in the way of a longer prefix *)
(* becomes a Node4 of both, under the same byte if they go on alike.       *)
(***************************************************************************)
InsertNode(n, p, depth) ==
    LET b == IndexByte(p, depth)
        node == IF n = Nil THEN EmptyN4 ELSE n
        child == FindChild(node, b)
    IN  CASE depth >= MaxDepth(p) -> Leaf(p)
          [] depth < MaxDepth(p) /\ IsLeaf(n) ->
                AddChild(AddChild(EmptyN4, n.key[depth + 1], n), b,
                         InsertNode(Nil, p, depth + 1))
          [] depth < MaxDepth(p) /\ ~IsLeaf(n) /\ child # Nil ->
                UpdateChild(node, b, InsertNode(child, p, depth + 1))
          [] OTHER -> AddChild(node, b, Leaf(p))

\* Mutant: the last byte is not looked at.
Search_shallow(n, ip, depth) ==
    CASE n = Nil -> Nil
      [] IsLeaf(n) -> IF Matches(n, ip) THEN n ELSE Nil
      [] OTHER -> IF depth >= KeyLen - 1 THEN Nil
                  ELSE Search(FindChild(n, ip[depth + 1]), ip, depth + 1)

\* search: the leaf found, by the bytes of the address
Search(n, ip, depth) ==
    CASE n = Nil -> Nil
      [] IsLeaf(n) -> IF Matches(n, ip) THEN n ELSE Nil
      [] OTHER -> IF depth >= KeyLen THEN Nil
                  ELSE Search(FindChild(n, ip[depth + 1]), ip, depth + 1)

\* Mutant: the search for the leaf ends one level too early.
DeleteNode_shallow(n, p, depth) ==
    LET b == IndexByte(p, depth)
        child == FindChild(n, b)
        new == DeleteNode(child, p, depth + 1)
    IN  CASE n = Nil -> n
          [] IsLeaf(n) -> IF n.len = p.len /\ Matches(n, p.key) THEN Nil ELSE n
          [] OTHER -> IF depth + 1 >= MaxDepth(p) \/ child = Nil \/ new = child THEN n
                      ELSE IF new = Nil THEN RemoveChild(n, b) ELSE UpdateChild(n, b, new)

\* delete_node: what is left of the node, itself if nothing was deleted
DeleteNode(n, p, depth) ==
    LET b == IndexByte(p, depth)
        child == FindChild(n, b)
        new == DeleteNode(child, p, depth + 1)
    IN  CASE n = Nil -> n
          [] IsLeaf(n) -> IF n.len = p.len /\ Matches(n, p.key) THEN Nil ELSE n
          [] OTHER -> IF depth >= MaxDepth(p) \/ child = Nil \/ new = child THEN n
                      ELSE IF new = Nil THEN RemoveChild(n, b) ELSE UpdateChild(n, b, new)

\* the metadata of the leaf a search finds are freed
Free(n, ip, depth) ==
    IF IsLeaf(n) THEN [n EXCEPT !.live = FALSE]
    ELSE UpdateChild(n, ip[depth + 1], Free(FindChild(n, ip[depth + 1]), ip, depth + 1))
----------------------------------------------------------------------------
RECURSIVE Nodes(_)

\* the children of a node, by where they hang
Kids(n) ==
    CASE n.kind \in {"n4", "n16"} -> n.kids
      [] n.kind = "n48" -> Child48(n)
      [] n.kind = "n256" -> n.kids
      [] n.kind = "leaf" -> <<>>

Nodes(n) ==
    IF n = Nil THEN {} ELSE {n} \cup UNION {Nodes(Kids(n)[i]) : i \in DOMAIN Kids(n)}

Leaves(n) == {l \in Nodes(n) : l.kind = "leaf"}

Shared(n) ==
    \E m \in Nodes(n) :
        \/ m.kind = "n48" /\ To256(m).dup
        \/ m.kind = "n256" /\ m.dup
----------------------------------------------------------------------------
\* what was inserted, host bits aside
Net(p) == [key |-> MaskedKey(p.key, p.len), len |-> p.len]

New == [root |-> EmptyN4, size |-> 0]

\* get_shard; the hash wraps
GetShard(ip) == 1 + (FoldLeft(LAMBDA h, b : (h * 31 + b) % 2^16, 0, ip) % scn.shards)

\* the leaf a lookup reads
Lookup(ip) == Search(shards[GetShard(ip)].root, ip, 0)

Init ==
    /\ scn \in Scenarios
    /\ shards = [k \in 1..scn.shards |-> New]
    /\ table = [k \in 1..scn.shards |-> {}] /\ twice = table
    /\ job = [w \in scn.writers |-> Nil]
    /\ overlap = FALSE

\* insert_prefix; the size grows in any case
InsertPrefix(k, p) ==
    /\ shards[k].size < scn.maxSize
    /\ shards' = [shards EXCEPT ![k] = [root |-> InsertNode(@.root, p, 0), size |-> @.size + 1]]
    /\ table' = [table EXCEPT ![k] = @ \cup {Net(p)}]
    /\ twice' = [twice EXCEPT ![k] = @ \cup {q \in {Net(p)} \cap table[k] : q.len > ByteBits}]

(***************************************************************************)
(* remove: the metadata of whatever leaf the address of the prefix finds   *)
(* are taken and freed, then the prefix is deleted.                        *)
(***************************************************************************)
RemovePrefix(k, p) ==
    LET found == Search(shards[k].root, p.key, 0)
        freed == IF found = Nil THEN shards[k].root ELSE Free(shards[k].root, p.key, 0)
        left == DeleteNode(freed, p, 0)
    IN  /\ found # Nil => found.live
        /\ shards' = [shards EXCEPT ![k] =
                         [root |-> left,
                          size |-> IF left = freed \/ @.size = 0 THEN @.size ELSE @.size - 1]]
        /\ table' = [table EXCEPT ![k] = @ \ {Net(p)}]
        /\ UNCHANGED twice

Clear(k) ==
    /\ shards' = [shards EXCEPT ![k] = New]
    /\ table' = [table EXCEPT ![k] = {}]
    /\ twice' = [twice EXCEPT ![k] = {}]

Apply(j) ==
    /\ ~Shared(shards[j.shard].root)
    /\ \/ j.op = "insert" /\ InsertPrefix(j.shard, j.p)
       \/ j.op = "remove" /\ RemovePrefix(j.shard, j.p)
       \/ j.op = "clear" /\ Clear(j.shard)

\* Mutant: a removal ends with the first shard.
Advance_first(w, j) ==
    job' = [job EXCEPT ![w] = IF j.shard = scn.shards \/ j.op = "remove" THEN Nil
                              ELSE [j EXCEPT !.shard = @ + 1]]

\* a call goes through the shards one after the other, each under its lock
Advance(w, j) ==
    job' = [job EXCEPT ![w] = IF j.shard = scn.shards THEN Nil ELSE [j EXCEPT !.shard = @ + 1]]

Calls ==
    [op : {"insert", "remove"}, p : scn.prefixes, shard : {1}]
    \cup [op : {"clear"}, p : {Nil}, shard : {1}]

Call(w, j) ==
    /\ job[w] = Nil
    /\ Apply(j) /\ Advance(w, j)
    /\ overlap' = (overlap \/ \E v \in scn.writers : job[v] # Nil)
    /\ UNCHANGED scn

NextShard(w) ==
    /\ job[w] # Nil
    /\ Apply(job[w]) /\ Advance(w, job[w])
    /\ UNCHANGED <<scn, overlap>>

Next ==
    \E w \in scn.writers :
        \/ NextShard(w)
        \/ \E j \in Calls : Call(w, j)

Spec == Init /\ [][Next]_vars
----------------------------------------------------------------------------
\* Nodes have room for what they hold, and leaves are masked prefixes.
TypeOK ==
    /\ scn \in Scenarios /\ overlap \in BOOLEAN
    /\ \A k \in 1..scn.shards :
          /\ shards[k].size \in 0..scn.maxSize
          /\ table[k] \subseteq {Net(p) : p \in scn.prefixes}
          /\ \A n \in Nodes(shards[k].root) :
                CASE n.kind = "n4" -> Len(n.keys) <= Cap4 /\ Len(n.kids) = Len(n.keys)
                  [] n.kind = "n16" -> Len(n.keys) <= Cap16 /\ Len(n.kids) = Len(n.keys)
                  [] n.kind = "n48" -> n.num \in 0..Cap48 /\ Len(n.slots) = Cap48
                  [] n.kind = "n256" -> n.num \in Bytes
                  [] n.kind = "leaf" -> n.key = MaskedKey(n.key, n.len)

\* p and q differ in one of their first two bytes
Part(p, q) ==
    \E i \in 1..2 : /\ i <= p.len \div ByteBits /\ i <= q.len \div ByteBits
                    /\ p.key[i] # q.key[i]

\* no other prefix is near p
Lone(p) == \A q \in scn.prefixes : Net(q) = p \/ Part(p, q)

(***************************************************************************)
(* "The leaf stores `prefix_len` and `masked_key` so lookup can validate   *)
(* the significant bits" (art/tree.rs:6-7): a lookup never answers with a  *)
(* prefix that was removed, whatever nodes grew, shrank or were replaced   *)
(* since.  Excepted are prefixes with others nearby: what a longer prefix  *)
(* has pushed down is no longer where delete_node looks for it.  A full    *)
(* Node16 on aarch64 is excepted, too, since delete_node finds nothing in  *)
(* it, and a prefix of several bytes inserted again while it was there:    *)
(* its first leaf goes with the first removal, its second one stays.       *)
(***************************************************************************)
MatchSound ==
    \A ip \in Addrs :
        LET l == Lookup(ip)
            p == [key |-> l.key, len |-> l.len]
        IN  /\ l # Nil /\ Lone(p) /\ ~scn.neon
            /\ p \notin twice[GetShard(ip)]
            => p \in table[GetShard(ip)] /\ MaskedKey(ip, p.len) = p.key

(***************************************************************************)
(* insert "a prefix with an explicit CIDR length" (art/tree.rs:32-33): a   *)
(* prefix of whole bytes that parts from every other one in its first two  *)
(* bytes is found at all addresses it covers until it is removed.  The     *)
(* exceptions are what the code does not deliver: neighbours that part     *)
(* later, nested prefixes, prefixes that end inside a byte, a full Node16  *)
(* on aarch64, and a Node48 that reused a slot.                            *)
(***************************************************************************)
LoneFound ==
    \A k \in 1..scn.shards, p \in scn.prefixes :
        /\ Net(p) \in table[k] /\ p.len % ByteBits = 0
        /\ Lone(Net(p)) /\ ~scn.neon /\ ~Shared(shards[k].root)
        => \A ip \in Addrs :
              MaskedKey(ip, p.len) = MaskedKey(p.key, p.len)
              => Search(shards[k].root, ip, 0) = Leaf(p)

(***************************************************************************)
(* "The pointer was created by Box::into_raw in insert" (engine_art.rs:57) *)
(* and is still good: metadata in the tree are freed only by the removal   *)
(* of another prefix whose address their leaf covers.                      *)
(***************************************************************************)
FreedOnlyThroughCover ==
    \A k \in 1..scn.shards : \A l \in Leaves(shards[k].root) :
        l.live \/ \E q \in scn.prefixes :
                     Net(q) # [key |-> l.key, len |-> l.len] /\ Matches(l, q.key)

(***************************************************************************)
(* Every shard gets every prefix (engine_art.rs:188-193, 200-209): between *)
(* calls that did not overlap the shards are the same tree.                *)
(***************************************************************************)
ShardsAgree ==
    (~overlap /\ \A w \in scn.writers : job[w] = Nil)
    => \A k \in 1..scn.shards : shards[k] = shards[1]

(***************************************************************************)
(* Growing and shrinking of a node keep its children (art/mod.rs:198-401): *)
(* a step changes what the root finds under one byte at most, unless it    *)
(* replaced or emptied the tree, or a Node48 reused a slot.                *)
(***************************************************************************)
Inner(k) == shards[k].root # Nil /\ ~IsLeaf(shards[k].root)

OthersUntouched ==
    [][\A k \in 1..scn.shards :
          \/ scn.neon \/ shards'[k] = New
          \/ ~Inner(k) \/ ~Inner(k)' \/ Shared(shards'[k].root)
          \/ \E b \in Bytes : \A c \in Bytes \ {b} :
                FindChild(shards[k].root, c) = FindChild(shards'[k].root, c)]_vars
=============================================================================
