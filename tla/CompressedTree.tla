--------------------------- MODULE CompressedTree ---------------------------
(***************************************************************************)
(* The Patricia tree behind the compressed engines, in Rust                *)
(* (lib/rust/engine/src/tree.rs) and in Go (lib/go/engine/tree.go), one    *)
(* operation at a time, with the size counter its engine keeps.            *)
(*                                                                         *)
(* A node is [edge, meta, kid]: the bits folded into it, its metadata and  *)
(* its two children.  insert, remove and contains make the same cases in   *)
(* both languages; lookup and the conversion of an address to a key do     *)
(* not.  Metadata carries the prefix it was inserted under.                *)
(*                                                                         *)
(* IPv4 addresses are V4Width bits and IPv6 addresses V6Width bits.        *)
(***************************************************************************)
EXTENDS Integers, Sequences, FiniteSets

CONSTANTS Langs,                \* the implementations considered, "rust" and "go"
          Prefixes, Vals, Nil,  \* as in RouteTable
          Ips,                  \* addresses looked up
          V6Width, V4Width      \* 128 and 32

VARIABLES lang,     \* the implementation that runs
          root,     \* the root node
          size,     \* the engine's size counter
          table     \* history: the routes callers expect to be stored

vars == <<lang, root, size, table>>

NewNode == [edge |-> <<>>, meta |-> Nil, kid |-> [b \in {0, 1} |-> Nil]]

Leaf(edge, m) == [NewNode EXCEPT !.edge = edge, !.meta = m]

(***************************************************************************)
(* ip_to_bytes: Rust puts the IPv4 octets into the LAST bytes of a 16-byte *)
(* key; Go uses the 4 octets as they are                                   *)
(***************************************************************************)
RustKey(a) ==
    IF a.fam = 4 THEN [i \in 1..(V6Width - V4Width) |-> 0] \o a.bits ELSE a.bits

GoKey(a) == a.bits

\* the first key_len bits, key_len being the prefix's own length
PrefixKey(p) == SubSeq(IF lang = "rust" THEN RustKey(p) ELSE GoKey(p), 1, Len(p.bits))

AddressKey(ip) == IF lang = "rust" THEN RustKey(ip) ELSE GoKey(ip)

From(s, i) == SubSeq(s, i, Len(s))

\* Mutant: stops one bit early.
CommonPrefixLen_short(s, t) ==
    LET limit == IF Len(s) <= Len(t) THEN Len(s) ELSE Len(t) IN
    IF limit = 0 THEN 0
    ELSE CHOOSE n \in 0..limit - 1 :
            /\ SubSeq(s, 1, n) = SubSeq(t, 1, n)
            /\ n < limit - 1 => s[n + 1] # t[n + 1]

CommonPrefixLen(s, t) ==
    LET limit == IF Len(s) <= Len(t) THEN Len(s) ELSE Len(t) IN
    CHOOSE n \in 0..limit :
        /\ SubSeq(s, 1, n) = SubSeq(t, 1, n)
        /\ n < limit => s[n + 1] # t[n + 1]
----------------------------------------------------------------------------
\* Mutant: the metadata stays on the shortened edge.
Split_keepsMetadata(n, at, rest, m) ==
    LET low == [n EXCEPT !.edge = From(@, at + 2)]
        top == [NewNode EXCEPT !.edge = SubSeq(n.edge, 1, at), !.meta = n.meta,
                               !.kid[n.edge[at + 1]] = low]
    IN  IF at = Len(rest)
        THEN [top EXCEPT !.meta = m]
        ELSE [top EXCEPT !.kid[rest[at + 1]] = Leaf(From(rest, at + 2), m)]

(***************************************************************************)
(* The edge of n and the key diverge after `at' bits: the shared bits stay *)
(* in n, the rest of the edge moves into a child with n's metadata and     *)
(* children, and the new route is placed here or in a leaf beside it       *)
(***************************************************************************)
Split(n, at, rest, m) ==
    LET low == [n EXCEPT !.edge = From(@, at + 2)]
        top == [NewNode EXCEPT !.edge = SubSeq(n.edge, 1, at), !.kid[n.edge[at + 1]] = low]
    IN  IF at = Len(rest)
        THEN [top EXCEPT !.meta = m]
        ELSE [top EXCEPT !.kid[rest[at + 1]] = Leaf(From(rest, at + 2), m)]

(***************************************************************************)
(* insert_inner / insertNode: rest is the part of the key below n.  Yields *)
(* the new node and whether the route is new.                              *)
(***************************************************************************)
RECURSIVE InsertInner(_, _, _)
InsertInner(n, rest, m) ==
    LET shared == CommonPrefixLen(n.edge, rest)
        bit == rest[shared + 1]
        below == From(rest, shared + 2)
    IN  CASE n = NewNode ->
                [node |-> Leaf(rest, m), isNew |-> TRUE]
          [] n # NewNode /\ shared = Len(n.edge) /\ shared = Len(rest) ->
                [node |-> [n EXCEPT !.meta = m], isNew |-> n.meta = Nil]
          [] n # NewNode /\ shared < Len(n.edge) ->
                [node |-> Split(n, shared, rest, m), isNew |-> TRUE]
          [] OTHER ->
                LET sub == IF n.kid[bit] = Nil
                           THEN [node |-> Leaf(below, m), isNew |-> TRUE]
                           ELSE InsertInner(n.kid[bit], below, m)
                IN  [node |-> [n EXCEPT !.kid[bit] = sub.node], isNew |-> sub.isNew]

\* insertNode of tree.go, case by case the same
GoInsertNode(n, rest, m) == InsertInner(n, rest, m)

\* Mutant: the first match ends the descent.
Lookup_first(n, rest) ==
    IF CommonPrefixLen(n.edge, rest) < Len(n.edge) THEN Nil ELSE n.meta

(***************************************************************************)
(* lookup_inner: a node with an empty edge and no metadata ends the search *)
(* even when it has children                                               *)
(***************************************************************************)
RECURSIVE LookupInner(_, _)
LookupInner(n, rest) ==
    LET shared == CommonPrefixLen(n.edge, rest)
        kid == n.kid[rest[shared + 1]]
        deeper == IF shared = Len(rest) \/ kid = Nil THEN Nil
                  ELSE LookupInner(kid, From(rest, shared + 2))
    IN  IF (n.edge = <<>> /\ n.meta = Nil) \/ shared < Len(n.edge) THEN Nil
        ELSE IF deeper # Nil THEN deeper ELSE n.meta

(***************************************************************************)
(* lookupNode of tree.go: without that early return                        *)
(***************************************************************************)
RECURSIVE GoLookupNode(_, _)
GoLookupNode(n, rest) ==
    LET shared == CommonPrefixLen(n.edge, rest)
        kid == n.kid[rest[shared + 1]]
        deeper == IF shared = Len(rest) \/ kid = Nil THEN Nil
                  ELSE GoLookupNode(kid, From(rest, shared + 2))
    IN  IF shared < Len(n.edge) THEN Nil
        ELSE IF deeper # Nil THEN deeper ELSE n.meta

(***************************************************************************)
(* remove_inner / removeNode: clears the metadata, keeps the node          *)
(***************************************************************************)
RECURSIVE RemoveInner(_, _)
RemoveInner(n, rest) ==
    LET shared == CommonPrefixLen(n.edge, rest)
        bit == rest[shared + 1]
        sub == RemoveInner(n.kid[bit], From(rest, shared + 2))
    IN  CASE shared < Len(n.edge) -> [node |-> n, removed |-> Nil]
          [] shared = Len(n.edge) /\ shared = Len(rest) ->
                [node |-> [n EXCEPT !.meta = Nil], removed |-> n.meta]
          [] OTHER ->
                IF n.kid[bit] = Nil THEN [node |-> n, removed |-> Nil]
                ELSE [node |-> [n EXCEPT !.kid[bit] = sub.node], removed |-> sub.removed]

GoRemoveNode(n, rest) == RemoveInner(n, rest)

\* contains_inner / containsNode
RECURSIVE ContainsInner(_, _)
ContainsInner(n, rest) ==
    LET shared == CommonPrefixLen(n.edge, rest)
        kid == n.kid[rest[shared + 1]]
    IN  /\ shared = Len(n.edge)
        /\ IF shared = Len(rest) THEN n.meta # Nil
           ELSE kid # Nil /\ ContainsInner(kid, From(rest, shared + 2))

GoContainsNode(n, rest) == ContainsInner(n, rest)
----------------------------------------------------------------------------
Init ==
    /\ lang \in Langs
    /\ root = NewNode
    /\ size = 0
    /\ table = [p \in Prefixes |-> Nil]

Insert(p, v) ==
    LET m == [p |-> p, v |-> v]
        r == IF lang = "rust" THEN InsertInner(root, PrefixKey(p), m)
                              ELSE GoInsertNode(root, PrefixKey(p), m)
    IN  /\ root' = r.node
        /\ size' = size + (IF r.isNew THEN 1 ELSE 0)
        /\ table' = [table EXCEPT ![p] = m]

Remove(p) ==
    LET r == IF lang = "rust" THEN RemoveInner(root, PrefixKey(p))
                              ELSE GoRemoveNode(root, PrefixKey(p))
    IN  /\ root' = r.node
        /\ size' = size - (IF r.removed # Nil THEN 1 ELSE 0)
        /\ table' = [table EXCEPT ![p] = Nil]

Clear ==
    /\ root' = NewNode
    /\ size' = 0
    /\ table' = [p \in Prefixes |-> Nil]

Next ==
    /\ \/ \E p \in Prefixes, v \in Vals : Insert(p, v)
       \/ \E p \in Prefixes : Remove(p)
       \/ Clear
    /\ UNCHANGED lang

Spec == Init /\ [][Next]_vars
----------------------------------------------------------------------------
Ref == INSTANCE RouteTable WITH routes <- table

Lookup(ip) == IF lang = "rust" THEN LookupInner(root, AddressKey(ip))
                               ELSE GoLookupNode(root, AddressKey(ip))

Contains(p) == IF lang = "rust" THEN ContainsInner(root, PrefixKey(p))
                                ELSE GoContainsNode(root, PrefixKey(p))

(***************************************************************************)
(* Some node would end lookup_inner's search although it has children: it  *)
(* has no edge and no metadata (two routes that differ in the bit right    *)
(* after the parent's).                                                    *)
(***************************************************************************)
RECURSIVE Hides(_)
Hides(n) ==
    \/ n.edge = <<>> /\ n.meta = Nil /\ \E b \in {0, 1} : n.kid[b] # Nil
    \/ \E b \in {0, 1} : n.kid[b] # Nil /\ Hides(n.kid[b])

Longest(ip) == LET p == Ref!Best(table, ip) IN IF p = Nil THEN Nil ELSE table[p]

(***************************************************************************)
(* After any sequence of splits, updates and removals the tree holds       *)
(* exactly the routes that were inserted and not removed (tree.rs:244-475, *)
(* tree.go:260-470), and the size counter, fed by insert's is_new and      *)
(* remove's result, counts them.                                           *)
(***************************************************************************)
HoldsTable ==
    /\ \A p \in Prefixes : Contains(p) <=> table[p] # Nil
    /\ size = Cardinality(Ref!Present(table))

(***************************************************************************)
(* A lookup returns only a stored route that contains the address: an edge *)
(* that matched is part of the prefix of everything below it               *)
(* (tree.rs:383-412).                                                      *)
(***************************************************************************)
LookupSound ==
    \A ip \in Ips : LET m == Lookup(ip) IN
        m # Nil => Ref!Covers(m.p, ip) /\ table[m.p] = m

(***************************************************************************)
(* "Walk the trie returning the most-specific matching prefix"             *)
(* (tree.rs:375): lookup is the longest prefix match.  In Go it always is, *)
(* in Rust in the trees in which no edgeless node without metadata has     *)
(* children: the early return at tree.rs:379-381 is the only departure.    *)
(***************************************************************************)
LongestUnlessHidden ==
    (lang = "rust" /\ Hides(root)) \/ \A ip \in Ips : Lookup(ip) = Longest(ip)
=============================================================================
