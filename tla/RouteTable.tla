----------------------------- MODULE RouteTable -----------------------------
(***************************************************************************)
(* What every RadixIP tree promises through the RouteTree trait            *)
(* (lib/rust/engine/src/traits.rs): a map from CIDR prefixes to metadata   *)
(* with insert, remove and clear, and a lookup that returns the metadata   *)
(* of the longest prefix containing the address.                           *)
(*                                                                         *)
(* A prefix is [fam, bits] where bits has the mask's length; an address is *)
(* the same kind of record at full length.  The addresses of the model are *)
(* 2 or 3 bits wide instead of 32 and 128.                                 *)
(***************************************************************************)
EXTENDS Integers, Sequences, FiniteSets

CONSTANTS Prefixes,     \* the CIDR prefixes callers use
          Vals,         \* the metadata values they attach
          Nil           \* Option::None

VARIABLE routes         \* [Prefixes -> Vals \cup {Nil}]

(***************************************************************************)
(* network_contains_ip: same family, and the address starts with the bits  *)
(***************************************************************************)
Covers(p, ip) ==
    /\ p.fam = ip.fam
    /\ Len(p.bits) <= Len(ip.bits)
    /\ \A i \in 1..Len(p.bits) : p.bits[i] = ip.bits[i]

Present(table) == {p \in Prefixes : table[p] # Nil}

Matches(table, ip) == {p \in Present(table) : Covers(p, ip)}

(***************************************************************************)
(* The reference longest prefix match                                      *)
(***************************************************************************)
Best(table, ip) ==
    IF Matches(table, ip) = {}
    THEN Nil
    ELSE CHOOSE p \in Matches(table, ip) :
            \A q \in Matches(table, ip) : Len(q.bits) <= Len(p.bits)

Empty == [p \in Prefixes |-> Nil]

Init == routes = Empty

Insert(p, v) == routes' = [routes EXCEPT ![p] = v]

Remove(p) == routes' = [routes EXCEPT ![p] = Nil]

Clear == routes' = Empty

Next ==
    \/ \E p \in Prefixes, v \in Vals : Insert(p, v)
    \/ \E p \in Prefixes : Remove(p)
    \/ Clear

Spec == Init /\ [][Next]_routes
=============================================================================
