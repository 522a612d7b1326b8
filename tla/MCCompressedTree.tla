-------------------------- MODULE MCCompressedTree --------------------------
(***************************************************************************)
(* Instances of CompressedTree: IPv6 is three bits wide and IPv4 two.      *)
(***************************************************************************)
EXTENDS CompressedTree

CONSTANT a

V4(s) == [fam |-> 4, bits |-> s]
V6(s) == [fam |-> 6, bits |-> s]

Bits(n) == [1..n -> {0, 1}]

V6Prefixes == {V6(<<>>), V6(<<0>>), V6(<<0, 0>>), V6(<<0, 1>>),
               V6(<<0, 0, 1>>), V6(<<0, 1, 0>>), V6(<<1>>), V6(<<1, 1, 0>>)}
V6Addresses == {V6(s) : s \in Bits(3)}

V4Prefixes == {V4(s) : s \in UNION {Bits(n) : n \in 0..2}}
V4Addresses == {V4(s) : s \in Bits(2)}

OneVal == {a}

BothLangs == {"rust", "go"}
RustOnly == {"rust"}
=============================================================================
