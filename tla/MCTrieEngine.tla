---------------------------- MODULE MCTrieEngine ----------------------------
(***************************************************************************)
(* Instances of TrieEngine.  Addresses are two bits wide; V4 names a       *)
(* prefix by its bits.                                                     *)
(***************************************************************************)
EXTENDS TrieEngine, TLC

CONSTANTS w1, w2, r1, a, b

V4(s) == [fam |-> 4, bits |-> s]

WriterSymmetry == Permutations({w1, w2})

OneWriter == {w1}
TwoWriters == {w1, w2}
OneReader == {r1}
NoReader == {}

ThreePrefixes == {V4(<<0>>), V4(<<0, 1>>), V4(<<1>>)}
NestedPrefixes == {V4(<<0>>), V4(<<0, 1>>)}
ForkedPrefixes == {V4(<<0, 0>>), V4(<<0, 1>>)}

TwoVals == {a, b}
OneVal == {a}

Addresses == {V4(<<0, 1>>)}

AllOps == {"insert", "remove", "clear"}
InsertOnly == {"insert"}
=============================================================================
