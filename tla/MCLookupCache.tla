--------------------------- MODULE MCLookupCache ---------------------------
(***************************************************************************)
(* Instances of LookupCache: two-bit IPv4 addresses.                       *)
(***************************************************************************)
EXTENDS LookupCache

CONSTANTS a, b, t1, t2

V4(s) == [fam |-> 4, bits |-> s]

\* nested prefixes: a write of the shorter changes the answers for both addresses
Nested == {V4(<<0>>), V4(<<0, 1>>)}
\* the shorter one also written with its host bit, as 10.0.0.1/8 for 10.0.0.0/8
OwnSpelling == {[net |-> p, host |-> {}] : p \in Nested}
TwoSpellings == OwnSpelling \cup {[net |-> V4(<<0>>), host |-> {2}]}
TwoIps == {V4(<<0, 0>>), V4(<<0, 1>>)}

TwoVals == {a, b}

TwoThreads == {t1, t2}

\* callers that write every prefix alike, and callers that do not and change its value;
\* Go loads no field of the hash, so how it is written does not matter there
Alike == [writes |-> OwnSpelling, vals |-> {a}, asks |-> TwoIps]
Unlike == [writes |-> {w \in TwoSpellings : w.net = V4(<<0>>)}, vals |-> TwoVals,
           asks |-> {V4(<<0, 1>>)}]
AnyCallers == [l \in Langs |-> IF l = "rust" THEN {Alike, Unlike} ELSE {Alike}]

AllOps == {"insert", "remove", "clear", "lookup"}
BothLangs == {"rust", "go"}

ThreadSymmetry == {[t \in TwoThreads |-> t],
                   [t \in TwoThreads |-> IF t = t1 THEN t2 ELSE t1]}
=============================================================================
