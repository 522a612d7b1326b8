---------------------------- MODULE MCHybridSync ----------------------------
(***************************************************************************)
(* Instances of HybridSync.                                                *)
(***************************************************************************)
EXTENDS HybridSync

CONSTANTS p1, p2, x1, v1, v2

TwoProcs == {p1, p2}
OnePrefix == {x1}
TwoSpellings == {[net |-> x1, host |-> h] : h \in BOOLEAN}
TwoMetas == {v1, v2}
AllRust == [p \in Procs |-> "rust"]
AllGo == [p \in Procs |-> "go"]
Mixed == [p \in Procs |-> IF p = p1 THEN "rust" ELSE "go"]

\* callers write x1 without host bits, or those of p2 with
Alike == [p \in Procs |-> {w \in Written : ~w.host}]
Unlike == [p \in Procs |-> {w \in Written : w.host <=> p = p2}]

AnyDeployment ==
    [lang : {AllRust, AllGo, Mixed}, redis : {TRUE}, writes : {Alike}]
        \cup [lang : {AllRust}, redis : {TRUE}, writes : {Unlike}]
        \cup [lang : {AllRust}, redis : {FALSE}, writes : {Alike}]

AllOps == {"insert", "remove", "clear"}
=============================================================================
