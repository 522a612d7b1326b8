----------------------------- MODULE MCAutoBan -----------------------------
(***************************************************************************)
(* Instances of AutoBan.                                                   *)
(***************************************************************************)
EXTENDS AutoBan

CONSTANTS i1, i2, t1, t2, t3

OneIp == {i1}
BothLangs == {"rust", "go"}
TwoIps == {i1, i2}
TwoThreads == {t1, t2}
ThreeThreads == {t1, t2, t3}
=============================================================================
