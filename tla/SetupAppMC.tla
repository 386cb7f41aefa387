----------------------------- MODULE SetupAppMC -----------------------------
(* Two operations for model checking SetupApp.                              *)
EXTENDS SetupApp, TLC

CONSTANTS o1, o2

MCOps == {o1, o2}
OneOp == {o1}
SystemScope == {"system"}
UserScope == {"user"}
Typical == {"absent", "legacy"}
LegacyOnly == {"legacy"}
Symmetry == Permutations(MCOps)
=============================================================================
