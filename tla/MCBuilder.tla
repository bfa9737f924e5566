------------------------------- MODULE MCBuilder -------------------------------
(* Builder for TLC: two processes that build VHDL, one of which builds a C++ module as well. *)
EXTENDS Builder, TLC

CONSTANTS p1, p2, before, after

MCBuilds == (p1 :> {"cpp", "vhdl"}) @@ (p2 :> {"vhdl"})
MCTemplate == (0 :> "old") @@ (1 :> "old") @@ (2 :> "new")
MCVersions == {before, after}
Symmetry == Permutations(MCVersions)
=============================================================================
