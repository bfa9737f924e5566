---------------------------- MODULE MCElaboration ----------------------------
(***************************************************************************)
(* A port of a leaf module, one of the module around it and one of the     *)
(* outermost module.  The three events of a port are treated alike, so     *)
(* that one of them is enough.                                             *)
(***************************************************************************)
EXTENDS Elaboration

CONSTANTS leaf, mid, top, sigA, sigB, proc, posedge

Depth == [p \in Port |-> CASE p = leaf -> 2 [] p = mid -> 1 [] OTHER -> 0]
=============================================================================
