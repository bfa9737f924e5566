-------------------------- MODULE MCContextFactory --------------------------
(***************************************************************************)
(* Three threads that construct designs, and the factory that replaces the *)
(* first one.                                                              *)
(***************************************************************************)
EXTENDS ContextFactory

CONSTANTS t1, t2, t3, f1, f2
=============================================================================
