------------------------------- MODULE MCTasks -------------------------------
(* Tasks for TLC: a C++ and a Python process, few frames of two sizes, and threads that take over.  *)
EXTENDS Tasks

CONSTANTS c1, p1, none, t1, t2, b1, b2, b3

MCCoroProcesses == {c1}
MCPyTasks == {p1}
MCThreads == {t1, t2}
MCBlocks == {b1, b2, b3}
MCSizes == {2, 3}

Symmetry == Permutations(MCThreads) \cup Permutations(MCBlocks)
=============================================================================
