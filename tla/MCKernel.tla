------------------------------ MODULE MCKernel ------------------------------
(***************************************************************************)
(* Small designs for TLC.  c1 and c2 are coroutine processes, m1 and m2    *)
(* method processes, s1 is spawned and o1 runs in run_until().             *)
(***************************************************************************)
EXTENDS KernelProperties

CONSTANTS c1, c2, m1, m2, s1, o1, e1, e2, sig

Named(es) == [e \in AllEvent |-> IF e \in es THEN 1 ELSE 0]

NoSensitivity     == [p \in Registered |-> {}]
MethodSensitivity == [p \in Registered |-> IF p = m1 THEN {e1} ELSE {sig}]
CoroSensitivity   == [p \in Registered |-> {e1}]

\* One event, either of two, and the same event named twice.
AnyWaits  == {Named({e1}), Named({e1, e2}), [Named({}) EXCEPT ![e1] = 2]}
OneWait   == {Named({e1})}
=============================================================================
