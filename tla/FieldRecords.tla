----------------------------- MODULE FieldRecords -----------------------------
(* What a verilated module with struct ports is to the design: a box with a record of inputs and a  *)
(* record of outputs for each struct. The inputs are taken, and the outputs are shown, all at once, *)
(* when the module evaluates. A value is the set of the places of its bits that are 1.              *)
EXTENDS Integers

CONSTANTS Structs, Fields, Bits, TypeBits, Signed

VARIABLES
    driven,             \* what the design drives to the fields of the inputs
    given,              \* what the box works with
    result,             \* what it has computed
    presented           \* what the fields of the outputs show

(* A field narrower than its type is cut on the way in, and extended on the way out. *)
Cut(bits, f) == {i \in bits : i \in 0..Bits[f] - 1}
WithSign(bits, f) ==
    IF f \in Signed /\ Bits[f] - 1 \in bits THEN bits \cup (Bits[f]..TypeBits[f] - 1) ELSE bits

Init == given = [e \in Structs |-> [f \in Fields |-> {}]]

Evaluate ==
    /\ given' = [e \in Structs |-> [f \in Fields |-> Cut(driven[e][f], f)]]
    /\ presented' = [e \in Structs |-> [f \in Fields |-> WithSign(result'[e][f], f)]]

Drive == UNCHANGED <<given, result, presented>>

Spec == Init /\ [][Evaluate \/ Drive]_<<driven, given, result, presented>>
=============================================================================
