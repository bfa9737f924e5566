------------------------------ MODULE Interface ------------------------------
(* A verilated module with an array of packed structs as its port: what StructPorts has bound, when *)
(* it is complete, carries the values that the design writes, element by element or as whole        *)
(* arrays, to the words of PackedPorts and back.                                                    *)
EXTENDS StructPorts, PackedPorts

CONSTANTS
    PortName,           \* the field of the ports that is the array of structs of the verilated module
    Verilated,          \* its tree
    Patterns            \* what the design writes to an array: the value of its n-th element

interfaceVars == <<vars, packedVars>>

Rested == evaluating = "no"

InterfaceInit ==
    /\ Init
    /\ input = <<>> /\ output = <<>> /\ signal = <<>> /\ value = <<>> /\ shown = <<>> /\ seen = <<>>
    /\ Rested /\ next = 1

(* A port of the verilated module, in the tree of ports. *)
PortElement(p) ==
    <<Field(PortName), Element(<<p.struct>>), Field(p.field)>>
        \o (IF IsWide(p.field) THEN <<Element(<<p.piece>>)>> ELSE <<>>)

(* The ports of a tree, or its signals. *)
AllElements(tree) ==
    UNION {{Part(tree, path, i) : i \in Box(tree[path].shape)} : path \in {p \in DOMAIN tree : IsLeaf(tree[p])}}
Subtree(tree, path) == [p \in Under(tree, path) |-> tree[path \o p]]

(* elaborate(): every input has a signal. The outputs have signals of their own. *)
Elaborate ==
    /\ phase = "use"
    /\ OtherAreSignals
    /\ Subtree(ports, <<Field(PortName)>>) = Verilated
    /\ \A e \in AllElements(ports) : \E b \in bound : b[1] = e
    /\ phase' = "run"
    /\ signal' = [p \in Ports("in") |-> (CHOOSE b \in bound : b[1] = PortElement(p))[2]]
    /\ value' = [s \in AllElements(other) |-> {}]
    /\ shown' = [p \in Ports("out") |-> {}]
    /\ input' = Cleared
    /\ output' = Cleared
    /\ seen' = Cleared
    /\ portView' = RootView(ports)
    /\ otherView' = RootView(other)
    /\ UNCHANGED <<ports, other, created, bound, binds, evaluating, next>>

(* NdView::write, of a whole array: the signals in row-major order. *)
WriteArray(pattern) ==
    LET elems == otherView.elems
        Pattern(s) == Truncated(pattern[CHOOSE n \in DOMAIN elems : elems[n] = s], otherView.type)
    IN /\ phase = "run" /\ Rested
       /\ otherView.of = "array"
       /\ value' = [s \in DOMAIN value |-> IF \E n \in DOMAIN elems : elems[n] = s THEN Pattern(s) ELSE value[s]]
       /\ UNCHANGED <<vars, input, output, signal, shown, evaluating, next, seen>>

(* Nothing else happens during eval(). *)
Evaluate == phase = "run" /\ Eval /\ UNCHANGED vars

InterfaceNext ==
    \/ Rested /\ Next /\ UNCHANGED packedVars
    \/ Elaborate
    \/ \E pattern \in Patterns : WriteArray(pattern)
    \/ Evaluate

InterfaceSpec == InterfaceInit /\ [][InterfaceNext]_interfaceVars

-----------------------------------------------------------------------------
(* Seen from the outside the words are gone: the module has a record of inputs and one of outputs   *)
(* for each struct, and its outputs change when the verilated model has been evaluated.             *)
FieldsOf(words) ==
    [e \in Structs |-> [f \in Fields |-> IF phase = "run" THEN FieldOf(words, e, f) ELSE {}]]
AllDriven == [e \in Structs |-> [f \in Fields |-> IF phase = "run" THEN Driven(e, f) ELSE {}]]
AllPresented ==
    [e \in Structs |-> [f \in Fields |->
        CASE phase # "run" -> {}
          [] phase = "run" /\ evaluating = "out" -> Extended(FieldOf(output, e, f), Bits[f], f)
          [] OTHER -> Presented(e, f)]]

Record == INSTANCE FieldRecords WITH
    given <- FieldsOf(seen), result <- FieldsOf(output), driven <- AllDriven, presented <- AllPresented

(* The fields of the structs are independent of each other: eval() gives the verilated model what   *)
(* the input signals of each field show, in the bits of the field, and shows each field of the      *)
(* output with its sign, although fields share words.                                               *)
IsRecord == Record!Spec

(* Verilator requires that the bits above the width of a port are 0, whatever the signals hold.     *)
InputIsClean == phase = "run" => \A e \in Structs : Vector(input, e) \subseteq 0..Width - 1
=============================================================================
