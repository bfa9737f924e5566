----------------------------- MODULE StructPorts -----------------------------
(* Struct ports (struct.h, struct.cpp): groups of ports and of signals with named fields, arrays of *)
(* them, the views of both, and bind(), which first checks two whole trees and then binds them      *)
(* field by field.                                                                                  *)
(*                                                                                                  *)
(* A tree of structs has a node for each struct, field and element of an array of structs, at the   *)
(* path of fields and positions that leads to it. A node says what it is, the type of its value     *)
(* (known by its bits), its shape, and the fields of a struct in the order in which they were added. *)
EXTENDS Arrays, SequencesExt

CONSTANTS
    FieldNames,
    PortFields,         \* of each field, the trees that it may be in a port struct
    SignalFields,       \* the same for a struct of signals that is put together by hand
    ParentFields,       \* the same for the port struct of a parent module
    Selections,         \* the slices that the user selects
    MaxFields,          \* how many fields a struct gets
    MaxMoves,           \* how many views of views the user makes, on each side
    MaxBinds            \* how many times bind() is called

VARIABLES
    phase,              \* "build" while fields are added, "use" afterwards, "run" after elaboration
    ports,              \* the port struct of a module
    other,              \* what it is bound to: signals, or the ports of a parent module
    created,            \* signals() has made other
    portView,           \* what the user has taken from ports
    otherView,
    bound,              \* pairs of a port and what it is bound to: bound_signal_ and bound_ports_
    binds               \* the calls of bind()

vars == <<phase, ports, other, created, portView, otherView, bound, binds>>

-----------------------------------------------------------------------------
(* Trees. *)

Step == [field : FieldNames \cup {""}, index : Seq(Nat)]
Field(f) == [field |-> f, index |-> <<>>]
Element(i) == [field |-> "", index |-> i]

Node(of, bits, dir, shape) == [of |-> of, type |-> bits, dir |-> dir, shape |-> shape, fields |-> <<>>]

IsLeaf(node) == node.of \in {"scalar", "array"}
IsArray(node) == node.of \in {"array", "structs"}

EmptyStruct(dir) == [path \in {<<>>} |-> Node("struct", 0, dir, <<>>)]

(* add_field: the names of the fields are distinct. *)
HasField(tree, f) == \E n \in DOMAIN tree[<<>>].fields : tree[<<>>].fields[n] = f
FieldCount(tree) == Len(tree[<<>>].fields)
WithField(tree, f, sub) ==
    [path \in DOMAIN tree \cup {<<Field(f)>> \o p : p \in DOMAIN sub} |->
        IF path = <<>> THEN [tree[path] EXCEPT !.fields = Append(@, f)]
        ELSE IF Head(path) = Field(f) THEN sub[Tail(path)] ELSE tree[path]]

(* An array of structs, which are given in row-major order: each at its place (struct_element_names). *)
StructArray(dir, shape, elements) ==
    LET pos == Positions(shape)
        StructAt(i) == elements[CHOOSE k \in DOMAIN pos : pos[k] = i]
    IN [path \in {<<>>} \cup UNION {{<<Element(pos[k])>> \o p : p \in DOMAIN elements[k]} : k \in DOMAIN pos} |->
            IF path = <<>> THEN Node("structs", 0, dir, shape) ELSE StructAt(Head(path).index)[Tail(path)]]

(* Variant: all structs of an array are made like its first. *)
SignalsOfFirst(tree) ==
    LET First(path) == [n \in DOMAIN path |-> [path[n] EXCEPT !.index = Zeros(Len(@))]]
    IN [path \in DOMAIN tree |-> [tree[path] EXCEPT !.dir = "signal", !.shape = tree[First(path)].shape]]

(* signals(): for each field what its port binds to, with its type and shape. *)
Signals(tree) == [path \in DOMAIN tree |-> [tree[path] EXCEPT !.dir = "signal"]]

(* The elements of an array, of ports or structs, are found by their flat index, and known by their *)
(* position.                                                                                        *)
Part(tree, path, i) == IF IsArray(tree[path]) THEN Append(path, Element(i)) ELSE path

(* What is below a path of a tree. *)
Under(tree, path) == {SubSeq(p, Len(path) + 1, Len(p)) : p \in {q \in DOMAIN tree : IsPrefix(path, q)}}

(* Each step of a path is one that its node has. *)
Fits(node, step) ==
    \/ /\ node.of = "struct"
       /\ \E n \in DOMAIN node.fields : step = Field(node.fields[n])
    \/ /\ node.of = "structs"
       /\ \E i \in Box(node.shape) : step = Element(i)
IsNode(node) ==
    /\ node = [Node(node.of, node.type, node.dir, node.shape) EXCEPT !.fields = node.fields]
    /\ node.shape \in Seq(Nat)
    /\ node.fields \in Seq(FieldNames)
    /\ node.of \in {"scalar", "array", "struct", "structs"}
    /\ ~IsArray(node) => node.shape = <<>>
    /\ ~IsLeaf(node) => node.type = 0
IsTree(tree) ==
    /\ <<>> \in DOMAIN tree
    /\ \A path \in DOMAIN tree :
          /\ path \in Seq(Step)
          /\ IsNode(tree[path])
          /\ \A n \in 1..Len(path) : /\ SubSeq(path, 1, n - 1) \in DOMAIN tree
                                     /\ Fits(tree[SubSeq(path, 1, n - 1)], path[n])
          /\ tree[path].of = "structs" =>
                \A i \in Box(tree[path].shape) : /\ Append(path, Element(i)) \in DOMAIN tree
                                                 /\ tree[Append(path, Element(i))].of = "struct"
(* The directions of a tree of ports, and of one of signals. *)
ArePorts(tree) == \A path \in DOMAIN tree : tree[path].dir \in (IF IsLeaf(tree[path]) THEN {"in", "out"} ELSE {"port"})
AreSignals(tree) == \A path \in DOMAIN tree : tree[path].dir = "signal"

ASSUME StructAssumption ==
    /\ "" \notin FieldNames
    /\ \A f \in FieldNames : /\ \A sub \in PortFields[f] \cup ParentFields[f] : IsTree(sub) /\ ArePorts(sub)
                             /\ \A sub \in SignalFields[f] : IsTree(sub) /\ AreSignals(sub)
    /\ \A slices \in Selections :
          /\ slices \in Seq([start : Seq(Int), stop : Seq(Int), drop : BOOLEAN])
          /\ \A d \in DOMAIN slices : slices[d].drop => slices[d].start # <<>>

-----------------------------------------------------------------------------
(* Views. A view has elements in row-major order: those of an array, the structs of an array, or    *)
(* one struct. The code selects them by flat indices; `expects` is a history that says, for each    *)
(* position, which element the user has asked for.                                                  *)

ViewOf(tree, path, expected, moves) ==
    LET node == tree[path]
        pos == Positions(node.shape)
    IN [of |-> node.of, type |-> node.type, dir |-> node.dir, shape |-> node.shape,
        elems |-> [k \in DOMAIN pos |-> Part(tree, path, pos[k])],
        expects |-> [i \in Box(node.shape) |-> Part(tree, expected, i)],
        moves |-> moves]
RootView(tree) == ViewOf(tree, <<>>, <<>>, 0)

(* nested(), struct_array(), array(), input_array(): the field of a struct. *)
FieldPath(path, f) == Append(path, Field(f))
TakeField(tree, view, f) ==
    /\ view.of = "struct"
    /\ FieldPath(view.elems[1], f) \in DOMAIN tree
    /\ tree[FieldPath(view.elems[1], f)].of # "scalar"
TakenField(tree, view, f) ==
    ViewOf(tree, FieldPath(view.elems[1], f), FieldPath(view.expects[<<>>], f), view.moves + 1)

(* The position in an array of an element of its selection. *)
Unselected(ranges, pos) ==
    [d \in DOMAIN ranges |-> ranges[d].start + (IF ranges[d].drop THEN 0 ELSE pos[Kept(ranges)[d]])]

(* slice() of an array of structs, or of ports or signals: select(). *)
TakeSlice(view, slices) ==
    /\ view.of \in {"array", "structs"}
    /\ CanResolveAll(view.shape, slices)
TakenSlice(view, slices) ==
    LET ranges == Ranges(view.shape, slices)
        flat == SelectedFlat(view.shape, ranges)
    IN [view EXCEPT !.shape = SelectedShape(ranges),
                    !.elems = [k \in DOMAIN flat |-> view.elems[flat[k] + 1]],
                    !.expects = [i \in Box(SelectedShape(ranges)) |-> view.expects[Unselected(ranges, i)]],
                    !.moves = @ + 1]

(* at() of an array of structs: one of them. *)
TakenElement(tree, view, pos) ==
    ViewOf(tree, view.elems[FlatIndexOfView(view.shape, pos) + 1], view.expects[pos], view.moves + 1)

(* struct_field_elements, for array(field) and nested(field) of an array of structs: one field of   *)
(* every struct, as one array. The dimensions of a field that is an array come last; it must be the *)
(* same in each struct.                                                                             *)
FieldOfFirst(tree, view, f) == tree[FieldPath(view.elems[1], f)]
SameField(node, first) ==
    /\ IsLeaf(node) = IsLeaf(first)
    /\ node.type = first.type /\ node.dir = first.dir
    /\ node.shape = first.shape
TakeEach(tree, view, f) ==
    /\ view.of = "structs" /\ view.elems # <<>>
    /\ \A k \in DOMAIN view.elems :
          /\ FieldPath(view.elems[k], f) \in DOMAIN tree
          /\ SameField(tree[FieldPath(view.elems[k], f)], FieldOfFirst(tree, view, f))
TakenEach(tree, view, f) ==
    LET first == FieldOfFirst(tree, view, f)
        pos == Positions(first.shape)
        n == Len(pos)
        dims == Len(view.shape)
    IN [of |-> IF IsLeaf(first) THEN "array" ELSE "structs", type |-> first.type, dir |-> first.dir,
        shape |-> view.shape \o first.shape,
        elems |-> [m \in 1..Len(view.elems) * n |->
                      Part(tree, FieldPath(view.elems[((m - 1) \div n) + 1], f), pos[((m - 1) % n) + 1])],
        expects |-> [i \in Box(view.shape \o first.shape) |->
                        Part(tree, FieldPath(view.expects[SubSeq(i, 1, dims)], f), SubSeq(i, dims + 1, Len(i)))],
        moves |-> view.moves + 1]

(* The views that one call makes of a view; the user still has what they were made of. *)
Views(tree, view) ==
    {TakenField(tree, view, f) : f \in {g \in FieldNames : TakeField(tree, view, g)}}
    \cup {TakenSlice(view, s) : s \in {t \in Selections : TakeSlice(view, t)}}
    \cup {TakenElement(tree, view, pos) : pos \in IF view.of = "structs" THEN Box(view.shape) ELSE {}}
    \cup {TakenEach(tree, view, f) : f \in {g \in FieldNames : TakeEach(tree, view, g)}}

-----------------------------------------------------------------------------
(* PortStruct::check and PortStructArray::check. A place of a view is the number of a struct, and a *)
(* path below it.                                                                                   *)
Place(view, x) == view.elems[x[1]] \o x[2]
Places(tree, view) == UNION {{<<k, path>> : path \in Under(tree, view.elems[k])} : k \in DOMAIN view.elems}
PortAt(x) == ports[Place(portView, x)]
OtherAt(x) == other[Place(otherView, x)]

(* A signal has the type of its port; a port of a parent is of the same type. *)
SameType(port, with) ==
    /\ port.of = with.of
    /\ port.type = with.type
    /\ with.dir \in {"signal", port.dir}

(* The recursion goes on below a field that both have with the same type, and below an array only   *)
(* if its shape is the same.                                                                        *)
Enters(x) ==
    /\ x \in Places(ports, portView) \cap Places(other, otherView)
    /\ SameType(PortAt(x), OtherAt(x))
    /\ PortAt(x).of = "structs" => PortAt(x).shape = OtherAt(x).shape
Reached(x) == \A n \in 0..Len(x[2]) - 1 : Enters(<<x[1], SubSeq(x[2], 1, n)>>)

Missing == {x \in Places(ports, portView) \ Places(other, otherView) : Reached(x)}
Extra == {x \in Places(other, otherView) \ Places(ports, portView) : Reached(x)}
Differing == {x \in Places(ports, portView) \cap Places(other, otherView) : Reached(x) /\ ~Enters(x)}
(* Variant: looks at the fields of the ports only. *)
ErrorsOfPorts == Missing \cup Differing

Errors == Missing \cup Extra \cup Differing
Refused == ~IsLeaf(portView) /\ (portView.shape # otherView.shape \/ Errors # {})

(* bind_checked: struct by struct, field by field in the order of the ports, and element by element *)
(* of an array of structs.                                                                          *)
Earlier(p, q) ==
    LET n == CHOOSE d \in DOMAIN p \cap DOMAIN q : p[d] # q[d] /\ \A e \in 1..d - 1 : p[e] = q[e]
        node == ports[SubSeq(p, 1, n - 1)]
    IN IF IsArray(node) THEN FlatIndexOfView(node.shape, p[n].index) < FlatIndexOfView(node.shape, q[n].index)
       ELSE \E i, j \in DOMAIN node.fields : node.fields[i] = p[n].field /\ node.fields[j] = q[n].field /\ i < j
IsBoundBefore(x, y) ==
    x[1] < y[1] \/ (x[1] = y[1] /\ x # y /\ Earlier(Place(portView, x), Place(portView, y)))

(* An array of ports compares the shapes only now, and throws. *)
ShapeDiffers ==
    IF IsLeaf(portView) THEN portView.shape # otherView.shape
    ELSE \E x \in Places(ports, portView) : PortAt(x).of = "array" /\ PortAt(x).shape # OtherAt(x).shape
BoundFields ==
    {x \in Places(ports, portView) :
        /\ IsLeaf(PortAt(x))
        /\ \A y \in Places(ports, portView) :
              (PortAt(y).of = "array" /\ PortAt(y).shape # OtherAt(y).shape) => IsBoundBefore(x, y)}
BoundElements(x) ==
    LET pos == Positions(PortAt(x).shape)
    IN {<<Part(ports, Place(portView, x), pos[k]), Part(other, Place(otherView, x), pos[k])>> : k \in DOMAIN pos}
Bindings ==
    IF IsLeaf(portView)
    THEN IF ShapeDiffers THEN {} ELSE {<<portView.elems[k], otherView.elems[k]>> : k \in DOMAIN portView.elems}
    ELSE UNION {BoundElements(x) : x \in BoundFields}

(* bind_base(): a signal replaces the one before, a port is one more of bound_ports_. *)
OtherAreSignals == other[<<>>].dir = "signal"
Rebound(new) ==
    IF OtherAreSignals THEN {b \in bound : \A n \in new : n[1] # b[1]} \cup new ELSE bound \cup new

-----------------------------------------------------------------------------
NoView == [of |-> "none", moves |-> 0]

Init ==
    /\ phase = "build"
    /\ ports = EmptyStruct("port")
    /\ other \in {EmptyStruct("signal"), EmptyStruct("port")}
    /\ created = FALSE
    /\ portView = NoView
    /\ otherView = NoView
    /\ bound = {}
    /\ binds = 0

(* The constructor of a class derived from PortStruct, or a Python module, adds a port. *)
AddPort(f, sub) ==
    /\ phase = "build"
    /\ FieldCount(ports) < MaxFields
    /\ ~HasField(ports, f)
    /\ ports' = WithField(ports, f, sub)
    /\ UNCHANGED <<phase, other, created, portView, otherView, bound, binds>>

(* SignalStruct::add; for the ports of a parent, what AddPort is for these. *)
AddOther(f, sub) ==
    /\ phase = "build"
    /\ sub \in (IF OtherAreSignals THEN SignalFields[f] ELSE ParentFields[f])
    /\ FieldCount(other) < MaxFields
    /\ ~HasField(other, f)
    /\ other' = WithField(other, f, sub)
    /\ UNCHANGED <<phase, ports, created, portView, otherView, bound, binds>>

Start(with, made) ==
    /\ phase = "build"
    /\ phase' = "use"
    /\ other' = with
    /\ created' = made
    /\ portView' = RootView(ports)
    /\ otherView' = RootView(with)
    /\ UNCHANGED <<ports, bound, binds>>

Use == Start(other, FALSE)

CreateSignals == other = EmptyStruct("signal") /\ Start(Signals(ports), TRUE)

ViewPorts ==
    /\ phase = "use"
    /\ portView.moves < MaxMoves
    /\ portView' \in Views(ports, portView) \cup {RootView(ports)}
    /\ UNCHANGED <<phase, ports, other, created, otherView, bound, binds>>

ViewOther ==
    /\ phase # "build"
    /\ otherView.moves < MaxMoves
    /\ otherView' \in Views(other, otherView) \cup {RootView(other)}
    /\ UNCHANGED <<phase, ports, other, created, portView, bound, binds>>

(* The overloads of bind() take what is of the same kind; the types of arrays of ports and signals  *)
(* are those of the language.                                                                       *)
Compatible ==
    /\ portView.of = otherView.of
    /\ IsLeaf(portView) => SameType(portView, otherView)

Bind ==
    /\ phase = "use"
    /\ binds < MaxBinds
    /\ Compatible
    /\ bound' = IF Refused THEN bound ELSE Rebound(Bindings)
    /\ binds' = binds + 1
    /\ UNCHANGED <<phase, ports, other, created, portView, otherView>>

Next ==
    \/ \E f \in FieldNames : \E sub \in PortFields[f] : AddPort(f, sub)
    \/ \E f \in FieldNames : \E sub \in SignalFields[f] \cup ParentFields[f] : AddOther(f, sub)
    \/ Use
    \/ CreateSignals
    \/ ViewPorts
    \/ ViewOther
    \/ Bind

Spec == Init /\ [][Next]_vars

-----------------------------------------------------------------------------
(* What binding promises. The elements of a view, as the user means them, have names: the position  *)
(* in the view, the path below it, and the position in the array that the field may be.             *)
Meant(view, x) == view.expects[x[1]] \o x[2]
Leaves(tree, view) ==
    UNION {{<<i, path>> : path \in {p \in Under(tree, view.expects[i]) : IsLeaf(tree[view.expects[i] \o p])}} :
              i \in DOMAIN view.expects}
Names(tree, view) ==
    IF IsLeaf(view) THEN {<<i, <<>>, <<>>>> : i \in DOMAIN view.expects}
    ELSE UNION {{<<x[1], x[2], j>> : j \in Box(tree[Meant(view, x)].shape)} : x \in Leaves(tree, view)}
Named(tree, view, n) == IF IsLeaf(view) THEN view.expects[n[1]] ELSE Part(tree, Meant(view, n), n[3])
NodeNamed(tree, view, n) == IF IsLeaf(view) THEN view ELSE tree[Meant(view, n)]

Succeeds == ~Refused /\ ~ShapeDiffers

(* Whatever views of views are bound, bind() connects each port with the element that has the same  *)
(* name in the view on the other side, all of them, and nothing else.                               *)
BindsByName ==
    LET Pair(n) == <<Named(ports, portView, n), Named(other, otherView, n)>>
    IN /\ \A b \in bound' \ bound : \E n \in Names(ports, portView) : b = Pair(n)
       /\ (binds' # binds /\ Succeeds) => \A n \in Names(ports, portView) : Pair(n) \in bound'
BoundByName == [][BindsByName]_vars

(* bind() succeeds if and only if both sides have the same elements under the same names, with the  *)
(* same types: nothing is left unbound, and no signal without a port. (Structs without fields and   *)
(* arrays without elements have no elements to tell them apart.)                                    *)
Elements(tree, view) ==
    {<<n, NodeNamed(tree, view, n).of, NodeNamed(tree, view, n).type>> : n \in Names(tree, view)}
Directed ==
    \A n \in Names(ports, portView) \cap Names(other, otherView) :
        NodeNamed(other, otherView, n).dir \in {"signal", NodeNamed(ports, portView, n).dir}
HasNoEmpty(tree, view) ==
    /\ DOMAIN view.expects # {}
    /\ ~IsLeaf(view) => \A i \in DOMAIN view.expects : \A path \in Under(tree, view.expects[i]) :
                           \E n \in Names(tree, view) : n[1] = i /\ IsPrefix(path, n[2])
BindsTheAlike ==
    (phase = "use" /\ Compatible /\ HasNoEmpty(ports, portView) /\ HasNoEmpty(other, otherView)) =>
        (Succeeds <=> Elements(ports, portView) = Elements(other, otherView) /\ Directed)

(* Whatever views of the ports and of the signals that signals() creates mean the same elements,    *)
(* they bind, also where the structs of an array differ from each other.                            *)
CreatedSignalsBind ==
    (/\ phase = "use" /\ created
     /\ portView.of = otherView.of
     /\ portView.expects = otherView.expects /\ DOMAIN portView.expects # {}) => Compatible /\ Succeeds

(* struct.h: bind() throws "without binding anything". *)
BindIsAtomic == [][(binds' # binds /\ ~Succeeds) => bound' = bound]_vars
=============================================================================
