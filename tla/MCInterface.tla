----------------------------- MODULE MCInterface -----------------------------
(* Ports of a scalar, an array, a nested struct, and two arrays of structs: one whose structs are   *)
(* those of a verilated module, with a field that is wider than a value, and one with structs that  *)
(* differ. The types have 5 and 2 bits.                                                             *)
EXTENDS Interface

Kind(dir) == IF dir = "signal" THEN "signal" ELSE "port"
Leaf(of, bits, dir, shape) == [path \in {<<>>} |-> Node(of, bits, dir, shape)]
Scalar(bits, dir) == Leaf("scalar", bits, dir, <<>>)
ArrayOf(bits, dir, shape) == Leaf("array", bits, dir, shape)
Struct(dir, f, sub) == WithField(EmptyStruct(Kind(dir)), f, sub)
Bus(dir) == WithField(Struct(dir, "a", Scalar(5, dir)), "b", ArrayOf(2, dir, <<3>>))
Buses(dir) == StructArray(Kind(dir), <<2>>, <<Bus(dir), Bus(dir)>>)

Buses2D(dir) == StructArray(Kind(dir), <<2, 2>>, [k \in 1..4 |-> Struct(dir, "a", Scalar(5, dir))])
Uneven(dir, n) ==
    StructArray(Kind(dir), <<2>>,
                [k \in 1..2 |-> WithField(Struct(dir, "a", Scalar(5, dir)), "b", ArrayOf(2, dir, <<n + k>>))])

MCPortFields == [a |-> {Scalar(5, "in"), Struct("in", "a", ArrayOf(5, "in", <<2>>))},
                 b |-> {Buses("in"), Buses2D("in"), Uneven("in", 2)}]
MCSignalFields == [a |-> {Scalar(5, "signal"), Scalar(2, "signal")},
                   b |-> {Buses("signal"), Uneven("signal", 1)}]
MCParentFields == [a |-> {Scalar(5, "in"), Scalar(5, "out")}, b |-> {Buses2D("in")}]
MCSelections == {<<Slice(<<1>>, <<>>)>>, <<Slice(<<>>, <<-1>>)>>, <<At(-1)>>, <<All, At(1)>>}

MCVerilated == Buses("in")
MCLsb == [a |-> 5, b |-> 0]
MCBits == [a |-> 4, b |-> 5]
MCTypeBits == [a |-> 5, b |-> 2]

BitsOf(n) == {i \in 0..Width : (n \div 2^i) % 2 = 1}
Numbers(s) == [i \in DOMAIN s |-> BitsOf(s[i])]
MCEvaluated == {BitsOf(341), BitsOf(270)}
MCPatterns == {Numbers(<<31, 6, 3, 1, 2, 3>>), Numbers(<<9, 27, 0, 2, 1, 3>>)}

(* Module::add_port: struct by struct, each field after the other. *)
MCPortOrder ==
    LET OfField(e, f, dir) == [i \in 1..Cardinality(Pieces(f)) |-> Port(e, f, i - 1, dir)]
        OfStruct(e, dir) == OfField(e, "a", dir) \o OfField(e, "b", dir)
    IN [dir \in {"in", "out"} |-> FlattenSeq([e \in 1..Count |-> OfStruct(e - 1, dir)])]
=============================================================================
