----------------------------- MODULE PackedPorts -----------------------------
(* The ports of a verilated module that is bound to an array of packed structs (vport.h), and       *)
(* VModule::eval(), which copies the inputs to the verilated model, evaluates it, and copies its    *)
(* outputs back. Each struct is a vector of bits in words, least significant first, and a field is  *)
(* a part of them that may start and end inside a word. A field that is too wide for a value is an  *)
(* array of words itself.                                                                           *)
(*                                                                                                  *)
(* A word, and a value, is the set of the places of its bits that are 1.                            *)
EXTENDS Integers, Sequences

CONSTANTS
    WordBits,           \* the bits of a word of the verilated model: 32, or the bits of its one integer
    LongBits,           \* a field of more bits is an array of words: 64
    Width,              \* the bits of a struct
    Count,              \* how many structs the port has: 1, or the size of the array
    Fields,             \* the fields of the struct
    Lsb, Bits,          \* of each field: its place in the struct, and its width
    TypeBits,           \* the bits of the type T of its ports, of those of a word for a wide field
    Signed,             \* the fields whose T is signed
    Evaluated,          \* structs that the verilated model computes
    PortOrder           \* inputs() and outputs(): the ports in the order of their construction

-----------------------------------------------------------------------------
(* Ports. *)

WordsOf(width) == (width + WordBits - 1) \div WordBits
IsWide(f) == Bits[f] > LongBits
TopBits(f) == Bits[f] - (WordsOf(Bits[f]) - 1) * WordBits

(* The ports of a field: one, or one for each word of it. *)
Pieces(f) == IF IsWide(f) THEN 0..WordsOf(Bits[f]) - 1 ELSE {0}
Structs == 0..Count - 1
Ports(dir) == UNION {[struct : Structs, field : {f}, piece : Pieces(f), dir : {dir}] : f \in Fields}

ASSUME PackedAssumption ==
    /\ WordBits \in Nat \ {0} /\ LongBits \in Nat \ {0} /\ Width \in Nat \ {0} /\ Count \in Nat \ {0}
    /\ Lsb \in [Fields -> Nat] /\ Bits \in [Fields -> Nat \ {0}] /\ TypeBits \in [Fields -> Nat \ {0}]
    /\ \A f \in Fields : Lsb[f] + Bits[f] <= Width
    /\ \A f, g \in Fields : f # g => Lsb[f] + Bits[f] <= Lsb[g] \/ Lsb[g] + Bits[g] <= Lsb[f]
    /\ \A f \in Signed : ~IsWide(f)
    /\ Evaluated \subseteq SUBSET (0..Width - 1)
    /\ \A dir \in {"in", "out"} : /\ PortOrder[dir] \in Seq(Ports(dir))
                                  /\ \A p \in Ports(dir) : \E n \in DOMAIN PortOrder[dir] : PortOrder[dir][n] = p

VARIABLES
    input,              \* the words of the input port of the verilated model
    output,             \* the words of its output port
    signal,             \* of each input, what it is bound to
    value,              \* the value of each signal that it may be bound to
    shown,              \* the value of the signal of each output
    evaluating,         \* where eval() is: "no", "in", "out", in one of its loops
    next,               \* the number of the port that the loop is at
    seen                \* the input words that the verilated model was last evaluated with

packedVars == <<input, output, signal, value, shown, evaluating, next, seen>>

PortBits(p) ==
    IF ~IsWide(p.field) THEN Bits[p.field]
    ELSE IF p.piece = WordsOf(Bits[p.field]) - 1 THEN TopBits(p.field) ELSE WordBits

(* vl_bits_of and vl_word_pointers: the first word of the struct, and the bit where the port starts. *)
FirstWord(p) == p.struct * WordsOf(Width)
PortLsb(p) == Lsb[p.field] + p.piece * WordBits

-----------------------------------------------------------------------------
(* Bits. *)

ShiftedUp(bits, n) == {i + n : i \in bits}
ShiftedDown(bits, n) == {i - n : i \in {j \in bits : j >= n}}

(* vl_truncate. *)
Truncated(bits, width) == bits \cap (0..width - 1)

(* vl_extend: to the bits of T, from the sign bit of the field. *)
Extended(bits, width, f) ==
    IF f \in Signed /\ width - 1 \in bits THEN bits \cup (width..TypeBits[f] - 1) ELSE bits

(* The words that a field of that width has bits in, counted from the one where it starts.          *)
(* vl_get_bits and vl_set_bits go through them, with the bits that are done before each.            *)
LastTouched(lsb, width) == ((lsb % WordBits) + width - 1) \div WordBits
Shift(lsb, k) == IF k = 0 THEN lsb % WordBits ELSE 0
(* Variant: as if each field started with a word. *)
DoneWords(lsb, k) == k * WordBits

Done(lsb, k) == IF k = 0 THEN 0 ELSE k * WordBits - (lsb % WordBits)

GetBits(words, first, lsb, width) ==
    Truncated(UNION {ShiftedUp(ShiftedDown(words[first + (lsb \div WordBits) + k], Shift(lsb, k)), Done(lsb, k)) :
                        k \in 0..LastTouched(lsb, width)},
              width)

(* How many bits of the word are of the field. *)
Taken(lsb, width, k) ==
    LET room == WordBits - Shift(lsb, k)
        left == width - Done(lsb, k)
    IN IF room < left THEN room ELSE left

(* A word with count of its bits replaced, the others kept. *)
Replaced(word, shift, count, bits) ==
    (word \ (shift..shift + count - 1)) \cup ShiftedUp(Truncated(bits, count), shift)

SetBits(words, first, lsb, width, bits) ==
    [w \in DOMAIN words |->
        LET k == w - first - (lsb \div WordBits)
        IN IF k \in 0..LastTouched(lsb, width)
           THEN Replaced(words[w], Shift(lsb, k), Taken(lsb, width, k), ShiftedDown(bits, Done(lsb, k)))
           ELSE words[w]]

-----------------------------------------------------------------------------
WordIndices == 0..Count * WordsOf(Width) - 1

(* The words of structs that are given as bits. *)
WordsHolding(structs) ==
    [w \in WordIndices |->
        {i \in 0..WordBits - 1 : (w % WordsOf(Width)) * WordBits + i \in structs[w \div WordsOf(Width)]}]

(* The verilated model before its first evaluation. *)
Cleared == [w \in WordIndices |-> {}]

(* Variant: writes the bits of the type. *)
SyncInputTypeBits(words, p) ==
    SetBits(words, FirstWord(p), PortLsb(p), IF IsWide(p.field) THEN PortBits(p) ELSE TypeBits[p.field], value[signal[p]])

(* sync() of an input: VInputBits, of which VInput is the case of a port that is one field. *)
SyncInput(words, p) ==
    SetBits(words, FirstWord(p), PortLsb(p), PortBits(p), Truncated(value[signal[p]], PortBits(p)))

(* sync() of an output. *)
SyncOutput(values, p) ==
    [values EXCEPT ![p] =
        Extended(GetBits(output, FirstWord(p), PortLsb(p), PortBits(p)), PortBits(p), p.field)]

(* eval(): the loop over the inputs, the verilated model, which computes anything, and the loop over *)
(* the outputs.                                                                                      *)
Order == PortOrder[evaluating]

StartEval ==
    /\ evaluating = "no"
    /\ evaluating' = "in" /\ next' = 1
    /\ UNCHANGED <<input, output, signal, value, shown, seen>>

SyncNextInput ==
    /\ evaluating = "in" /\ next <= Len(Order)
    /\ input' = SyncInput(input, Order[next])
    /\ next' = next + 1
    /\ UNCHANGED <<output, signal, value, shown, evaluating, seen>>

EvalTop ==
    /\ evaluating = "in" /\ next > Len(Order)
    /\ \E structs \in [Structs -> Evaluated] : output' = WordsHolding(structs)
    /\ seen' = input
    /\ evaluating' = "out" /\ next' = 1
    /\ UNCHANGED <<input, signal, value, shown>>

SyncNextOutput ==
    /\ evaluating = "out" /\ next <= Len(Order)
    /\ shown' = SyncOutput(shown, Order[next])
    /\ next' = next + 1
    /\ UNCHANGED <<input, output, signal, value, evaluating, seen>>

EndEval ==
    /\ evaluating = "out" /\ next > Len(Order)
    /\ evaluating' = "no"
    /\ UNCHANGED <<input, output, signal, value, shown, next, seen>>

Eval == StartEval \/ SyncNextInput \/ EvalTop \/ SyncNextOutput \/ EndEval

-----------------------------------------------------------------------------
(* The bits of a struct in its words, and of a field in the struct. *)
Vector(words, e) ==
    UNION {ShiftedUp(words[e * WordsOf(Width) + w], w * WordBits) : w \in 0..WordsOf(Width) - 1}
FieldOf(words, e, f) == Truncated(ShiftedDown(Vector(words, e), Lsb[f]), Bits[f])

(* The value that the ports of a field have, all its words together. *)
Port(e, f, i, dir) == [struct |-> e, field |-> f, piece |-> i, dir |-> dir]
Joined(f, piece) ==
    IF IsWide(f) THEN UNION {ShiftedUp(Truncated(piece[i], WordBits), i * WordBits) : i \in Pieces(f)}
    ELSE piece[0]
Driven(e, f) == Joined(f, [i \in Pieces(f) |-> value[signal[Port(e, f, i, "in")]]])
Presented(e, f) == Joined(f, [i \in Pieces(f) |-> shown[Port(e, f, i, "out")]])
=============================================================================
