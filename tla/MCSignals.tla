------------------------------ MODULE MCSignals ------------------------------
(***************************************************************************)
(* Two sources of two bits, a view that packs a bit of one with the other, *)
(* a view of a part of that view, and a channel.                           *)
(***************************************************************************)
EXTENDS Signals, BitSelections

CONSTANTS a, b, pack, part, box, x, y

Packed == Pack(<<<<Whole(b, Width, Throws)>>, <<SelectBits(a, Width, Throws, 1, 1)>>>>)

PartOfPacked == SelectBits(pack, SelWidth(Packed), Packed, 1, 0)

Selections == pack :> BitsOf(Packed) @@ part :> BitsOf(PartOfPacked)
-----------------------------------------------------------------------------
(***************************************************************************)
(* The algebra of selections, for all selections of up to two parts of     *)
(* signals of three bits.                                                  *)
(***************************************************************************)
SomeParts == {PartOf(s, hi, lo) : s \in Source, hi \in 0..2, lo \in 0..2}
SomeSelections ==
  {FoldLeft(AppendPart, <<>>, parts) :
     parts \in UNION {[1..n -> {p \in SomeParts : p.lo <= p.hi}] : n \in 1..2}}

\* Parts that could be one part are one part.
Merged(sel) ==
  \A i \in 1..(Len(sel) - 1) : ~(sel[i].signal = sel[i + 1].signal /\ sel[i].hi + 1 = sel[i + 1].lo)

\* slice() selects the bits [hi:lo] of what the selection reads, and is flat and merged.
ASSUME SlicesSelect ==
  \A sel \in SomeSelections : \A hi, lo \in -1..6 :
    LET slice == Slice(sel, hi, lo)
    IN  IF InRange(hi, lo, SelWidth(sel))
        THEN BitsOf(slice) = SubSeq(BitsOf(sel), lo + 1, hi + 1) /\ Merged(slice)
        ELSE slice = Throws

\* pack() joins what its arguments read, the first on top, and throws exactly if that is
\* too wide.
ASSUME PacksJoin ==
  \A s, t \in SomeSelections :
    LET both == Pack(<<<<s>>, <<t>>>>)
    IN  IF SelWidth(s) + SelWidth(t) > MaxWidth THEN both = Throws
        ELSE BitsOf(both) = BitsOf(t) \o BitsOf(s) /\ Merged(both)

\* An end of a Python slice that is left out selects up to that end.
ASSUME KeysSelect ==
  \A sel \in SomeSelections : \A bit \in 0..(SelWidth(sel) - 1) :
    LET width == SelWidth(sel)
        upper == BitKey(<<>>, <<bit>>, width)
        lower == BitKey(<<bit>>, <<>>, width)
    IN  /\ BitsOf(Slice(sel, upper.hi, upper.lo)) = SubSeq(BitsOf(sel), bit + 1, width)
        /\ BitsOf(Slice(sel, lower.hi, lower.lo)) = SubSeq(BitsOf(sel), 1, bit + 1)
=============================================================================
