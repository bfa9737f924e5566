--------------------------- MODULE BitSelections ---------------------------
(***************************************************************************)
(* How selections of bits are made.  A selection is a sequence of parts,   *)
(* the least significant first; a part is a range [hi:lo] of the bits of a *)
(* signal.  What throws in the code is the empty selection here, which no  *)
(* call returns.                                                           *)
(***************************************************************************)
EXTENDS Integers, Sequences, SequencesExt

CONSTANT MaxWidth   \* max_width

ASSUME MaxWidthAssumption == MaxWidth \in Nat \ {0}

Throws == <<>>

PartOf(signal, hi, lo) == [signal |-> signal, hi |-> hi, lo |-> lo]
PartWidth(part) == part.hi - part.lo + 1
SelWidth(sel) == FoldLeft(LAMBDA n, part : n + PartWidth(part), 0, sel)

\* check_bit_range()
InRange(hi, lo, width) == 0 <= lo /\ lo <= hi /\ hi < width

\* append(): a part that continues the last one is merged with it.
AppendPart(sel, part) ==
  IF sel # <<>> /\ Last(sel).signal = part.signal /\ Last(sel).hi + 1 = part.lo
  THEN [sel EXCEPT ![Len(sel)].hi = part.hi]
  ELSE Append(sel, part)

\* concat(): the first selection is the most significant.
Concat(sels) ==
  LET all == FlattenSeq(Reverse(sels))
  IN  IF SelWidth(all) > MaxWidth THEN Throws ELSE FoldLeft(AppendPart, <<>>, all)

\* pack(): each argument stands for a sequence of selections, an array for its elements.
Pack(args) == Concat(FlattenSeq(args))

\* slice(): the bits [hi:lo] of a selection, part by part.
Slice(sel, hi, lo) ==
  LET offset(i) == SelWidth(SubSeq(sel, 1, i - 1))
      from(i)   == IF lo > offset(i) THEN lo - offset(i) ELSE 0
      to(i)     == IF hi < offset(i + 1) THEN hi - offset(i) ELSE PartWidth(sel[i]) - 1
      take(r, i) ==
        IF from(i) > to(i) THEN r
        ELSE AppendPart(r, PartOf(sel[i].signal, sel[i].lo + to(i), sel[i].lo + from(i)))
  IN  IF InRange(hi, lo, SelWidth(sel))
      THEN FoldLeft(take, <<>>, [i \in 1..Len(sel) |-> i])
      ELSE Throws

\* The constructor. Bits of a derived signal are bits of its own selection, source.
SelectBits(signal, width, source, hi, lo) ==
  IF ~InRange(hi, lo, width) THEN Throws
  ELSE IF source # Throws THEN Slice(source, hi, lo)
  ELSE <<PartOf(signal, hi, lo)>>

Whole(signal, width, source) == SelectBits(signal, width, source, width - 1, 0)

\* resolve_bit_key(): sig[hi:lo] in Python, where an end that is left out is <<>>.
BitKey(hi, lo, width) ==
  [hi |-> IF hi = <<>> THEN width - 1 ELSE hi[1], lo |-> IF lo = <<>> THEN 0 ELSE lo[1]]

\* The bits in the order that read() and write() visit them, as <<signal, bit>>.
BitsOf(sel) ==
  FlattenSeq([i \in DOMAIN sel |->
    [j \in 1..PartWidth(sel[i]) |-> <<sel[i].signal, sel[i].lo + j - 1>>]])
=============================================================================
