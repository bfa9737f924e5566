------------------------------- MODULE Arrays -------------------------------
(* The index arithmetic of ndarray.h and ndarray.cpp: arrays of any number of dimensions whose      *)
(* elements are stored in row-major order, and the selections that make views of them.              *)
(* A shape and a position are sequences of naturals, one for each dimension, and positions count    *)
(* from 0.                                                                                          *)
EXTENDS Integers, Sequences

(* The positions in an array of a shape. *)
Box(shape) ==
    {pos \in [DOMAIN shape -> UNION {0..shape[d] - 1 : d \in DOMAIN shape}] :
        \A d \in DOMAIN shape : pos[d] < shape[d]}

(* How many elements an array of a shape has. The loop multiplies the extents of the dimensions.    *)
Products(shape) ==
    LET size[d \in 0..Len(shape)] == IF d = 0 THEN 1 ELSE size[d - 1] * shape[d] IN size
Size(shape) == Products(shape)[Len(shape)]

(* strides_: how far apart neighbours are, from the last dimension to the first. *)
Strides(shape) ==
    LET stride[n \in 0..Len(shape)] ==
            IF n = 0 THEN 1 ELSE stride[n - 1] * shape[Len(shape) - n + 1]
    IN [d \in DOMAIN shape |-> stride[Len(shape) - d]]

Zeros(n) == [d \in 1..n |-> 0]

(* One step of the loops that visit the elements: the last dimension that has not reached its end   *)
(* moves on, and those after it start again.                                                        *)
NextPosition(extents, pos) ==
    LET More == {d \in DOMAIN pos : pos[d] + 1 < extents[d]}
        Moving == CHOOSE d \in More : \A e \in More : e <= d
    IN IF More = {} THEN Zeros(Len(pos))
       ELSE [d \in DOMAIN pos |-> IF d < Moving THEN pos[d]
                                  ELSE IF d = Moving THEN pos[d] + 1 ELSE 0]

(* The positions in the order that the loops visit them. *)
Positions(extents) ==
    LET at[n \in 1..Size(extents)] ==
            IF n = 1 THEN Zeros(Len(extents)) ELSE NextPosition(extents, at[n - 1])
    IN at

(* NdView::flat_index, dimension by dimension. *)
Flattening(shape, pos) ==
    LET flat[d \in 0..Len(shape)] == IF d = 0 THEN 0 ELSE flat[d - 1] * shape[d] + pos[d] IN flat
FlatIndexOfView(shape, pos) == Flattening(shape, pos)[Len(shape)]

-----------------------------------------------------------------------------
(* A Slice has an optional start and stop (<<>> when it is not set), and one that selects a single  *)
(* index drops its dimension. A Range is what it selects of one dimension.                          *)
Slice(start, stop) == [start |-> start, stop |-> stop, drop |-> FALSE]
At(i) == [start |-> <<i>>, stop |-> <<>>, drop |-> TRUE]
All == Slice(<<>>, <<>>)

(* A negative bound counts from the end. *)
FromEnd(i, extent) == IF i < 0 THEN i + extent ELSE i
Clamp(i, extent) ==
    LET n == FromEnd(i, extent) IN IF n < 0 THEN 0 ELSE IF n > extent THEN extent ELSE n

(* A slice is clamped, and only a single index can be out of range. *)
CanResolve(slice, extent) == slice.drop => FromEnd(slice.start[1], extent) \in 0..extent - 1
Resolve(slice, extent) ==
    LET begin == IF slice.start = <<>> THEN 0 ELSE Clamp(slice.start[1], extent)
        end == IF slice.stop = <<>> THEN extent ELSE Clamp(slice.stop[1], extent)
    IN IF slice.drop
       THEN [start |-> FromEnd(slice.start[1], extent), count |-> 1, drop |-> TRUE]
       ELSE [start |-> begin, count |-> IF end > begin THEN end - begin ELSE 0, drop |-> FALSE]

CanResolveAll(shape, slices) ==
    /\ Len(slices) <= Len(shape)
    /\ \A d \in DOMAIN slices : CanResolve(slices[d], shape[d])

(* One range for each dimension: what is not sliced is kept whole. *)
Ranges(shape, slices) ==
    [d \in DOMAIN shape |-> IF d <= Len(slices) THEN Resolve(slices[d], shape[d])
                            ELSE [start |-> 0, count |-> shape[d], drop |-> FALSE]]
Counts(ranges) == [d \in DOMAIN ranges |-> ranges[d].count]

(* The shape of a selection has the dimensions that are not dropped: how many there are up to each  *)
(* dimension, and their extents.                                                                    *)
Kept(ranges) ==
    LET kept[d \in 0..Len(ranges)] ==
            IF d = 0 THEN 0 ELSE kept[d - 1] + (IF ranges[d].drop THEN 0 ELSE 1)
    IN kept
KeptAt(ranges, n) == CHOOSE d \in DOMAIN ranges : ~ranges[d].drop /\ Kept(ranges)[d] = n
SelectedShape(ranges) == [n \in 1..Kept(ranges)[Len(ranges)] |-> ranges[KeptAt(ranges, n)].count]

(* The flat index of a position in the ranges, dimension by dimension. *)
Offsets(shape, ranges, pos) ==
    LET flat[d \in 0..Len(ranges)] ==
            IF d = 0 THEN 0 ELSE flat[d - 1] + (ranges[d].start + pos[d]) * Strides(shape)[d]
    IN flat

(* Variant: forgets where the ranges start. *)
SelectedFlatFromStart(shape, ranges) ==
    LET pos == Positions(Counts(ranges))
        FromStart == [d \in DOMAIN ranges |-> [ranges[d] EXCEPT !.start = 0]]
    IN [n \in DOMAIN pos |-> Offsets(shape, FromStart, pos[n])[Len(ranges)]]

(* select_flat: the flat indices, of an array of that shape, of the elements that are selected. *)
SelectedFlat(shape, ranges) ==
    LET pos == Positions(Counts(ranges))
    IN [n \in DOMAIN pos |-> Offsets(shape, ranges, pos[n])[Len(ranges)]]
=============================================================================
