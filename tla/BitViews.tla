------------------------------ MODULE BitViews ------------------------------
(***************************************************************************)
(* Signals and the selections of their bits.  The value of a signal is the *)
(* set of its bits that are 1.  A derived signal is a view of a selection: *)
(* a sequence of bits of source signals, the least significant first.      *)
(***************************************************************************)
EXTENDS Naturals, Sequences

CONSTANTS
  Source,   \* the signals that have a value of their own
  Derived,  \* the derived signals
  Width,    \* the width of the sources, in bits
  Select    \* the selection of each derived signal: <<source, bit>> for each of its bits

Signal == Source \cup Derived
Bit    == 0..(Width - 1)

ASSUME SelectAssumption ==
  /\ Width \in Nat
  /\ Source \cap Derived = {}
  /\ Select \in [Derived -> Seq(Source \X Bit)]

\* The values that a signal can have.
Value(s) == IF s \in Source THEN SUBSET Bit ELSE SUBSET (DOMAIN Select[s])

\* BitSel::read(): the value of a derived signal, given the values of the sources.
View(s, values) == {i \in DOMAIN Select[s] : Select[s][i][2] \in values[Select[s][i][1]]}

\* The values of all signals, given those of the sources.
Views(values) == [s \in Signal |-> IF s \in Source THEN values[s] ELSE View(s, values)]

\* The sources that a derived signal selects bits of.
Parts(s) == {Select[s][i][1] : i \in DOMAIN Select[s]}

\* The derived signals that depend on a source.
Dependents(a) == {s \in Derived : a \in Parts(s)}

\* BitSel::write() of value x to the selection of s: each bit selected takes the value
\* written, the last one if the selection has it twice, and the others stay.
Overlay(s, x, values) ==
  [a \in Source |-> {b \in Bit :
     LET at == {i \in DOMAIN Select[s] : Select[s][i] = <<a, b>>}
     IN  IF at = {} THEN b \in values[a]
         ELSE \E i \in at \cap x : \A j \in at : j <= i}]

\* The events of a signal that changes from one value to another. An edge is a change
\* between zero and not zero.
Events(s, old, new) ==
  {s} \X {e \in {"change", "pos", "neg"} :
           \/ e = "change" /\ old # new
           \/ e = "pos" /\ old = {} /\ new # {}
           \/ e = "neg" /\ old # {} /\ new = {}}
=============================================================================
