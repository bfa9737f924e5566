CONSTANTS
  a = a  b = b  pack = pack  part = part  box = box  x = x  y = y
  Source = {a, b}
  Derived = {pack, part}
  Width = 2
  Select <- Selections
  MaxWidth = 9
  Channel = {box}
  Item = {x, y}
  MaxWrites = 3
SPECIFICATION Spec
INVARIANT DerivedConsistent
PROPERTY ChannelSeesCommitted
PROPERTY IsAtomic
