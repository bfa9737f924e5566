CONSTANTS
  leaf = leaf  mid = mid  top = top
  sigA = sigA  sigB = sigB  proc = proc  posedge = posedge
  None = None
  Port = {leaf, mid, top}
  Signal = {sigA, sigB}
  Process = {proc}
  Edge = {posedge}
  Level <- Depth
  MaxBinds = 4
  MaxAlways = 2
SPECIFICATION Spec
INVARIANT ConnectedAreBound
INVARIANT HearsWhatItAskedFor
INVARIANT SubscribedOnce
