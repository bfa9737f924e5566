------------------------------- MODULE Stream -------------------------------
(***************************************************************************)
(* What a source and a sink of a stream promise together: every beat that  *)
(* is queued is transferred once, in order, and what was transferred is    *)
(* received once, in order.                                                *)
(***************************************************************************)
EXTENDS Naturals, Sequences

CONSTANT Data  \* the values of a beat

VARIABLES
  outstanding,  \* queued, and not accepted by the sink
  accepted      \* accepted by the sink, and not received

vars == <<outstanding, accepted>>

Init == outstanding = <<>> /\ accepted = <<>>

Queue(x) ==
  /\ outstanding' = Append(outstanding, x)
  /\ UNCHANGED accepted

Transfer ==
  /\ outstanding # <<>>
  /\ outstanding' = Tail(outstanding)
  /\ accepted' = Append(accepted, Head(outstanding))

Receive(n) ==
  /\ accepted' = SubSeq(accepted, n + 1, Len(accepted))
  /\ UNCHANGED outstanding

Next ==
  \/ \E x \in Data : Queue(x)
  \/ Transfer
  \/ \E n \in 1..Len(accepted) : Receive(n)

Spec == Init /\ [][Next]_vars
=============================================================================
