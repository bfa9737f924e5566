---------------------------- MODULE AtomicUpdate ----------------------------
(***************************************************************************)
(* What the update phase promises to the processes of a design.  All that  *)
(* was written becomes visible in one step: the signals, the signals that  *)
(* are derived from them and the channels.  The events of that step are    *)
(* those of the values before and after it.                                *)
(***************************************************************************)
EXTENDS BitViews

CONSTANTS
  Channel,  \* user-defined channels
  Item      \* what can be put into a channel

VARIABLES
  next,     \* what was written to each source
  now,      \* the value that each signal shows
  posted,   \* what was last put into each channel
  mail,     \* what each channel shows
  asked,    \* the channels that have asked for an update
  events    \* the events raised by update steps, until they are triggered

vars == <<next, now, posted, mail, asked, events>>

Init ==
  /\ next = [s \in Source |-> {}]
  /\ now = [s \in Signal |-> {}]
  /\ posted \in [Channel -> Item]
  /\ mail = posted
  /\ asked = {}
  /\ events = {}

Write(s, x) ==
  /\ next' = IF s \in Source THEN [next EXCEPT ![s] = x] ELSE Overlay(s, x, next)
  /\ UNCHANGED <<now, posted, mail, asked, events>>

\* A source is given a value that nobody is told about.
Initialize(s, x) ==
  /\ next' = [next EXCEPT ![s] = x]
  /\ now' = Views([a \in Source |-> IF a = s THEN x ELSE now[a]])
  /\ UNCHANGED <<posted, mail, asked, events>>

Put(c, v) ==
  /\ posted' = [posted EXCEPT ![c] = v]
  /\ asked' = asked \cup {c}
  /\ UNCHANGED <<next, now, mail, events>>

Update ==
  /\ now' = Views(next)
  /\ mail' = posted
  /\ events' = events \cup {<<c, "written">> : c \in asked}
                      \cup UNION {Events(s, now[s], now'[s]) : s \in Signal}
  /\ asked' = {}
  /\ UNCHANGED <<next, posted>>

Trigger ==
  /\ events' = {}
  /\ UNCHANGED <<next, now, posted, mail, asked>>

Next ==
  \/ \E s \in Signal : \E x \in Value(s) : Write(s, x)
  \/ \E s \in Source : \E x \in Value(s) : Initialize(s, x)
  \/ \E c \in Channel, v \in Item : Put(c, v)
  \/ Update
  \/ Trigger

Spec == Init /\ [][Next]_vars
=============================================================================
