------------------------------- MODULE ChainedLog -------------------------------
(***************************************************************************)
(* What an audit trail promises: events are appended, one at a time, each  *)
(* with the whole history it was recorded after; nothing else happens.     *)
(***************************************************************************)
EXTENDS Naturals, Sequences

CONSTANT Contents

VARIABLE log

Init == log = <<>>

History == [k \in 1..Len(log) |-> log[k].content]

Record(content) == log' = Append(log, [content |-> content, after |-> History])

Next == \E c \in Contents : Record(c)

Spec == Init /\ [][Next]_log
=============================================================================
