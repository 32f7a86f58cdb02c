---------------------------- MODULE OneTimeApproval ----------------------------
(***************************************************************************)
(* What the confirmation gate promises, with no clock, store or protocol:  *)
(* an approval is granted once, lives for a while, dies for good, and an   *)
(* actor starts acting only under an approval that is alive (unless the    *)
(* gate is bypassed).  An approval does not have to die when the first     *)
(* actor starts: two actors may act under the same one, and it is dead     *)
(* once either of them is through.                                         *)
(***************************************************************************)
CONSTANTS
  Actors,      \* who may act
  Approvals,   \* what may be granted
  NoApproval,  \* acting under none; not one of Approvals
  Nobody       \* not acting; not one of Approvals, nor NoApproval

VARIABLES bypass, life, acting

avars == <<bypass, life, acting>>

Init ==
  /\ bypass \in BOOLEAN
  /\ life = [a \in Approvals |-> "unknown"]
  /\ acting = [x \in Actors |-> Nobody]

\* The approvals of S that are alive die.
Killed(S) == [a \in Approvals |-> IF a \in S /\ life[a] = "alive" THEN "dead" ELSE life[a]]

Grant(a) ==
  /\ life[a] = "unknown"
  /\ life' = [life EXCEPT ![a] = "alive"]
  /\ UNCHANGED <<bypass, acting>>

Lapse ==
  /\ \E S \in SUBSET Approvals : life' = Killed(S)
  /\ UNCHANGED <<bypass, acting>>

Start(x, a) ==
  /\ acting[x] = Nobody
  /\ bypass \/ (a \in Approvals /\ life[a] = "alive")
  /\ acting' = [acting EXCEPT ![x] = a]
  /\ UNCHANGED <<bypass, life>>

\* The action succeeds: its approval is used up.
Finish(x) ==
  /\ acting[x] # Nobody
  /\ acting' = [acting EXCEPT ![x] = Nobody]
  /\ life' = IF bypass THEN life ELSE Killed({acting[x]})
  /\ UNCHANGED bypass

\* The action fails: its approval may be tried again.
GiveUp(x) ==
  /\ acting[x] # Nobody
  /\ acting' = [acting EXCEPT ![x] = Nobody]
  /\ UNCHANGED <<bypass, life>>

Reset ==
  /\ life' = Killed(Approvals)
  /\ acting' = [x \in Actors |-> Nobody]
  /\ UNCHANGED bypass

Next ==
  \/ \E a \in Approvals : Grant(a)
  \/ Lapse
  \/ \E x \in Actors : \E a \in Approvals \cup {NoApproval} : Start(x, a)
  \/ \E x \in Actors : Finish(x) \/ GiveUp(x)
  \/ Reset

Spec == Init /\ [][Next]_avars
=============================================================================
