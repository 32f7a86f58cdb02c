----------------------------- MODULE OneSubmission -----------------------------
(***************************************************************************)
(* What the signing process promises its callers, with no processes,       *)
(* sockets, tokens or lost answers: the gateway has the document of a call *)
(* at most once; one is offered to it only while it has none, none is on   *)
(* its way and the caller has no answer; and what an answer says is so.    *)
(***************************************************************************)
CONSTANT Calls

VARIABLES
  work,     \* what is done for each call, "none" before
  offered,  \* calls whose document is on its way to the gateway
  held,     \* calls whose document the gateway has and did not decline
  answer    \* what each caller got, "none" before

svars == <<work, offered, held, answer>>

Answers == {"signed", "accepted", "refused", "busy", "error", "cancelled"}

Init ==
  /\ work = [c \in Calls |-> "none"]
  /\ offered = {}
  /\ held = {}
  /\ answer = [c \in Calls |-> "none"]

\* Nobody has been told how the call ended.
Open(c) == answer[c] \in {"none", "cancelled"}

Sign(c) ==
  /\ Open(c) /\ work[c] = "none"
  /\ work' = [work EXCEPT ![c] = "sign"]
  /\ UNCHANGED <<offered, held, answer>>

\* A submission that is found fit is offered at once.
Submit(c) ==
  /\ Open(c) /\ work[c] = "none"
  /\ work' = [work EXCEPT ![c] = "mtls_submit"]
  /\ offered' \in {offered, offered \cup {c}}
  /\ UNCHANGED <<held, answer>>

OfferAgain(c) ==
  /\ Open(c) /\ work[c] = "mtls_submit"
  /\ c \notin offered \cup held
  /\ offered' = offered \cup {c}
  /\ UNCHANGED <<work, held, answer>>

\* The gateway takes what is on its way, whoever still waits for it, ...
Take(c) ==
  /\ c \in offered \ held
  /\ offered' = offered \ {c}
  /\ held' = held \cup {c}
  /\ UNCHANGED <<work, answer>>

\* ... and turns it away, or what it has taken, while the call is open.
TurnAway(c) ==
  /\ Open(c) /\ c \in offered \cup held
  /\ offered' = offered \ {c}
  /\ held' = held \ {c}
  /\ UNCHANGED <<work, answer>>

\* "accepted" means that the gateway has the document, "busy" that it neither has nor
\* will get it; an error means nothing.
Answer(c, a) ==
  /\ answer[c] = "none"
  /\ a = "signed" => work[c] = "sign"
  /\ a \in {"accepted", "refused", "busy"} => work[c] = "mtls_submit"
  /\ a = "accepted" => c \in held
  /\ a = "busy" => c \notin offered \cup held
  /\ answer' = [answer EXCEPT ![c] = a]
  /\ UNCHANGED <<work, offered, held>>

Next ==
  \E c \in Calls :
    \/ Sign(c) \/ Submit(c) \/ OfferAgain(c) \/ Take(c) \/ TurnAway(c)
    \/ \E a \in Answers : Answer(c, a)

Spec == Init /\ [][Next]_svars
=============================================================================
