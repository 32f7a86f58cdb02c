------------------------ MODULE SignerChannelRefinement ------------------------
(***************************************************************************)
(* The refinement mapping from the signing process and its clients to the  *)
(* promise of OneSubmission: a post that the gateway did not take yet is   *)
(* on its way, also when its handler gave it up or died.                   *)
(***************************************************************************)
EXTENDS SignerChannel

WorkOf == [c \in Calls |-> IF c \in dispatched THEN request[c].method ELSE "none"]
Offered == {c \in Calls : wire[c] = "sent"}
Held == {c \in Calls : taken[c] > excused[c]}

\* The exceptions say nothing of what happened.
AnswerOf ==
  [c \in Calls |->
     IF outcome[c] \in {"SignerError", "ValueError", "OSError"} THEN "error" ELSE outcome[c]]

Promise == INSTANCE OneSubmission
  WITH work <- WorkOf, offered <- Offered, held <- Held, answer <- AnswerOf

\* The signing process (signer_service.py) keeps its promise: whatever is retried, lost,
\* cancelled or killed, a document is offered to the gateway again only when the last offer was
\* turned away, and an answer is true when it is given: a caller told "busy" may submit again.
KeepsSubmission == Promise!Spec
=============================================================================
