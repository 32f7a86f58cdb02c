--------------------------- MODULE SignerChannelProofs ---------------------------
(***************************************************************************)
(* Theorems about SignerChannel: type correctness, true verdicts, no       *)
(* unexcused duplicate, no work for strangers, silence after an answer,    *)
(* and that it implements OneSubmission.                                   *)
(***************************************************************************)
EXTENDS SignerChannelRefinement, TLAPS

\* How far a call has come: what its handler, its answer and its outcome say of
\* each other.
Progress(c) ==
  /\ handler[c] = "none" <=> server[c] = None
  /\ handler[c] = "none" => outcome[c] \in {"none", "SignerError"}
  /\ line[c] # "none" => handler[c] = "ended"
  /\ outcome[c] \notin {"none", "cancelled"} => handler[c] \in {"none", "ended"}

\* Whose work it is.
Ownership(c) ==
  /\ c \in dispatched => server[c] # None /\ Authorized(c)
  /\ posts[c] > 0 => c \in dispatched
  /\ handler[c] \in {"posting", "sleeping"} =>
       c \in dispatched /\ request[c].method = "mtls_submit"
  /\ handler[c] \in {"none", "received"} => c \notin dispatched

\* The account of the posts taken: the current one, and the excused ones.
Account(c) ==
  /\ wire[c] = "sent" => taken[c] = excused[c]
  /\ wire[c] = "taken" => taken[c] = excused[c] + 1
  /\ wire[c] = "none" /\ handler[c] # "ended" => taken[c] = excused[c]
  /\ taken[c] <= excused[c] + 1
  /\ handler[c] \in {"none", "received", "sleeping"} => wire[c] = "none"
  /\ handler[c] \in {"none", "received"} => attempt[c] = 0 /\ excused[c] = 0
  /\ handler[c] = "posting" => excused[c] <= attempt[c]
  /\ handler[c] = "sleeping" => attempt[c] < MaxRetries
  /\ excused[c] <= attempt[c] + 1

\* What an answer on its way, or in the caller's hands, says is true.
Verdict(c) ==
  /\ line[c] = "accepted" => taken[c] > excused[c]
  /\ line[c] = "busy" => wire[c] = "none" /\ taken[c] = excused[c]
  /\ line[c] = "signed" => request[c].method = "sign" /\ c \in dispatched
  /\ line[c] \in Statuses => request[c].method = "mtls_submit" /\ c \in dispatched
  /\ outcome[c] = "accepted" => handler[c] = "ended" /\ taken[c] > excused[c]
  /\ outcome[c] = "signed" =>
       handler[c] = "ended" /\ request[c].method = "sign" /\ c \in dispatched
  /\ outcome[c] \in Statuses =>
       handler[c] = "ended" /\ request[c].method = "mtls_submit" /\ c \in dispatched
  /\ outcome[c] = "busy" => wire[c] = "none" /\ taken[c] = excused[c]

CallInv(c) == Progress(c) /\ Ownership(c) /\ Account(c) /\ Verdict(c)

\* The inductive invariant: the calls, one by one.
Inv == TypeOK /\ \A c \in Calls : CallInv(c)

USE ChannelAssumption

-----------------------------------------------------------------------------
(* The invariant is inductive *)

LEMMA InitInv == Init => Inv
<1> SUFFICES ASSUME Init PROVE Inv
  OBVIOUS
<1>1. TypeOK
  BY DEF Init, TypeOK, Requests, NoRequest, Lines, Statuses, Outcomes
<1>2. \A c \in Calls : Progress(c) /\ Ownership(c)
  BY DEF Init, Progress, Ownership
<1>3. \A c \in Calls : Account(c) /\ Verdict(c)
  BY DEF Init, Account, Verdict, Statuses
<1>4. QED
  BY <1>1, <1>2, <1>3 DEF Inv, CallInv

\* The request is sent, or no one listens.
LEMMA CallInvariant ==
  ASSUME Inv, NEW c \in Calls, NEW r \in Requests, Call(c, r)
  PROVE  Inv'
<1> USE DEF Call, Listening, Token
<1>1. TypeOK'
  BY DEF Inv, TypeOK, service_vars, gateway_vars, Outcomes
<1>2. ASSUME NEW d \in Calls PROVE CallInv(d)'
  <2>1. Progress(d)'
    BY DEF Inv, CallInv, Progress, TypeOK, service_vars, gateway_vars, Statuses
  <2>2. Ownership(d)'
    BY DEF Inv, CallInv, Progress, Ownership, Authorized, Token, TypeOK, service_vars,
           gateway_vars, Statuses
  <2>3. Account(d)'
    BY DEF Inv, CallInv, Progress, Account, TypeOK, service_vars, gateway_vars, Statuses
  <2>4. Verdict(d)'
    BY DEF Inv, CallInv, Progress, Ownership, Account, Verdict, TypeOK, service_vars,
           gateway_vars, Statuses
  <2>5. QED
    BY <2>1, <2>2, <2>3, <2>4 DEF CallInv
<1>3. QED
  BY <1>1, <1>2 DEF Inv

\* The caller goes away.
LEMMA CancelInv ==
  ASSUME Inv, NEW c \in Calls, Cancel(c)
  PROVE  Inv'
<1> USE DEF Cancel, Waiting
<1>1. TypeOK'
  BY DEF Inv, TypeOK, service_vars, gateway_vars, Lines, Statuses, Outcomes
<1>2. ASSUME NEW d \in Calls PROVE CallInv(d)'
  <2>1. Progress(d)'
    BY DEF Inv, CallInv, Progress, TypeOK, service_vars, gateway_vars, Statuses
  <2>2. Ownership(d)'
    BY DEF Inv, CallInv, Progress, Ownership, Authorized, Token, TypeOK, service_vars,
           gateway_vars, Statuses
  <2>3. Account(d)'
    BY DEF Inv, CallInv, Progress, Account, TypeOK, service_vars, gateway_vars, Statuses
  <2>4. Verdict(d)'
    BY DEF Inv, CallInv, Progress, Ownership, Account, Verdict, TypeOK, service_vars,
           gateway_vars, Statuses
  <2>5. QED
    BY <2>1, <2>2, <2>3, <2>4 DEF CallInv
<1>3. QED
  BY <1>1, <1>2 DEF Inv

\* The caller gets its answer.
LEMMA ReadInv ==
  ASSUME Inv, NEW c \in Calls, Read(c)
  PROVE  Inv'
<1> USE DEF Read, Waiting, Outcome
<1>1. TypeOK'
  BY DEF Inv, TypeOK, service_vars, gateway_vars, Lines, Statuses, Outcomes
<1>2. ASSUME NEW d \in Calls PROVE CallInv(d)'
  <2>1. Progress(d)'
    BY DEF Inv, CallInv, Progress, TypeOK, service_vars, gateway_vars, Statuses
  <2>2. Ownership(d)'
    BY DEF Inv, CallInv, Progress, Ownership, Authorized, Token, TypeOK, service_vars,
           gateway_vars, Statuses
  <2>3. Account(d)'
    BY DEF Inv, CallInv, Progress, Account, TypeOK, service_vars, gateway_vars, Statuses
  <2>4. Verdict(d)'
    BY DEF Inv, CallInv, Progress, Ownership, Account, Verdict, TypeOK, service_vars,
           gateway_vars, Statuses
  <2>5. QED
    BY <2>1, <2>2, <2>3, <2>4 DEF CallInv
<1>3. QED
  BY <1>1, <1>2 DEF Inv

\* The request is too long.
LEMMA OverrunInv ==
  ASSUME Inv, NEW c \in Calls, Overrun(c)
  PROVE  Inv'
<1> USE DEF Overrun, EndWith
<1>1. TypeOK'
  BY DEF Inv, TypeOK, service_vars, gateway_vars, Lines, Statuses, Outcomes
<1>2. ASSUME NEW d \in Calls PROVE CallInv(d)'
  <2>1. Progress(d)'
    BY DEF Inv, CallInv, Progress, TypeOK, service_vars, gateway_vars, Statuses
  <2>2. Ownership(d)'
    BY DEF Inv, CallInv, Progress, Ownership, Authorized, Token, TypeOK, service_vars,
           gateway_vars, Statuses
  <2>3. Account(d)'
    BY DEF Inv, CallInv, Progress, Account, TypeOK, service_vars, gateway_vars, Statuses
  <2>4. Verdict(d)'
    BY DEF Inv, CallInv, Progress, Ownership, Account, Verdict, TypeOK, service_vars,
           gateway_vars, Statuses
  <2>5. QED
    BY <2>1, <2>2, <2>3, <2>4 DEF CallInv
<1>3. QED
  BY <1>1, <1>2 DEF Inv

\* The token is not the one of the process.
LEMMA UnauthorizedInv ==
  ASSUME Inv, NEW c \in Calls, Unauthorized(c)
  PROVE  Inv'
<1> USE DEF Unauthorized, EndWith
<1>1. TypeOK'
  BY DEF Inv, TypeOK, service_vars, gateway_vars, Lines, Statuses, Outcomes
<1>2. ASSUME NEW d \in Calls PROVE CallInv(d)'
  <2>1. Progress(d)'
    BY DEF Inv, CallInv, Progress, TypeOK, service_vars, gateway_vars, Statuses
  <2>2. Ownership(d)'
    BY DEF Inv, CallInv, Progress, Ownership, Authorized, Token, TypeOK, service_vars,
           gateway_vars, Statuses
  <2>3. Account(d)'
    BY DEF Inv, CallInv, Progress, Account, TypeOK, service_vars, gateway_vars, Statuses
  <2>4. Verdict(d)'
    BY DEF Inv, CallInv, Progress, Ownership, Account, Verdict, TypeOK, service_vars,
           gateway_vars, Statuses
  <2>5. QED
    BY <2>1, <2>2, <2>3, <2>4 DEF CallInv
<1>3. QED
  BY <1>1, <1>2 DEF Inv

\* The process signs.
LEMMA SignInv ==
  ASSUME Inv, NEW c \in Calls, Sign(c)
  PROVE  Inv'
<1> USE DEF Sign, Dispatch, EndWith
<1>1. TypeOK'
  BY DEF Inv, TypeOK, service_vars, gateway_vars, Lines, Statuses, Outcomes
<1>2. ASSUME NEW d \in Calls PROVE CallInv(d)'
  <2>1. Progress(d)'
    BY DEF Inv, CallInv, Progress, TypeOK, service_vars, gateway_vars, Statuses
  <2>2. Ownership(d)'
    BY DEF Inv, CallInv, Progress, Ownership, Authorized, Token, TypeOK, service_vars,
           gateway_vars, Statuses
  <2>3. Account(d)'
    BY DEF Inv, CallInv, Progress, Account, TypeOK, service_vars, gateway_vars, Statuses
  <2>4. Verdict(d)'
    BY DEF Inv, CallInv, Progress, Ownership, Account, Verdict, TypeOK, service_vars,
           gateway_vars, Statuses
  <2>5. QED
    BY <2>1, <2>2, <2>3, <2>4 DEF CallInv
<1>3. QED
  BY <1>1, <1>2 DEF Inv

\* The process posts, or finds bad parameters.
LEMMA SubmitInv ==
  ASSUME Inv, NEW c \in Calls, Submit(c)
  PROVE  Inv'
<1> USE DEF Submit, Dispatch, EndWith, Post
<1>1. TypeOK'
  <2>1. posts' \in [Calls -> Nat] /\ wire' \in [Calls -> {"none", "sent", "taken"}]
    BY DEF Inv, TypeOK, gateway_vars
  <2>2. handler' \in [Calls -> {"none", "received", "posting", "sleeping", "ended"}]
    BY DEF Inv, TypeOK
  <2>3. line' \in [Calls -> Lines]
    BY DEF Inv, TypeOK, Lines
  <2>4. QED
    BY <2>1, <2>2, <2>3 DEF Inv, TypeOK, service_vars, gateway_vars
<1>2. ASSUME NEW d \in Calls PROVE CallInv(d)'
  <2>1. Progress(d)'
    BY DEF Inv, CallInv, Progress, TypeOK, service_vars, gateway_vars, Statuses
  <2>2. Ownership(d)'
    BY DEF Inv, CallInv, Progress, Ownership, Authorized, Token, TypeOK, service_vars,
           gateway_vars, Statuses
  <2>3. Account(d)'
    BY DEF Inv, CallInv, Progress, Account, TypeOK, service_vars, gateway_vars, Statuses
  <2>4. Verdict(d)'
    BY DEF Inv, CallInv, Progress, Ownership, Account, Verdict, TypeOK, service_vars,
           gateway_vars, Statuses
  <2>5. QED
    BY <2>1, <2>2, <2>3, <2>4 DEF CallInv
<1>3. QED
  BY <1>1, <1>2 DEF Inv

\* The gateway answers: the only step that excuses a post.
LEMMA AnsweredInv ==
  ASSUME Inv, NEW c \in Calls, Answered(c)
  PROVE  Inv'
<1> USE DEF Answered, EndWith, CanRetry
<1>1. TypeOK'
  BY DEF Inv, TypeOK, service_vars, gateway_vars, Lines, Statuses, Outcomes
<1>2. ASSUME NEW d \in Calls PROVE CallInv(d)'
  <2>1. Progress(d)'
    BY DEF Inv, CallInv, Progress, TypeOK, service_vars, gateway_vars, Statuses
  <2>2. Ownership(d)'
    BY DEF Inv, CallInv, Progress, Ownership, Authorized, Token, TypeOK, service_vars,
           gateway_vars, Statuses
  <2>3. Account(d)'
    BY DEF Inv, CallInv, Progress, Account, TypeOK, service_vars, gateway_vars, Statuses
  <2>4. Verdict(d)'
    BY DEF Inv, CallInv, Progress, Ownership, Account, Verdict, TypeOK, service_vars,
           gateway_vars, Statuses
  <2>5. QED
    BY <2>1, <2>2, <2>3, <2>4 DEF CallInv
<1>3. QED
  BY <1>1, <1>2 DEF Inv

\* The post fails: the only answer to a post that says nothing of it.
LEMMA FailedInv ==
  ASSUME Inv, NEW c \in Calls, Failed(c)
  PROVE  Inv'
<1> USE DEF Failed, EndWith
<1>1. TypeOK'
  BY DEF Inv, TypeOK, service_vars, gateway_vars, Lines, Statuses, Outcomes
<1>2. ASSUME NEW d \in Calls PROVE CallInv(d)'
  <2>1. Progress(d)'
    BY DEF Inv, CallInv, Progress, TypeOK, service_vars, gateway_vars, Statuses
  <2>2. Ownership(d)'
    BY DEF Inv, CallInv, Progress, Ownership, Authorized, Token, TypeOK, service_vars,
           gateway_vars, Statuses
  <2>3. Account(d)'
    BY DEF Inv, CallInv, Progress, Account, TypeOK, service_vars, gateway_vars, Statuses
  <2>4. Verdict(d)'
    BY DEF Inv, CallInv, Progress, Ownership, Account, Verdict, TypeOK, service_vars,
           gateway_vars, Statuses
  <2>5. QED
    BY <2>1, <2>2, <2>3, <2>4 DEF CallInv
<1>3. QED
  BY <1>1, <1>2 DEF Inv

\* The process posts again.
LEMMA WakeInv ==
  ASSUME Inv, NEW c \in Calls, Wake(c)
  PROVE  Inv'
<1> USE DEF Wake, Post
<1>1. TypeOK'
  <2>1. posts' \in [Calls -> Nat] /\ wire' \in [Calls -> {"none", "sent", "taken"}]
    BY DEF Inv, TypeOK
  <2>2. handler' \in [Calls -> {"none", "received", "posting", "sleeping", "ended"}]
    BY DEF Inv, TypeOK
  <2>3. attempt' \in [Calls -> 0..MaxRetries]
    BY DEF Inv, TypeOK, CallInv, Account
  <2>4. QED
    BY <2>1, <2>2, <2>3 DEF Inv, TypeOK, service_vars
<1>2. ASSUME NEW d \in Calls PROVE CallInv(d)'
  <2>1. Progress(d)'
    BY DEF Inv, CallInv, Progress, TypeOK, service_vars, gateway_vars, Statuses
  <2>2. Ownership(d)'
    BY DEF Inv, CallInv, Progress, Ownership, Authorized, Token, TypeOK, service_vars,
           gateway_vars, Statuses
  <2>3. Account(d)'
    BY DEF Inv, CallInv, Progress, Account, TypeOK, service_vars, gateway_vars, Statuses
  <2>4. Verdict(d)'
    BY DEF Inv, CallInv, Progress, Ownership, Account, Verdict, TypeOK, service_vars,
           gateway_vars, Statuses
  <2>5. QED
    BY <2>1, <2>2, <2>3, <2>4 DEF CallInv
<1>3. QED
  BY <1>1, <1>2 DEF Inv

\* The gateway takes a post, now or later.
LEMMA TakeInv ==
  ASSUME Inv, NEW c \in Calls, Take(c)
  PROVE  Inv'
<1> USE DEF Take
<1>1. TypeOK'
  BY DEF Inv, TypeOK, service_vars, gateway_vars, Lines, Statuses, Outcomes
<1>2. ASSUME NEW d \in Calls PROVE CallInv(d)'
  <2>1. Progress(d)'
    BY DEF Inv, CallInv, Progress, TypeOK, service_vars, gateway_vars, Statuses
  <2>2. Ownership(d)'
    BY DEF Inv, CallInv, Progress, Ownership, Authorized, Token, TypeOK, service_vars,
           gateway_vars, Statuses
  <2>3. Account(d)'
    BY DEF Inv, CallInv, Progress, Account, TypeOK, service_vars, gateway_vars, Statuses
  <2>4. Verdict(d)'
    BY DEF Inv, CallInv, Progress, Ownership, Account, Verdict, TypeOK, service_vars,
           gateway_vars, Statuses
  <2>5. QED
    BY <2>1, <2>2, <2>3, <2>4 DEF CallInv
<1>3. QED
  BY <1>1, <1>2 DEF Inv

\* The process comes up.
LEMMA StartInv ==
  ASSUME Inv, NEW i \in Instances, Start(i)
  PROVE  Inv'
<1>1. TypeOK'
  BY DEF Inv, TypeOK, Start, gateway_vars
<1>2. \A d \in Calls : CallInv(d)'
  BY DEF Inv, CallInv, Progress, Ownership, Account, Verdict, Authorized, Token, Start,
         gateway_vars
<1>3. QED
  BY <1>1, <1>2 DEF Inv

\* The process comes up.
LEMMA ListenInv ==
  ASSUME Inv, NEW i \in Instances, Listen(i)
  PROVE  Inv'
<1>1. TypeOK'
  BY DEF Inv, TypeOK, Listen, gateway_vars
<1>2. \A d \in Calls : CallInv(d)'
  BY DEF Inv, CallInv, Progress, Ownership, Account, Verdict, Authorized, Token, Listen,
         gateway_vars
<1>3. QED
  BY <1>1, <1>2 DEF Inv

\* The process dies, and its calls end as the kernel leaves them.
LEMMA CrashInv ==
  ASSUME Inv, NEW i \in Instances, Crash(i)
  PROVE  Inv'
<1>1. TypeOK'
  BY DEF Inv, TypeOK, Crash, gateway_vars
<1>2. ASSUME NEW d \in Calls PROVE CallInv(d)'
  <2>1. line'[d] = line[d] \/ (server[d] = i /\ line'[d] \in {"eof", "reset"})
    BY DEF Inv, TypeOK, CallInv, Progress, Crash, LeftBehind
  <2>2. handler'[d] = IF server[d] = i THEN "ended" ELSE handler[d]
    BY DEF Crash
  <2>3. /\ server' = server /\ attempt' = attempt /\ outcome' = outcome
        /\ dispatched' = dispatched /\ request' = request /\ fixedToken' = fixedToken
        /\ wire' = wire /\ posts' = posts /\ taken' = taken /\ excused' = excused
    BY DEF Crash, gateway_vars
  <2>4. Progress(d)'
    BY <2>1, <2>2, <2>3 DEF Inv, CallInv, Progress
  <2>5. Ownership(d)' /\ Account(d)' /\ Verdict(d)'
    BY <2>1, <2>2, <2>3
    DEF Inv, CallInv, Progress, Ownership, Account, Verdict, Authorized, Token, Statuses
  <2>6. QED
    BY <2>4, <2>5 DEF CallInv
<1>3. QED
  BY <1>1, <1>2 DEF Inv

\* A step that changes nothing.
LEMMA StutterInv == Inv /\ UNCHANGED vars => Inv'
  BY DEF Inv, TypeOK, CallInv, Progress, Ownership, Account, Verdict, Authorized, Token,
         vars, service_vars, gateway_vars

LEMMA StepInv == Inv /\ [Next]_vars => Inv'
<1> SUFFICES ASSUME Inv, Next PROVE Inv'
  BY StutterInv
<1>1. ASSUME NEW i \in Instances, Start(i) \/ Listen(i) \/ Crash(i) PROVE Inv'
  BY <1>1, StartInv, ListenInv, CrashInv
<1>2. ASSUME NEW c \in Calls, NEW r \in Requests, Call(c, r) PROVE Inv'
  BY <1>2, CallInvariant
<1>3. ASSUME NEW c \in Calls, Cancel(c) \/ Read(c) \/ Take(c) PROVE Inv'
  BY <1>3, CancelInv, ReadInv, TakeInv
<1>4. ASSUME NEW c \in Calls, Handle(c) PROVE Inv'
  BY <1>4, OverrunInv, UnauthorizedInv, SignInv, SubmitInv, AnsweredInv, FailedInv, WakeInv
  DEF Handle
<1>5. QED
  BY <1>1, <1>2, <1>3, <1>4 DEF Next

LEMMA Invariance == Spec => []Inv
  BY InitInv, StepInv, PTL DEF Spec
-----------------------------------------------------------------------------
(* Each step is one of the promise, or none *)

AbstractVars == <<WorkOf, Offered, Held, AnswerOf>>

\* A step of one call that leaves its post, its account and its answer alone.
LEMMA Quiet ==
  ASSUME UNCHANGED <<request, wire, taken, excused, outcome>>, UNCHANGED dispatched
  PROVE  UNCHANGED AbstractVars
BY DEF AbstractVars, WorkOf, Offered, Held, AnswerOf

\* A call is opened, or nobody listens.
LEMMA CallSimulated ==
  ASSUME Inv, NEW c \in Calls, NEW r \in Requests, Call(c, r)
  PROVE  Promise!Next \/ UNCHANGED AbstractVars
<1>1. c \notin dispatched /\ outcome[c] = "none"
  BY DEF Inv, CallInv, Ownership, Call
<1>2. UNCHANGED <<WorkOf, Offered, Held>>
  <2>1. \A d \in Calls : d \in dispatched => request'[d] = request[d]
    BY <1>1 DEF Call, Inv, TypeOK
  <2>2. WorkOf' = WorkOf
    BY <2>1 DEF WorkOf, Call
  <2>3. QED
    BY <2>2 DEF Call, Offered, Held, gateway_vars
<1>3. CASE UNCHANGED outcome
  BY <1>2, <1>3 DEF AbstractVars, AnswerOf
<1>4. CASE outcome' = [outcome EXCEPT ![c] = "SignerError"]
  <2>1. AnswerOf[c] = "none" /\ AnswerOf' = [AnswerOf EXCEPT ![c] = "error"]
    BY <1>1, <1>4 DEF AnswerOf, Inv, TypeOK
  <2>2. Promise!Answer(c, "error")
    BY <1>2, <2>1 DEF Promise!Answer
  <2>3. QED
    BY <2>2 DEF Promise!Next, Promise!Answers
<1>5. QED
  BY <1>3, <1>4 DEF Call

\* The caller goes away.
LEMMA CancelSimulated ==
  ASSUME Inv, NEW c \in Calls, Cancel(c)
  PROVE  Promise!Next
<1>1. UNCHANGED <<WorkOf, Offered, Held>>
  BY DEF Cancel, WorkOf, Offered, Held, gateway_vars
<1>2. AnswerOf[c] = "none" /\ AnswerOf' = [AnswerOf EXCEPT ![c] = "cancelled"]
  BY DEF Cancel, Waiting, AnswerOf, Inv, TypeOK
<1>3. Promise!Answer(c, "cancelled")
  BY <1>1, <1>2 DEF Promise!Answer
<1>4. QED
  BY <1>3 DEF Promise!Next, Promise!Answers

\* The caller reads what is true.
LEMMA ReadSimulated ==
  ASSUME Inv, Inv', NEW c \in Calls, Read(c)
  PROVE  Promise!Next
<1> DEFINE a == AnswerOf'[c]
<1>1. UNCHANGED <<WorkOf, Offered, Held>>
  BY DEF Read, WorkOf, Offered, Held, gateway_vars
<1>2. /\ outcome[c] = "none" /\ line[c] # "none"
      /\ outcome' = [outcome EXCEPT ![c] = Outcome(line[c])]
  BY DEF Read, Waiting
<1>3. AnswerOf[c] = "none" /\ AnswerOf' = [AnswerOf EXCEPT ![c] = a]
  BY <1>2 DEF AnswerOf, Inv, TypeOK
<1>4. a \in Promise!Answers /\ (a \in {"signed", "accepted", "refused", "busy"} => outcome'[c]
    = a)
  <2>1. outcome'[c] = Outcome(line[c]) /\ line[c] \in Lines \ {"none"}
    BY <1>2 DEF Inv, TypeOK
  <2>2. a = IF outcome'[c] \in {"SignerError", "ValueError", "OSError"}
              THEN "error" ELSE outcome'[c]
    BY DEF AnswerOf
  <2>3. QED
    BY <2>1, <2>2 DEF Outcome, Lines, Statuses, Promise!Answers
<1>5. /\ a = "signed" => c \in dispatched' /\ request'[c].method = "sign"
      /\ a \in {"accepted", "refused", "busy"} =>
           c \in dispatched' /\ request'[c].method = "mtls_submit"
      /\ a = "accepted" => taken'[c] > excused'[c]
      /\ a = "busy" => wire'[c] = "none" /\ taken'[c] = excused'[c]
  BY <1>4 DEF Inv, CallInv, Verdict, Statuses
<1>6. taken'[c] \in Nat /\ excused'[c] \in Nat
  BY DEF Inv, TypeOK
<1>7. /\ a = "signed" => WorkOf'[c] = "sign"
      /\ a \in {"accepted", "refused", "busy"} => WorkOf'[c] = "mtls_submit"
      /\ a = "accepted" => c \in Held'
      /\ a = "busy" => c \notin Offered' \cup Held'
  BY <1>5, <1>6 DEF WorkOf, Offered, Held
<1>8. Promise!Answer(c, a)
  BY <1>1, <1>3, <1>7 DEF Promise!Answer
<1>9. QED
  BY <1>4, <1>8 DEF Promise!Next

\* A handler whose caller has no answer works for an open call.
LEMMA WorksOpen ==
  ASSUME Inv, NEW c \in Calls, handler[c] \notin {"none", "ended"}
  PROVE  Promise!Open(c)
<1>1. outcome[c] \in {"none", "cancelled"}
  BY DEF Inv, CallInv, Progress
<1>2. QED
  BY <1>1 DEF Promise!Open, AnswerOf

\* A document is signed.
LEMMA SignSimulated ==
  ASSUME Inv, NEW c \in Calls, Sign(c)
  PROVE  Promise!Next
<1>1. handler[c] = "received" /\ c \notin dispatched
  BY DEF Sign, Dispatch, Inv, CallInv, Ownership
<1>2. UNCHANGED <<Offered, Held, AnswerOf>>
  BY DEF Sign, Dispatch, Offered, Held, AnswerOf, gateway_vars
<1>3. WorkOf[c] = "none" /\ WorkOf' = [WorkOf EXCEPT ![c] = "sign"]
  BY <1>1 DEF Sign, Dispatch, WorkOf
<1>4. Promise!Open(c)
  BY <1>1, WorksOpen
<1>5. Promise!Sign(c)
  BY <1>2, <1>3, <1>4 DEF Promise!Sign
<1>6. QED
  BY <1>5 DEF Promise!Next

\* A post puts a document on its way that the gateway does not have.
LEMMA PostOffers ==
  ASSUME Inv, NEW c \in Calls, handler[c] \in {"received", "sleeping"}, Post(c)
  PROVE  /\ c \notin Offered \cup Held
         /\ Offered' = Offered \cup {c} /\ Held' = Held
<1>1. wire[c] = "none" /\ taken[c] = excused[c] /\ taken[c] \in Nat
  BY DEF Inv, TypeOK, CallInv, Account
<1>2. wire' = [wire EXCEPT ![c] = "sent"] /\ taken' = taken /\ excused' = excused
  BY DEF Post
<1>3. c \notin Offered \cup Held
  BY <1>1 DEF Offered, Held
<1>4. Offered' = Offered \cup {c} /\ Held' = Held
  BY <1>2 DEF Offered, Held, Inv, TypeOK
<1>5. QED
  BY <1>3, <1>4

\* A submission begins.
LEMMA SubmitSimulated ==
  ASSUME Inv, NEW c \in Calls, Submit(c)
  PROVE  Promise!Next
<1>1. handler[c] = "received" /\ c \notin dispatched
  BY DEF Submit, Dispatch, Inv, CallInv, Ownership
<1>2. AnswerOf' = AnswerOf
  BY DEF Submit, Dispatch, AnswerOf
<1>3. WorkOf[c] = "none" /\ WorkOf' = [WorkOf EXCEPT ![c] = "mtls_submit"]
  BY <1>1 DEF Submit, Dispatch, WorkOf
<1>4. Offered' \in {Offered, Offered \cup {c}} /\ Held' = Held
  <2>1. CASE Post(c)
    BY <1>1, <2>1, PostOffers
  <2>2. CASE UNCHANGED gateway_vars
    BY <2>2 DEF gateway_vars, Offered, Held
  <2>3. QED
    BY <2>1, <2>2 DEF Submit
<1>5. Promise!Open(c)
  BY <1>1, WorksOpen
<1>6. Promise!Submit(c)
  BY <1>2, <1>3, <1>4, <1>5 DEF Promise!Submit
<1>7. QED
  BY <1>6 DEF Promise!Next

\* A retry: only of a document that the gateway turned away.
LEMMA WakeSimulated ==
  ASSUME Inv, NEW c \in Calls, Wake(c)
  PROVE  Promise!Next
<1>1. handler[c] = "sleeping" /\ c \in dispatched /\ request[c].method = "mtls_submit"
  BY DEF Wake, Inv, CallInv, Ownership
<1>2. WorkOf[c] = "mtls_submit" /\ UNCHANGED <<WorkOf, AnswerOf>>
  BY <1>1 DEF Wake, WorkOf, AnswerOf
<1>3. c \notin Offered \cup Held /\ Offered' = Offered \cup {c} /\ Held' = Held
  BY <1>1, PostOffers DEF Wake
<1>4. Promise!Open(c)
  BY <1>1, WorksOpen
<1>5. Promise!OfferAgain(c)
  BY <1>2, <1>3, <1>4 DEF Promise!OfferAgain
<1>6. QED
  BY <1>5 DEF Promise!Next

\* The gateway answers: it turns the document away, or the promise says nothing.
LEMMA AnsweredSimulated ==
  ASSUME Inv, NEW c \in Calls, Answered(c)
  PROVE  Promise!Next \/ UNCHANGED AbstractVars
<1>1. handler[c] = "posting" /\ wire' = [wire EXCEPT ![c] = "none"] /\ taken' = taken
  BY DEF Answered
<1>2. PICK s \in Statuses :
        /\ s = "accepted" => wire[c] = "taken"
        /\ excused' = [excused EXCEPT ![c] = IF s = "busy" /\ wire[c] = "taken" THEN @ + 1 ELSE
            @]
  BY DEF Answered
<1>3. UNCHANGED <<WorkOf, AnswerOf>>
  BY DEF Answered, WorkOf, AnswerOf, service_vars
<1>4. /\ taken[c] \in Nat /\ excused[c] \in Nat
      /\ wire[c] = "sent" => taken[c] = excused[c]
      /\ wire[c] = "taken" => taken[c] = excused[c] + 1
  BY DEF Inv, TypeOK, CallInv, Account
<1>5. Offered' = Offered \ {c}
  BY <1>1 DEF Offered, Inv, TypeOK
<1>6. CASE wire[c] = "sent" \/ (s = "busy" /\ wire[c] = "taken")
  <2>1. excused'[c] = taken'[c] /\ \A d \in Calls \ {c} : excused'[d] = excused[d]
    BY <1>1, <1>2, <1>4, <1>6 DEF Inv, TypeOK
  <2>2. Held' = Held \ {c}
    BY <1>1, <1>4, <2>1 DEF Held
  <2>3. c \in Offered \cup Held
    BY <1>4, <1>6 DEF Offered, Held
  <2>4. Promise!Open(c)
    BY <1>1, WorksOpen
  <2>5. Promise!TurnAway(c)
    BY <1>3, <1>5, <2>2, <2>3, <2>4 DEF Promise!TurnAway
  <2>6. QED
    BY <2>5 DEF Promise!Next
<1>7. CASE ~ (wire[c] = "sent" \/ (s = "busy" /\ wire[c] = "taken"))
  <2>1. excused' = excused
    BY <1>2, <1>7 DEF Inv, TypeOK
  <2>2. Offered' = Offered
    BY <1>5, <1>7 DEF Offered
  <2>3. Held' = Held
    BY <1>1, <2>1 DEF Held
  <2>4. QED
    BY <1>3, <2>2, <2>3 DEF AbstractVars
<1>8. QED
  BY <1>6, <1>7

\* The gateway takes the one document that is on its way.
LEMMA TakeSimulated ==
  ASSUME Inv, NEW c \in Calls, Take(c)
  PROVE  Promise!Next
<1>1. /\ wire[c] = "sent" /\ taken[c] = excused[c] /\ taken[c] \in Nat
      /\ wire' = [wire EXCEPT ![c] = "taken"] /\ taken' = [taken EXCEPT ![c] = @ + 1]
      /\ excused' = excused
  BY DEF Take, Inv, TypeOK, CallInv, Account
<1>2. UNCHANGED <<WorkOf, AnswerOf>>
  BY DEF Take, WorkOf, AnswerOf
<1>3. c \in Offered \ Held
  BY <1>1 DEF Offered, Held
<1>4. Offered' = Offered \ {c}
  BY <1>1 DEF Offered, Inv, TypeOK
<1>5. taken'[c] > excused'[c] /\ \A d \in Calls \ {c} : taken'[d] = taken[d]
  BY <1>1 DEF Inv, TypeOK
<1>6. Held' = Held \cup {c}
  BY <1>1, <1>5 DEF Held
<1>7. Promise!Take(c)
  BY <1>2, <1>3, <1>4, <1>6 DEF Promise!Take
<1>8. QED
  BY <1>7 DEF Promise!Next

LEMMA StepSimulation == Inv /\ Inv' /\ [Next]_vars => [Promise!Next]_(Promise!svars)
<1> SUFFICES ASSUME Inv, Inv', [Next]_vars
             PROVE  Promise!Next \/ UNCHANGED AbstractVars
  BY DEF Promise!svars, AbstractVars
<1>1. CASE UNCHANGED vars
  BY <1>1, Quiet DEF vars, gateway_vars
<1>2. ASSUME NEW i \in Instances, Start(i) \/ Listen(i) \/ Crash(i)
      PROVE  UNCHANGED AbstractVars
  BY <1>2, Quiet DEF Start, Listen, Crash, gateway_vars
<1>3. ASSUME NEW c \in Calls, Overrun(c) \/ Unauthorized(c) \/ Failed(c)
      PROVE  UNCHANGED AbstractVars
  BY <1>3, Quiet DEF Overrun, Unauthorized, Failed, gateway_vars
<1>4. ASSUME NEW c \in Calls, Handle(c) PROVE Promise!Next \/ UNCHANGED AbstractVars
  BY <1>3, <1>4, SignSimulated, SubmitSimulated, AnsweredSimulated, WakeSimulated DEF Handle
<1>5. ASSUME NEW c \in Calls, Cancel(c) \/ Read(c) \/ Take(c) PROVE Promise!Next
  BY <1>5, CancelSimulated, ReadSimulated, TakeSimulated
<1>6. QED
  BY <1>1, <1>2, <1>4, <1>5, CallSimulated DEF Next

-----------------------------------------------------------------------------
(* The theorems *)

\* Every variable keeps its type, the attempts within the retries allowed.
THEOREM ChannelTypeCorrect == Spec => []TypeOK
<1>1. Inv => TypeOK
  BY DEF Inv
<1>2. QED
  BY <1>1, Invariance, PTL

\* "accepted" is true of the document, and "signed" of what was asked (_call).
THEOREM VerdictsAreTrue == Spec => []VerdictHolds
<1>1. Inv => VerdictHolds
  BY DEF Inv, CallInv, Verdict, VerdictHolds
<1>2. QED
  BY <1>1, Invariance, PTL

\* Only 429 and 503 repeat a document the gateway took (_do_mtls_submit).
THEOREM NoUnexcusedDuplicate == Spec => []DuplicatesExcused
<1>1. Inv => DuplicatesExcused
  BY DEF Inv, TypeOK, CallInv, Account, DuplicatesExcused
<1>2. QED
  BY <1>1, Invariance, PTL

\* Whoever holds the path, it works for the holders of its token (_handle).
THEOREM StrangersNotServed == Spec => []OnlyOwnersServed
<1>1. Inv => OnlyOwnersServed
  BY DEF Inv, CallInv, Ownership, Authorized, OnlyOwnersServed
<1>2. QED
  BY <1>1, Invariance, PTL

\* No post follows an answer (_do_mtls_submit returns once).
THEOREM SilenceAfterAnswer == Spec => QuietAfterAnswer
<1>1. ASSUME Inv, [Next]_vars, NEW c \in Calls,
             outcome[c] \notin {"none", "cancelled"}
      PROVE  posts'[c] = posts[c]
  <2>1. handler[c] \in {"none", "ended"}
    BY <1>1 DEF Inv, CallInv, Progress
  <2>2. CASE UNCHANGED vars
    BY <2>2 DEF vars, gateway_vars
  <2>3. ASSUME NEW d \in Calls, Handle(d) PROVE posts'[c] = posts[c]
    <3>1. handler[d] \in {"received", "posting", "sleeping"}
      BY <2>3 DEF Handle, Overrun, Unauthorized, Sign, Submit, Dispatch, Answered, Failed, Wake
    <3>2. posts' = posts \/ posts' = [posts EXCEPT ![d] = @ + 1]
      BY <2>3 DEF Handle, Overrun, Unauthorized, Sign, Submit, Dispatch, Post, Answered, Failed,
                  Wake, gateway_vars
    <3>3. QED
      BY <2>1, <3>1, <3>2, <1>1 DEF Inv, TypeOK
  <2>4. ASSUME NEW i \in Instances, Start(i) \/ Listen(i) \/ Crash(i)
        PROVE  posts' = posts
    BY <2>4 DEF Start, Listen, Crash, gateway_vars
  <2>5. ASSUME NEW d \in Calls, NEW r \in Requests, Call(d, r) PROVE posts' = posts
    BY <2>5 DEF Call, gateway_vars
  <2>6. ASSUME NEW d \in Calls, Cancel(d) \/ Read(d) \/ Take(d) PROVE posts' = posts
    BY <2>6 DEF Cancel, Read, Take, gateway_vars
  <2>7. QED
    BY <1>1, <2>2, <2>3, <2>4, <2>5, <2>6 DEF Next
<1>2. Inv /\ [Next]_vars =>
        [\A c \in Calls : outcome[c] \notin {"none", "cancelled"} => posts'[c] = posts[c]]_vars
  BY <1>1
<1>3. QED
  BY <1>2, Invariance, PTL DEF Spec, QuietAfterAnswer
\* The process and its clients implement the promise: a document is offered again only when the
\* gateway turned it away, and every answer is true (_call, _do_mtls_submit).
THEOREM ChannelKeepsPromise == Spec => KeepsSubmission
<1>1. Init => Promise!Init
  BY DEF Init, Promise!Init, WorkOf, Offered, Held, AnswerOf
<1>2. QED
  BY <1>1, Invariance, StepSimulation, PTL DEF Spec, KeepsSubmission, Promise!Spec
=============================================================================
