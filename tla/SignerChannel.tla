------------------------------ MODULE SignerChannel ------------------------------
(***************************************************************************)
(* The signing process and its clients: signer_client.py asks, over one    *)
(* connection per call, what signer_service.py does with the key only that *)
(* process holds: sign something, or post a document to a gateway and      *)
(* retry while the gateway answers 429 or 503.                             *)
(*                                                                         *)
(* A process can die and another take its socket path.  A request or an    *)
(* answer is only "long" (over the 64 KiB limit of an asyncio stream       *)
(* reader, and within the 64 MB the service means to take) or not.         *)
(***************************************************************************)
EXTENDS Naturals, FiniteSets

CONSTANTS
  Calls,       \* calls of SignerClient methods
  Instances,   \* signer processes, each started once
  None,        \* no instance; also the token of EINVOICING_SIGNER_TOKEN
  MaxRetries   \* DEFAULT_MAX_RETRIES

ASSUME ChannelAssumption == None \notin Instances /\ MaxRetries \in Nat

VARIABLES
  fixedToken,  \* the token comes from the environment, not drawn by each instance
  service,     \* where each instance is
  socket,      \* the instance the socket path leads to
  request,     \* what each call asked
  server,      \* the instance each call is connected to
  handler,     \* where _handle is, for each call
  attempt,     \* the retries _do_mtls_submit has made
  wire,        \* the last post: none outstanding, sent, or taken by the gateway
  line,        \* the answer in the socket
  outcome,     \* what the caller got, "none" before
  dispatched,  \* history: calls whose method was run
  posts,       \* history: posts made for each call
  taken,       \* history: posts the gateway took
  excused      \* history: posts it took and then answered 429 or 503

service_vars == <<fixedToken, service, socket>>
gateway_vars == <<wire, posts, taken, excused>>
vars == <<service_vars, request, server, handler, attempt, line, outcome,
          dispatched, gateway_vars>>

Token(i) == IF fixedToken THEN None ELSE i
Requests == [method : {"sign", "mtls_submit"}, long : BOOLEAN, token : Instances \cup {None}]
NoRequest == [method |-> "sign", long |-> FALSE, token |-> None]
Statuses == {"accepted", "refused", "busy"}   \* 2xx; 429 and 503; any other
Lines == Statuses \cup {"none", "signed", "error", "long", "eof", "reset"}
Outcomes == Statuses \cup {"none", "signed", "SignerError", "ValueError", "OSError", "cancelled"}

TypeOK ==
  /\ fixedToken \in BOOLEAN
  /\ service \in [Instances -> {"off", "starting", "up", "dead"}]
  /\ socket \in Instances \cup {None}
  /\ request \in [Calls -> Requests]
  /\ server \in [Calls -> Instances \cup {None}]
  /\ handler \in [Calls -> {"none", "received", "posting", "sleeping", "ended"}]
  /\ attempt \in [Calls -> 0..MaxRetries]
  /\ wire \in [Calls -> {"none", "sent", "taken"}]
  /\ line \in [Calls -> Lines]
  /\ outcome \in [Calls -> Outcomes]
  /\ dispatched \subseteq Calls
  /\ posts \in [Calls -> Nat]
  /\ taken \in [Calls -> Nat]
  /\ excused \in [Calls -> Nat]

Init ==
  /\ fixedToken \in BOOLEAN
  /\ service = [i \in Instances |-> "off"]
  /\ socket = None
  /\ request = [c \in Calls |-> NoRequest]
  /\ server = [c \in Calls |-> None]
  /\ handler = [c \in Calls |-> "none"]
  /\ attempt = [c \in Calls |-> 0]
  /\ wire = [c \in Calls |-> "none"]
  /\ line = [c \in Calls |-> "none"]
  /\ outcome = [c \in Calls |-> "none"]
  /\ dispatched = {}
  /\ posts = [c \in Calls |-> 0]
  /\ taken = [c \in Calls |-> 0]
  /\ excused = [c \in Calls |-> 0]
-----------------------------------------------------------------------------
(* The process *)

\* start() unlinks the path, whoever listens there, ...
Start(i) ==
  /\ service[i] = "off"
  /\ service' = [service EXCEPT ![i] = "starting"]
  /\ socket' = None
  /\ UNCHANGED <<fixedToken, request, server, handler, attempt, line, outcome,
                 dispatched, gateway_vars>>

\* ... and listens there itself.
Listen(i) ==
  /\ service[i] = "starting"
  /\ service' = [service EXCEPT ![i] = "up"]
  /\ socket' = i
  /\ UNCHANGED <<fixedToken, request, server, handler, attempt, line, outcome,
                 dispatched, gateway_vars>>

\* What a death of its instance leaves on the connection of a call: the kernel
\* resets it when the request was still unread, and a long answer may be torn.
LeftBehind(c) ==
  CASE handler[c] = "received" -> {"eof", "reset"}
    [] handler[c] \in {"posting", "sleeping"} -> {"eof"}
    [] line[c] = "long" -> {"long", "eof"}
    [] OTHER -> {line[c]}

\* The process dies; the path stays, and leads nowhere.
Crash(i) ==
  /\ service[i] \in {"starting", "up"}
  /\ service' = [service EXCEPT ![i] = "dead"]
  /\ line' \in [Calls -> Lines]
  /\ \A c \in Calls : line'[c] \in IF server[c] = i THEN LeftBehind(c) ELSE {line[c]}
  /\ handler' = [c \in Calls |-> IF server[c] = i THEN "ended" ELSE handler[c]]
  /\ UNCHANGED <<fixedToken, socket, request, server, attempt, outcome,
                 dispatched, gateway_vars>>
-----------------------------------------------------------------------------
(* The caller *)

Listening(i) == i # None /\ service[i] = "up"

\* _call: open the connection and send the request, with the token of some
\* instance that was in the environment when the client was made.
Call(c, r) ==
  /\ outcome[c] = "none" /\ server[c] = None
  /\ r.token \in {Token(i) : i \in {j \in Instances : fixedToken \/ service[j] # "off"}}
  /\ request' = [request EXCEPT ![c] = r]
  /\ \/ /\ Listening(socket)
        /\ server' = [server EXCEPT ![c] = socket]
        /\ handler' = [handler EXCEPT ![c] = "received"]
        /\ UNCHANGED outcome
     \/ /\ ~ Listening(socket)
        /\ outcome' = [outcome EXCEPT ![c] = "SignerError"]
        /\ UNCHANGED <<server, handler>>
  /\ UNCHANGED <<service_vars, attempt, line, dispatched, gateway_vars>>

Waiting(c) == server[c] # None /\ outcome[c] = "none"

\* The caller's task is cancelled; the process is not told.
Cancel(c) ==
  /\ Waiting(c)
  /\ outcome' = [outcome EXCEPT ![c] = "cancelled"]
  /\ UNCHANGED <<service_vars, request, server, handler, attempt, line,
                 dispatched, gateway_vars>>

\* What _call makes of the line: an error or no JSON raises SignerError, a line
\* over the reader's limit ValueError, a reset connection an OSError.
Outcome(l) ==
  CASE l \in {"error", "eof"} -> "SignerError"
    [] l = "long" -> "ValueError"
    [] l = "reset" -> "OSError"
    [] OTHER -> l

Read(c) ==
  /\ Waiting(c) /\ line[c] # "none"
  /\ outcome' = [outcome EXCEPT ![c] = Outcome(line[c])]
  /\ UNCHANGED <<service_vars, request, server, handler, attempt, line,
                 dispatched, gateway_vars>>
-----------------------------------------------------------------------------
(* _handle, in the process: from one await to the next *)

\* The handler sends a line and ends.
EndWith(c, lines) ==
  /\ handler' = [handler EXCEPT ![c] = "ended"]
  /\ \E l \in lines : line' = [line EXCEPT ![c] = l]

\* Mutant of Overrun: the handler dies, and the connection stays open.
Bug_Overrun(c) ==
  /\ handler[c] = "received" /\ request[c].long
  /\ handler' = [handler EXCEPT ![c] = "ended"]
  /\ UNCHANGED <<service_vars, request, server, attempt, line, outcome,
                 dispatched, gateway_vars>>

\* readuntil raises on a line over the limit of the reader.  The error is sent,
\* but closing a connection with unread input may reset it first.
Overrun(c) ==
  /\ handler[c] = "received" /\ request[c].long
  /\ EndWith(c, {"error", "reset"})
  /\ UNCHANGED <<service_vars, request, server, attempt, outcome,
                 dispatched, gateway_vars>>

\* Mutant of Authorized: the token of any process that ran will do.
Bug_Authorized(c) == \E i \in Instances : service[i] # "off" /\ request[c].token = Token(i)

Authorized(c) == request[c].token = Token(server[c])

Unauthorized(c) ==
  /\ handler[c] = "received" /\ ~ request[c].long /\ ~ Authorized(c)
  /\ EndWith(c, {"error"})
  /\ UNCHANGED <<service_vars, request, server, attempt, outcome,
                 dispatched, gateway_vars>>

\* The method of an authorised request is run.
Dispatch(c) ==
  /\ handler[c] = "received" /\ ~ request[c].long /\ Authorized(c)
  /\ dispatched' = dispatched \cup {c}
  /\ UNCHANGED <<service_vars, request, server, outcome>>

\* _do_sign and _do_sign_jws, without an await; the signed document can be long.
Sign(c) ==
  /\ request[c].method = "sign"
  /\ Dispatch(c)
  /\ EndWith(c, {"signed", "long", "error"})
  /\ UNCHANGED <<attempt, gateway_vars>>

\* A post: a new one on the wire.
Post(c) ==
  /\ handler' = [handler EXCEPT ![c] = "posting"]
  /\ wire' = [wire EXCEPT ![c] = "sent"]
  /\ posts' = [posts EXCEPT ![c] = @ + 1]
  /\ UNCHANGED <<line, taken, excused>>

\* _do_mtls_submit: bad parameters end it before the first post.
Submit(c) ==
  /\ request[c].method = "mtls_submit"
  /\ Dispatch(c)
  /\ \/ EndWith(c, {"error"}) /\ UNCHANGED gateway_vars
     \/ Post(c)
  /\ UNCHANGED attempt

CanRetry(c) == attempt[c] < MaxRetries

\* Mutant of Answered: every answer but success is retried, as after a 503.
Bug_Answered(c) ==
  /\ handler[c] = "posting"
  /\ \E s \in Statuses :
       /\ s = "accepted" => wire[c] = "taken"
       /\ \/ /\ s # "accepted" /\ CanRetry(c)
             /\ handler' = [handler EXCEPT ![c] = "sleeping"]
             /\ UNCHANGED line
          \/ /\ ~ (s # "accepted" /\ CanRetry(c))
             /\ EndWith(c, {s, "long"})
       /\ excused' = [excused EXCEPT ![c] =
                        IF s = "busy" /\ wire[c] = "taken" THEN @ + 1 ELSE @]
  /\ wire' = [wire EXCEPT ![c] = "none"]
  /\ UNCHANGED <<service_vars, request, server, attempt, outcome, dispatched, posts, taken>>

\* The gateway answers.  After 429 or 503 the handler sleeps and posts again,
\* when it has retries left; its own answer can be long.
Answered(c) ==
  /\ handler[c] = "posting"
  /\ \E s \in Statuses :
       /\ s = "accepted" => wire[c] = "taken"
       /\ \/ /\ s = "busy" /\ CanRetry(c)
             /\ handler' = [handler EXCEPT ![c] = "sleeping"]
             /\ UNCHANGED line
          \/ /\ ~ (s = "busy" /\ CanRetry(c))
             /\ EndWith(c, {s, "long"})
       /\ excused' = [excused EXCEPT ![c] =
                        IF s = "busy" /\ wire[c] = "taken" THEN @ + 1 ELSE @]
  /\ wire' = [wire EXCEPT ![c] = "none"]
  /\ UNCHANGED <<service_vars, request, server, attempt, outcome, dispatched, posts, taken>>

\* Mutant of Failed: an exception is retried like a 503.
Bug_FailedRetries(c) ==
  /\ handler[c] = "posting"
  /\ \/ /\ CanRetry(c)
        /\ handler' = [handler EXCEPT ![c] = "sleeping"]
        /\ UNCHANGED line
     \/ ~ CanRetry(c) /\ EndWith(c, {"error"})
  /\ UNCHANGED <<service_vars, request, server, attempt, outcome, dispatched, gateway_vars>>

\* Mutant of Failed: the error is sent from inside the retry loop.
Bug_FailedTwice(c) ==
  /\ handler[c] = "posting"
  /\ line' = [line EXCEPT ![c] = "error"]
  /\ handler' = [handler EXCEPT ![c] = IF CanRetry(c) THEN "sleeping" ELSE "ended"]
  /\ UNCHANGED <<service_vars, request, server, attempt, outcome, dispatched, gateway_vars>>

\* The post times out or the connection breaks: it stays where it was.
Failed(c) ==
  /\ handler[c] = "posting"
  /\ EndWith(c, {"error"})
  /\ UNCHANGED <<service_vars, request, server, attempt, outcome, dispatched, gateway_vars>>

Wake(c) ==
  /\ handler[c] = "sleeping"
  /\ attempt' = [attempt EXCEPT ![c] = @ + 1]
  /\ Post(c)
  /\ UNCHANGED <<service_vars, request, server, outcome, dispatched>>

\* The gateway takes a post, possibly after the handler gave it up.
Take(c) ==
  /\ wire[c] = "sent"
  /\ wire' = [wire EXCEPT ![c] = "taken"]
  /\ taken' = [taken EXCEPT ![c] = @ + 1]
  /\ UNCHANGED <<service_vars, request, server, handler, attempt, line, outcome,
                 dispatched, posts, excused>>
-----------------------------------------------------------------------------
Handle(c) ==
  Overrun(c) \/ Unauthorized(c) \/ Sign(c) \/ Submit(c) \/ Answered(c) \/ Failed(c) \/ Wake(c)

Next ==
  \/ \E i \in Instances : Start(i) \/ Listen(i) \/ Crash(i)
  \/ \E c \in Calls :
       \/ \E r \in Requests : Call(c, r)
       \/ Cancel(c) \/ Read(c) \/ Handle(c) \/ Take(c)

Spec == Init /\ [][Next]_vars

\* The event loops of both processes run their ready tasks, and httpx ends a
\* post after 60 seconds of silence.
Fairness == \A c \in Calls : WF_vars(Handle(c)) /\ WF_vars(Read(c))

FairSpec == Spec /\ Fairness
-----------------------------------------------------------------------------
(* Properties *)

\* "accepted" reaches a caller only for a document the gateway took, and a
\* signature only one that asked for it, whatever was retried on the way.
VerdictHolds ==
  \A c \in Calls :
    /\ outcome[c] = "accepted" => taken[c] > excused[c]
    /\ outcome[c] = "signed" => request[c].method = "sign" /\ c \in dispatched

\* The gateway takes the document of one call twice only when it answered all
\* but the last post it took with 429 or 503; no timeout or death repeats one.
DuplicatesExcused ==
  \A c \in Calls : taken[c] <= excused[c] + 1 /\ excused[c] <= MaxRetries + 1

\* A process works only for callers that hold its own token: one that took the
\* path from another does not serve, or post for, the callers of the first.
OnlyOwnersServed ==
  \A c \in Calls :
    c \in dispatched \/ posts[c] > 0 => request[c].token = Token(server[c])

\* A caller that got any answer, an error too, knows that nothing more will be
\* posted for it; only the last post may still be on its way.
QuietAfterAnswer ==
  [][\A c \in Calls : outcome[c] \notin {"none", "cancelled"} => posts'[c] = posts[c]]_vars

\* Every call returns, and a submission whose caller has gone comes to its end.
EveryCallEnds ==
  \A c \in Calls : server[c] # None ~> (outcome[c] # "none" /\ handler[c] = "ended")

\* The service means to take requests of up to 64 MB: violated, one over the
\* reader's 64 KiB is never dispatched.
TakesUpTo64MB ==
  \A c \in Calls :
    handler[c] = "ended" /\ Authorized(c) /\ service[server[c]] = "up" => c \in dispatched
=============================================================================
