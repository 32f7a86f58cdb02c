-------------------------------- MODULE As4Exchange --------------------------------
(***************************************************************************)
(* The Peppol tools that go to the network (peppol/tools.py): looking a    *)
(* participant up in the SML and at its SMP, and sending an invoice to the *)
(* access point found there (PeppolTransmitter, AS4TransportClient).       *)
(*                                                                         *)
(* The participant may change its SMP while calls run.  The network        *)
(* damages, delays and loses; the access point (external) reads what       *)
(* arrives with AS4InboundHandler and answers as it likes.                 *)
(***************************************************************************)
EXTENDS SmpLookup, FiniteSets

CONSTANTS
  Calls,        \* tool calls, each also the message id transmit() draws for it
  Hosts,        \* SMP hosts the SML may list
  MaxRetries,   \* AS4TransportClient._max_retries
  MaxMoves      \* bound: changes of the SML

INSTANCE As4Message

ASSUME ExchangeAssumption ==
  /\ Hosts \subseteq Allowed
  /\ None \notin Allowed \cup Calls
  /\ MaxRetries \in Nat

VARIABLES
  sml,      \* the host the SML lists for the participant
  moves,    \* changes of the SML so far
  tool,     \* the tool each call runs
  at,       \* the await it is suspended at
  host,     \* the SMP host it resolved, while it runs
  metadata, \* the metadata document it fetched, while it runs, or answered with
  attempt,  \* the retries it has made
  wire,     \* requests on their way
  result,   \* what the tool returned, "none" before
  reported, \* the message_id of a "delivered" result
  inbox,    \* requests the access point accepted, and what it read
  listed,   \* history: hosts listed while a call ran
  heard,    \* history: 429 and 503 answers a call heard
  misled    \* history: it was given a signal that answers no message accepted

call_vars == <<tool, at, host, metadata, attempt, result, reported>>
history == <<listed, heard, misled>>
vars == <<sml, moves, call_vars, wire, inbox, history>>

Tools == {"peppol_lookup_participant", "peppol_get_service_endpoint",
          "resolve_peppol_dns", "peppol_send"}
Phases == {"idle", "dns", "group", "metadata", "post", "backoff", "done"}
Results == {"none", "registered", "unregistered", "endpoint", "delivered", "error", "raised"}

\* The last attachment is the invoice as it was sent.
Invoice(c) == [document |-> c, wrapped |-> TRUE, mls_to |-> "sender"]
Message(c) ==
  Multipart(Envelope(c, "sender", "receiver", "invoice", "billing"), Gzip(Invoice(c)), "key")
\* None is no invoice, no attachment and no Content-Id.
ASSUME MessageAssumption ==
  \A c \in Calls : None \notin {Invoice(c), Gzip(Invoice(c)), InvoiceCid}
Request(c, n) == [call |-> c, attempt |-> n]

\* The service information a call goes on with, or answered with.
Info(c) == ServiceInfo(metadata[c])

TypeOK ==
  /\ sml \in Hosts \cup {None}
  /\ moves \in 0..MaxMoves
  /\ tool \in [Calls -> Tools]
  /\ at \in [Calls -> Phases]
  /\ host \in [Calls -> Hosts \cup {None}]
  /\ attempt \in [Calls -> 0..MaxRetries]
  /\ wire \subseteq [call : Calls, attempt : 0..MaxRetries]
  /\ result \in [Calls -> Results]
  /\ \A r \in inbox : r.request \in wire
  /\ heard \in [Calls -> 0..MaxRetries]
  /\ misled \in [Calls -> BOOLEAN]

Init ==
  /\ sml \in Hosts \cup {None}
  /\ moves = 0
  /\ tool = [c \in Calls |-> "peppol_send"]
  /\ at = [c \in Calls |-> "idle"]
  /\ host = [c \in Calls |-> None]
  /\ metadata = [c \in Calls |-> <<>>]
  /\ attempt = [c \in Calls |-> 0]
  /\ wire = {}
  /\ result = [c \in Calls |-> "none"]
  /\ reported = [c \in Calls |-> None]
  /\ inbox = {}
  /\ listed = [c \in Calls |-> {}]
  /\ heard = [c \in Calls |-> 0]
  /\ misled = [c \in Calls |-> FALSE]
-----------------------------------------------------------------------------
(* The lookup *)

Ends(c, what) ==
  /\ at' = [at EXCEPT ![c] = "done"]
  /\ result' = [result EXCEPT ![c] = what]
  /\ host' = [host EXCEPT ![c] = None]
Return(c, what) ==
  /\ Ends(c, what)
  /\ metadata' = [metadata EXCEPT ![c] = <<>>]
Continue(c, phase) ==
  /\ at' = [at EXCEPT ![c] = phase]
  /\ UNCHANGED <<result, host, metadata>>

\* The tool is called.  An identifier that cannot be adapted or parsed, or an
\* invoice that is no base64, is answered at once.
Call(c) ==
  /\ at[c] = "idle"
  /\ \E t \in Tools, identifier \in {"qualified", "bare", "malformed"} :
       /\ tool' = [tool EXCEPT ![c] = t]
       /\ listed' = [listed EXCEPT ![c] = {sml}]
       /\ IF Parses(identifier)
          THEN \/ Continue(c, "dns")
               \/ t = "peppol_send" /\ Return(c, "error")
          ELSE Return(c, "error")
  /\ UNCHANGED <<sml, moves, attempt, reported, wire, inbox, heard, misled>>

\* What each tool makes of a lookup that raised, or found no record.
Unresolved(c, raised) ==
  CASE tool[c] = "peppol_lookup_participant" -> "unregistered"
    [] tool[c] = "resolve_peppol_dns" -> IF raised THEN "error" ELSE "unregistered"
    [] tool[c] = "peppol_get_service_endpoint" -> IF raised THEN "raised" ELSE "endpoint"
    [] OTHER -> "error"

\* The DNS answer arrives.
Resolve(c) ==
  /\ at[c] = "dns"
  /\ \E reply \in DnsReplies(sml) :
       LET answered == ResolveNaptr(reply)
       IN \/ answered.host = None /\ Return(c, Unresolved(c, answered.raised))
          \/ /\ answered.host # None /\ tool[c] = "resolve_peppol_dns"
             /\ Return(c, "registered")
          \/ /\ answered.host # None /\ tool[c] # "resolve_peppol_dns"
             /\ at' = [at EXCEPT ![c] =
                  IF tool[c] = "peppol_get_service_endpoint" THEN "metadata" ELSE "group"]
             /\ host' = [host EXCEPT ![c] = answered.host]
             /\ UNCHANGED <<result, metadata>>
  /\ UNCHANGED <<sml, moves, tool, attempt, reported, wire, inbox, history>>

\* Mutant of FetchGroup: the lookup begins again when the group does not arrive.
Bug_FetchGroup(c) ==
  /\ at[c] = "group"
  /\ \/ Continue(c, "dns")
     \/ tool[c] = "peppol_send" /\ Continue(c, "metadata")
     \/ tool[c] # "peppol_send" /\ Return(c, "registered")
  /\ UNCHANGED <<sml, moves, tool, attempt, reported, wire, inbox, history>>

\* The service group arrives, or does not: lookup_participant calls the
\* participant registered in either case, and transmit goes on.
FetchGroup(c) ==
  /\ at[c] = "group"
  /\ IF tool[c] = "peppol_send" THEN Continue(c, "metadata") ELSE Return(c, "registered")
  /\ UNCHANGED <<sml, moves, tool, attempt, reported, wire, inbox, history>>

\* The service metadata does not arrive: a status that is no success raises a
\* PlatformError, which only peppol_send catches; anything else escapes, as does
\* the TypeError of a commented document.
MetadataFails(c) ==
  /\ at[c] = "metadata"
  /\ \/ tool[c] = "peppol_send" /\ Return(c, "error")
     \/ Return(c, "raised")
  /\ UNCHANGED <<sml, moves, tool, attempt, reported, wire, inbox, history>>

\* The service metadata arrives.  peppol_send goes on to sign and post when there
\* is an endpoint; credentials that cannot be loaded raise.
FetchMetadata(c) ==
  /\ at[c] = "metadata"
  /\ \E doc \in {d \in MetadataDocs(host[c]) : ~MetadataRaises(d)} :
       LET found == ServiceInfo(doc)
       IN \/ /\ tool[c] = "peppol_get_service_endpoint"
             /\ Ends(c, "endpoint")
             /\ metadata' = [metadata EXCEPT ![c] = doc]
             /\ UNCHANGED wire
          \/ /\ tool[c] = "peppol_send" /\ found.url = None
             /\ Return(c, "error")
             /\ UNCHANGED wire
          \/ /\ tool[c] = "peppol_send" /\ found.url # None
             /\ Return(c, "raised")
             /\ UNCHANGED wire
          \/ /\ tool[c] = "peppol_send" /\ found.url # None
             /\ at' = [at EXCEPT ![c] = "post"]
             /\ metadata' = [metadata EXCEPT ![c] = doc]
             /\ wire' = wire \cup {Request(c, 0)}
             /\ UNCHANGED <<result, host>>
  /\ UNCHANGED <<sml, moves, tool, attempt, reported, inbox, history>>
-----------------------------------------------------------------------------
(* The transmission *)

\* What a client that posted can be given (external): a refusal, a 429 or 503, an
\* error signal, no signal at all, a commented document, a receipt for one of the
\* messages the access point accepted, or a signal without an error that names
\* whatever message it likes, or none, and may hold no receipt.
NoSignal == [ErrorSignal(None) EXCEPT !.error = FALSE, !.signal = FALSE]
Receipts == {Receipt(i.read.message_id, i.read.document) : i \in inbox}
Signals == {Receipt(ref, None) : ref \in Calls \cup {None}}
Responses ==
  {[status |-> s, body |-> NoSignal] : s \in {"busy", "refused", "ok"}} \cup
  {[status |-> "ok", body |-> b] :
     b \in {ErrorSignal(None), [NoSignal EXCEPT !.comment = TRUE]} \cup Receipts \cup Signals}

\* AS4TransportClient.send: 429 and 503 are retried.
Retries(c, response) == response.status = "busy" /\ attempt[c] < MaxRetries

Backoff(c) ==
  /\ at[c] = "post"
  /\ \E response \in Responses : Retries(c, response)
  /\ Continue(c, "backoff")
  /\ heard' = [heard EXCEPT ![c] = heard[c] + 1]
  /\ UNCHANGED <<sml, moves, tool, attempt, reported, wire, inbox, listed, misled>>

\* The sleep ends, and the same message is posted again.
Repost(c) ==
  /\ at[c] = "backoff"
  /\ Continue(c, "post")
  /\ attempt' = [attempt EXCEPT ![c] = attempt[c] + 1]
  /\ wire' = wire \cup {Request(c, attempt[c] + 1)}
  /\ UNCHANGED <<sml, moves, tool, reported, inbox, history>>

\* The verdict of send, transmit and peppol_send on a response: a receipt for
\* another message is logged and taken like any other.
Verdict(response) ==
  IF response.status # "ok" THEN "error"
  ELSE CASE ReceiptVerdict(response.body) = "receipt" -> "delivered"
         [] ReceiptVerdict(response.body) = "PlatformError" -> "error"
         [] OTHER -> "raised"

Conclude(c) ==
  /\ at[c] = "post"
  /\ \E response \in Responses :
       /\ ~Retries(c, response)
       /\ Return(c, Verdict(response))
       /\ reported' = [reported EXCEPT ![c] =
            IF Verdict(response) = "delivered" THEN response.body.ref ELSE None]
       /\ misled' = [misled EXCEPT ![c] = response.body \in Signals]
  /\ UNCHANGED <<sml, moves, tool, attempt, wire, inbox, listed, heard>>

\* Mutant of PostFails: a post without an answer is repeated.
Bug_PostFails(c) ==
  /\ at[c] = "post"
  /\ IF attempt[c] < MaxRetries THEN Continue(c, "backoff") ELSE Return(c, "raised")
  /\ UNCHANGED <<sml, moves, tool, attempt, reported, wire, inbox, history>>

\* No answer: the timeout or transport error of httpx escapes from every layer.
PostFails(c) ==
  /\ at[c] = "post"
  /\ Return(c, "raised")
  /\ UNCHANGED <<sml, moves, tool, attempt, reported, wire, inbox, history>>
-----------------------------------------------------------------------------
(* The world (external) *)

\* The participant is registered, moves to another SMP, or is removed.
Move ==
  /\ moves < MaxMoves
  /\ \E h \in (Hosts \cup {None}) \ {sml} :
       /\ sml' = h
       /\ listed' = [c \in Calls |->
            IF at[c] \in {"idle", "done"} THEN listed[c] ELSE listed[c] \cup {h}]
  /\ moves' = moves + 1
  /\ UNCHANGED <<call_vars, wire, inbox, heard, misled>>

\* What the network makes of a message: nothing, or damage to its header, its
\* payload, its security header, its parts.
Transported(m) ==
  LET soap == m[1].content
  IN {m, <<>>, <<m[1]>>,
      [m EXCEPT ![1].content = [soap EXCEPT !.messaging = None]],
      [m EXCEPT ![1].content = [soap EXCEPT !.messaging.action = "garbled"]],
      [m EXCEPT ![1].content = [soap EXCEPT !.security = None]],
      [m EXCEPT ![1].content = [soap EXCEPT !.security.value = None]],
      [m EXCEPT ![2].content.xml.document = "garbled"],
      [m EXCEPT ![2].content.form = "cut"]}

\* What an access point that accepts a message when its signature verifies reads
\* of the message of a call.
Readings == [c \in Calls |->
  {Receive(m) : m \in {t \in Transported(Message(c)) :
                         ~Raises(t) /\ Receive(t).signature_valid}}]

\* The access point reads a request, once; its sender may have given up.
Accept(r) ==
  /\ r \in wire /\ \A i \in inbox : i.request # r
  /\ \E read \in Readings[r.call] : inbox' = inbox \cup {[request |-> r, read |-> read]}
  /\ UNCHANGED <<sml, moves, call_vars, wire, history>>
-----------------------------------------------------------------------------
Handle(c) ==
  \/ Resolve(c) \/ FetchGroup(c) \/ MetadataFails(c) \/ FetchMetadata(c)
  \/ Backoff(c) \/ Repost(c) \/ Conclude(c) \/ PostFails(c)

Next ==
  \/ \E c \in Calls : Call(c) \/ Handle(c)
  \/ Move
  \/ \E r \in wire : Accept(r)

Spec == Init /\ [][Next]_vars
FairSpec == Spec /\ \A c \in Calls : WF_vars(Handle(c))
-----------------------------------------------------------------------------
(* Properties *)

\* The endpoint an invoice is posted to, or a tool reports, is one that an SMP
\* published for the participant while that SMP was listed, at some time since
\* the call began; and its transport profile is that of the same endpoint, though URL
\* and profile are picked from the document one by one, if the document gives every
\* endpoint an address.
EndpointCurrentAndPaired ==
  \A c \in Calls : Info(c).url # None =>
    \E h \in listed[c] \ {None} : \E e \in Published(h) :
      Info(c).url = e.url /\ (Addressed(metadata[c]) => Info(c).profile = e.profile)

\* The copies of one message that the access point accepts are one more than the
\* busy answers its sender heard: a timeout, a refusal or an unreadable receipt
\* never makes the client post a message again.
RepostsExcused ==
  \A c \in Calls :
    Cardinality({i \in inbox : i.request.call = c}) <= heard[c] + 1

\* What the receiver accepts on the strength of the signature is what was sent,
\* whole, in whatever way header, payload, security and parts were damaged on
\* the way.
VerifiedArrivesWhole ==
  \A i \in inbox :
    /\ i.read.message_id = i.request.call
    /\ i.read.document = i.request.call
    /\ i.read.certificate = "key"

\* "certificate: signing certificate of the access point", next to "AS4 endpoint URL
\* of the receiving access point": violated, the URL is that of the last endpoint of
\* the document and the certificate that of the first.
CertificateOfEndpoint ==
  \A c \in Calls : Info(c).url # None =>
    \E e \in UNION {Published(h) : h \in Hosts} :
      Info(c).url = e.url /\ Info(c).certificate = e.certificate

\* The message id of a "delivered" result is that of a message the access point
\* accepted, unless the call was given a signal without an error that is no receipt
\* for one: refusals, error signals, silence and unreadable answers are never taken
\* for a delivery.
DeliveredUnlessMisled ==
  \A c \in Calls : result[c] = "delivered" /\ ~misled[c] =>
    \E i \in inbox : i.read.message_id = reported[c]

\* "RefToMessageId, matching the original UserMessage MessageId": violated, a
\* receipt for another message makes the call report that message's delivery.
DeliveredIsOwn ==
  \A c \in Calls : result[c] = "delivered" =>
    \E i \in inbox : i.request.call = c

\* Every tool call that was made ends, whatever the network does: in the end none
\* of them runs.
EveryTransmissionEnds == <>[](\A c \in Calls : at[c] \in {"idle", "done"})
=============================================================================
