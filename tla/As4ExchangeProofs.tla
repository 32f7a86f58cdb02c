------------------------------ MODULE As4ExchangeProofs ------------------------------
(***************************************************************************)
(* Proofs about the Peppol tools on the network, for any number of calls,  *)
(* hosts, moves and retries: how many copies of a message the access point *)
(* can accept, what a reported delivery rests on, where an endpoint that a *)
(* tool uses was published, and what a verified signature is worth.        *)
(*                                                                         *)
(* CopiesInv says that every request on the wire is one of the attempts    *)
(* its call has made (RequestsNumbered), that the call heard a busy answer *)
(* before each attempt but the first (RetriesHeard), and that the access   *)
(* point reads a request once (ReadOnce).  LookupInv says that the host a  *)
(* lookup goes on with was listed while it ran.  VerifiedArrivesWhole is   *)
(* inductive as it stands; VerifiedWhole shows, damage by damage, that a   *)
(* message read is the message sent.                                       *)
(***************************************************************************)
EXTENDS As4Exchange, FiniteSetTheorems, TLAPS

USE ExchangeAssumption DEF history

\* The part of TypeOK that the proofs rest on.
CallsTyped ==
  /\ at \in [Calls -> Phases]
  /\ attempt \in [Calls -> Nat]
  /\ heard \in [Calls -> Nat]
  /\ result \in [Calls -> Results]
  /\ DOMAIN reported = Calls /\ DOMAIN misled = Calls

RequestsNumbered ==
  /\ wire \subseteq [call : Calls, attempt : Nat]
  /\ \A r \in wire : r.attempt <= attempt[r.call]

RetriesHeard ==
  \A c \in Calls :
    /\ attempt[c] <= heard[c]
    /\ at[c] = "backoff" => attempt[c] + 1 <= heard[c]

ReadOnce ==
  /\ \A i \in inbox : i.request \in wire
  /\ \A i, j \in inbox : i.request = j.request => i = j

CopiesInv == CallsTyped /\ RequestsNumbered /\ RetriesHeard /\ ReadOnce

-----------------------------------------------------------------------------
(* Types *)

LEMMA TypedInit == Init => CallsTyped
BY DEF Init, CallsTyped, Phases, Results

\* What a tool makes of a failed lookup is a result, and no delivery.
LEMMA UnresolvedResult ==
  ASSUME NEW c \in Calls, NEW raised
  PROVE  Unresolved(c, raised) \in Results \ {"delivered"}
BY DEF Unresolved, Results

LEMMA VerdictResult ==
  ASSUME NEW response PROVE Verdict(response) \in Results
BY DEF Verdict, ReceiptVerdict, Results

LEMMA TypedNext == CallsTyped /\ [Next]_vars => CallsTyped'
<1> SUFFICES ASSUME CallsTyped, [Next]_vars PROVE CallsTyped'
  OBVIOUS
<1> USE DEF CallsTyped, Phases, Ends, Return, Continue
<1>1. ASSUME NEW c \in Calls, Call(c) PROVE CallsTyped'
  BY <1>1 DEF Call, Results
<1>2. ASSUME NEW c \in Calls, Resolve(c) PROVE CallsTyped'
  <2>1. at' \in [Calls -> Phases]
    BY <1>2 DEF Resolve
  <2>2. result' \in [Calls -> Results]
    BY <1>2, UnresolvedResult DEF Resolve, Results
  <2>3. QED
    BY <1>2, <2>1, <2>2 DEF Resolve
<1>3. ASSUME NEW c \in Calls, FetchGroup(c) \/ MetadataFails(c) PROVE CallsTyped'
  BY <1>3 DEF FetchGroup, MetadataFails, Results
<1>4. ASSUME NEW c \in Calls, FetchMetadata(c) PROVE CallsTyped'
  BY <1>4 DEF FetchMetadata, Results
<1>5. ASSUME NEW c \in Calls, Backoff(c) \/ Repost(c) \/ PostFails(c) PROVE CallsTyped'
  <2>1. CASE Backoff(c)
    BY <2>1 DEF Backoff
  <2>2. CASE Repost(c)
    BY <2>2 DEF Repost
  <2>3. CASE PostFails(c)
    BY <2>3 DEF PostFails, Results
  <2>4. QED
    BY <1>5, <2>1, <2>2, <2>3
<1>6. ASSUME NEW c \in Calls, Conclude(c) PROVE CallsTyped'
  BY <1>6, VerdictResult DEF Conclude
<1>7. ASSUME Move \/ (\E r \in wire : Accept(r)) \/ UNCHANGED vars PROVE CallsTyped'
  BY <1>7 DEF Move, Accept, vars, call_vars
<1>8. QED
  BY <1>1, <1>2, <1>3, <1>4, <1>5, <1>6, <1>7 DEF Next, Handle

-----------------------------------------------------------------------------
(* Copies of a message *)

LEMMA CopiesInit == Init => CopiesInv
BY TypedInit DEF Init, CopiesInv, RequestsNumbered, RetriesHeard, ReadOnce

\* The requests grow with the attempts (FetchMetadata, Repost).
LEMMA NumberedNext == CopiesInv /\ [Next]_vars => RequestsNumbered'
<1> SUFFICES ASSUME CopiesInv, [Next]_vars PROVE RequestsNumbered'
  OBVIOUS
<1> USE DEF CopiesInv, CallsTyped, RequestsNumbered, Request
<1>1. ASSUME NEW c \in Calls, FetchMetadata(c) PROVE RequestsNumbered'
  <2>1. wire' \subseteq wire \cup {Request(c, 0)} /\ attempt' = attempt
    BY <1>1 DEF FetchMetadata
  <2>2. QED
    BY <2>1
<1>2. ASSUME NEW c \in Calls, Repost(c) PROVE RequestsNumbered'
  <2>1. /\ wire' = wire \cup {Request(c, attempt[c] + 1)}
        /\ attempt' = [attempt EXCEPT ![c] = attempt[c] + 1]
    BY <1>2 DEF Repost
  <2>2. \A d \in Calls : attempt[d] \in Nat /\ attempt[d] <= attempt'[d]
    BY <2>1
  <2>3. wire' \subseteq [call : Calls, attempt : Nat]
    BY <2>1
  <2>4. ASSUME NEW r \in wire' PROVE r.attempt <= attempt'[r.call]
    BY <2>1, <2>2
  <2>5. QED
    BY <2>3, <2>4
<1>3. CASE UNCHANGED <<wire, attempt>>
  BY <1>3
<1>4. QED
  BY <1>1, <1>2, <1>3 DEF Next, Handle, Call, Resolve, FetchGroup, MetadataFails, Backoff,
     Conclude, PostFails, Move, Accept, vars, call_vars

\* An attempt is made only after a busy answer was heard (Backoff, Repost).
LEMMA HeardNext == CopiesInv /\ [Next]_vars => RetriesHeard'
<1> SUFFICES ASSUME CopiesInv, [Next]_vars PROVE RetriesHeard'
  OBVIOUS
<1> USE DEF CopiesInv, CallsTyped, RetriesHeard, Continue, Ends, Return
<1>1. ASSUME NEW c \in Calls, Backoff(c) PROVE RetriesHeard'
  BY <1>1 DEF Backoff
<1>2. ASSUME NEW c \in Calls, Repost(c) PROVE RetriesHeard'
  BY <1>2 DEF Repost
<1>3. ASSUME UNCHANGED <<attempt, heard>>,
             \A d \in Calls : at'[d] = "backoff" => at[d] = "backoff"
      PROVE  RetriesHeard'
  BY <1>3
<1>4. ASSUME NEW c \in Calls,
             \/ Call(c) \/ Resolve(c) \/ FetchGroup(c) \/ MetadataFails(c)
             \/ FetchMetadata(c) \/ Conclude(c) \/ PostFails(c)
      PROVE  RetriesHeard'
  BY <1>4 DEF Call, Resolve, FetchGroup, MetadataFails, FetchMetadata, Conclude, PostFails
<1>5. ASSUME Move \/ (\E r \in wire : Accept(r)) \/ UNCHANGED vars PROVE RetriesHeard'
  BY <1>3, <1>5 DEF Move, Accept, vars, call_vars
<1>6. QED
  BY <1>1, <1>2, <1>4, <1>5 DEF Next, Handle

\* The access point reads what was sent, each request once (Accept).
LEMMA ReadNext == CopiesInv /\ [Next]_vars => ReadOnce'
<1> SUFFICES ASSUME CopiesInv, [Next]_vars PROVE ReadOnce'
  OBVIOUS
<1>1. wire \subseteq wire'
  BY DEF Next, Handle, Call, Resolve, FetchGroup, MetadataFails, FetchMetadata, Backoff, Repost,
         Conclude, PostFails, Move, Accept, vars, call_vars
<1>2. ASSUME NEW r \in wire, Accept(r) PROVE ReadOnce'
  <2>1. PICK read : inbox' = inbox \cup {[request |-> r, read |-> read]}
    BY <1>2 DEF Accept
  <2>2. \A i \in inbox : i.request # r
    BY <1>2 DEF Accept
  <2>3. QED
    BY <1>1, <2>1, <2>2 DEF CopiesInv, ReadOnce
<1>3. CASE inbox' = inbox
  BY <1>1, <1>3 DEF CopiesInv, ReadOnce
<1>4. QED
  BY <1>2, <1>3 DEF Next, Handle, Call, Resolve, FetchGroup, MetadataFails, FetchMetadata,
     Backoff, Repost, Conclude, PostFails, Move, vars, call_vars

LEMMA CopiesNext == CopiesInv /\ [Next]_vars => CopiesInv'
BY TypedNext, NumberedNext, HeardNext, ReadNext DEF CopiesInv

\* The accepted copies of one call have different attempt numbers, so they are at
\* most one more than its retries.
LEMMA CopiesCounted == CopiesInv => RepostsExcused
<1> SUFFICES ASSUME CopiesInv, NEW c \in Calls
             PROVE  Cardinality({i \in inbox : i.request.call = c}) <= heard[c] + 1
  BY DEF RepostsExcused
<1> DEFINE copies == {i \in inbox : i.request.call = c}
           number == [i \in copies |-> i.request.attempt]
<1>1. attempt[c] \in Nat /\ heard[c] \in Nat /\ attempt[c] <= heard[c]
  BY DEF CopiesInv, CallsTyped, RetriesHeard
<1>2. ASSUME NEW i \in copies
      PROVE  /\ i.request \in [call : Calls, attempt : Nat] /\ i.request.call = c
             /\ i.request.attempt \in 0..attempt[c]
  BY <1>1 DEF CopiesInv, RequestsNumbered, ReadOnce
<1>3. number \in [copies -> 0..attempt[c]]
  BY <1>2
<1>4. ASSUME NEW i \in copies, NEW j \in copies, number[i] = number[j] PROVE i = j
  <2>1. i.request.attempt = j.request.attempt
    BY <1>4
  <2>2. i.request = j.request
    BY <1>2, <2>1
  <2>3. QED
    BY <2>2 DEF CopiesInv, ReadOnce
<1>5. number \in Injection(copies, 0..attempt[c])
  BY <1>3, <1>4 DEF Injection, IsInjective
<1>6. IsFiniteSet(0..attempt[c]) /\ Cardinality(0..attempt[c]) = attempt[c] + 1
  BY <1>1, FS_Interval
<1>7. IsFiniteSet(copies) /\ Cardinality(copies) <= attempt[c] + 1
  BY <1>5, <1>6, FS_Injection
<1>8. Cardinality(copies) \in Nat
  BY <1>7, FS_CardinalityType
<1>9. QED
  BY <1>1, <1>7, <1>8

\* The access point accepts at most one copy of a message more than busy answers its
\* sender heard, however requests are lost, delayed and read (send).
THEOREM CopiesExcused == Spec => []RepostsExcused
<1>1. QED
  BY CopiesInit, CopiesNext, CopiesCounted, PTL DEF Spec

-----------------------------------------------------------------------------
(* Reported deliveries *)

\* The only answers taken for a receipt are those for a message the access point has,
\* and signals that may name any.
LEMMA ReceiptsAreReal ==
  ASSUME NEW response \in Responses, Verdict(response) = "delivered", response.body \notin Signals
  PROVE  \E i \in inbox : response.body.ref = i.read.message_id
<1>1. response.status = "ok" /\ ReceiptVerdict(response.body) = "receipt"
  <2>1. CASE response.status # "ok"
    BY <2>1 DEF Verdict
  <2>2. CASE ReceiptVerdict(response.body) = "receipt"
    BY <2>1, <2>2
  <2>3. CASE response.status = "ok" /\ ReceiptVerdict(response.body) # "receipt"
    <3>1. Verdict(response) \in {"error", "raised"}
      BY <2>3 DEF Verdict
    <3>2. QED
      BY <3>1
  <2>4. QED
    BY <2>1, <2>2, <2>3
<1>2. response.body.signal /\ ~response.body.error /\ ~response.body.comment
  BY <1>1 DEF ReceiptVerdict
<1>3. NoSignal.signal = FALSE
  BY DEF NoSignal, ErrorSignal
<1>4. ErrorSignal(None).error = TRUE
  BY DEF ErrorSignal
<1>5. [NoSignal EXCEPT !.comment = TRUE].comment = TRUE
  BY DEF NoSignal, ErrorSignal
<1>6. response.body \in Receipts
  <2>1. response.body \in {NoSignal, ErrorSignal(None), [NoSignal EXCEPT !.comment = TRUE]}
          \cup Receipts \cup Signals
    BY DEF Responses
  <2>2. QED
    BY <1>2, <1>3, <1>4, <1>5, <2>1
<1>7. QED
  BY <1>6 DEF Receipts, Receipt

LEMMA ReportedNext ==
  CallsTyped /\ DeliveredUnlessMisled /\ [Next]_vars => DeliveredUnlessMisled'
<1> SUFFICES ASSUME CallsTyped, DeliveredUnlessMisled, [Next]_vars PROVE DeliveredUnlessMisled'
  OBVIOUS
<1> USE DEF CallsTyped, DeliveredUnlessMisled, Continue, Ends, Return
<1>1. inbox \subseteq inbox'
  BY DEF Next, Handle, Call, Resolve, FetchGroup, MetadataFails, FetchMetadata, Backoff, Repost,
         Conclude, PostFails, Move, Accept, vars, call_vars
<1>2. ASSUME NEW c \in Calls, Conclude(c) PROVE DeliveredUnlessMisled'
  <2>1. PICK response \in Responses :
          /\ result' = [result EXCEPT ![c] = Verdict(response)]
          /\ reported' = [reported EXCEPT ![c] =
               IF Verdict(response) = "delivered" THEN response.body.ref ELSE None]
          /\ misled' = [misled EXCEPT ![c] = response.body \in Signals]
    BY <1>2 DEF Conclude
  <2>2. QED
    BY <1>1, <2>1, ReceiptsAreReal
<1>3. ASSUME NEW c \in Calls, Resolve(c) PROVE DeliveredUnlessMisled'
  BY <1>1, <1>3, UnresolvedResult DEF Resolve
<1>4. ASSUME NEW c \in Calls,
             \/ Call(c) \/ FetchGroup(c) \/ MetadataFails(c) \/ FetchMetadata(c)
             \/ Backoff(c) \/ Repost(c) \/ PostFails(c)
      PROVE  DeliveredUnlessMisled'
  BY <1>1, <1>4 DEF Call, FetchGroup, MetadataFails, FetchMetadata, Backoff, Repost, PostFails
<1>5. ASSUME Move \/ (\E r \in wire : Accept(r)) \/ UNCHANGED vars PROVE DeliveredUnlessMisled'
  BY <1>1, <1>5 DEF Move, Accept, vars, call_vars
<1>6. QED
  BY <1>2, <1>3, <1>4, <1>5 DEF Next, Handle

\* A "delivered" result names a message the access point accepted, unless it rests on
\* a signal that is no receipt, whatever else is answered (send, AS4ReceiptHandler.parse).
THEOREM DeliveriesHappened == Spec => []DeliveredUnlessMisled
<1>1. Init => CallsTyped /\ DeliveredUnlessMisled
  BY TypedInit DEF Init, DeliveredUnlessMisled
<1>2. CallsTyped /\ DeliveredUnlessMisled /\ [Next]_vars => CallsTyped' /\ DeliveredUnlessMisled'
  BY TypedNext, ReportedNext
<1>3. QED
  BY <1>1, <1>2, PTL DEF Spec

-----------------------------------------------------------------------------
(* Endpoints *)

\* The endpoint of a host for a process.
Endpoint(h, p) == [url |-> <<h, p>>, profile |-> p, process |-> p, certificate |-> p]

LEMMA LastIs ==
  ASSUME NEW S \in SUBSET Nat, NEW k \in S, \A j \in S : j <= k
  PROVE  LastOf(S) = k
<1>1. LastOf(S) \in S /\ \A j \in S : j <= LastOf(S)
  BY DEF LastOf
<1>2. k \in Nat /\ LastOf(S) \in Nat /\ k <= LastOf(S) /\ LastOf(S) <= k
  BY <1>1
<1>3. QED
  BY <1>2

LEMMA OnePublished ==
  ASSUME NEW h, NEW p \in {"billing", "ordering"}
  PROVE  EndpointOf(h, p) = Endpoint(h, p)
<1>1. Endpoint(h, p) \in Published(h) /\ Endpoint(h, p).process = p
  BY DEF Endpoint, Published
<1>2. \A e \in Published(h) : e.process = p => e = Endpoint(h, p)
  BY DEF Endpoint, Published
<1>3. QED
  BY <1>1, <1>2 DEF EndpointOf

\* The document that describes one process, alone, after another one or a comment.
LEMMA LastDescribed ==
  ASSUME NEW h, NEW p, NEW T, NEW before \in Seq(T), At(before, "Redirect") = {}
  PROVE  LET found == ServiceInfo(before \o Described(Endpoint(h, p)))
         IN  found.url = <<h, p>> /\ found.profile = p
<1> DEFINE doc == before \o Described(Endpoint(h, p))
           n == Len(before)
<1>1. Described(Endpoint(h, p)) =
        <<Element("ProcessIdentifier", p), Element("Endpoint", p),
          Element("Address", <<h, p>>), Element("Certificate", p)>>
  BY DEF Described, Endpoint
<1>2. n \in Nat /\ DOMAIN doc = 1..(n + 4)
  BY <1>1
<1>3. /\ \A i \in 1..n : doc[i] = before[i]
      /\ doc[n + 1] = Element("ProcessIdentifier", p) /\ doc[n + 2] = Element("Endpoint", p)
      /\ doc[n + 3] = Element("Address", <<h, p>>) /\ doc[n + 4] = Element("Certificate", p)
  BY <1>1, <1>2
<1> HIDE DEF doc, n
<1>4. \A i \in DOMAIN doc : i \in 1..n \/ i = n + 1 \/ i = n + 2 \/ i = n + 3 \/ i = n + 4
  BY <1>2
<1>5. At(doc, "Redirect") = {}
  BY <1>3, <1>4, SMTT(30) DEF At, Element, n
<1>6. At(doc, "Address") \in SUBSET Nat /\ n + 3 \in At(doc, "Address")
      /\ \A j \in At(doc, "Address") : j <= n + 3
  BY <1>2, <1>3, <1>4 DEF At, Element
<1>7. At(doc, "Endpoint") \in SUBSET Nat /\ n + 2 \in At(doc, "Endpoint")
      /\ \A j \in At(doc, "Endpoint") : j <= n + 2
  BY <1>2, <1>3, <1>4 DEF At, Element
<1>8. LastText(doc, "Address") = <<h, p>>
  <2>1. LastOf(At(doc, "Address")) = n + 3
    BY <1>6, LastIs
  <2>2. QED
    BY <1>3, <1>6, <2>1 DEF LastText, Element
<1>9. LastText(doc, "Endpoint") = p
  <2>1. LastOf(At(doc, "Endpoint")) = n + 2
    BY <1>7, LastIs
  <2>2. QED
    BY <1>3, <1>7, <2>1 DEF LastText, Element
<1>10. ServiceInfo(doc).url = <<h, p>> /\ ServiceInfo(doc).profile = p
  BY <1>5, <1>8, <1>9 DEF ServiceInfo
<1>11. QED
  BY <1>10 DEF doc

\* A document whose only address is its third element reports that address.
LEMMA ThirdAddress ==
  ASSUME NEW doc, At(doc, "Redirect") = {}, At(doc, "Address") = {3}
  PROVE  ServiceInfo(doc).url = doc[3].text
<1>1. LastOf({3}) = 3
  BY DEF LastOf
<1>2. QED
  BY <1>1 DEF ServiceInfo, LastText

\* Without an address there is no URL.
LEMMA NoAddress ==
  ASSUME NEW doc, At(doc, "Address") = {}
  PROVE  ServiceInfo(doc).url = None
BY DEF ServiceInfo, NoInfo, LastText

\* The URL is that of an endpoint of the host, in every document with a URL, and the
\* profile is that endpoint's if the document gives each endpoint an address.
LEMMA InfoPublished ==
  ASSUME NEW h, NEW doc \in MetadataDocs(h), ServiceInfo(doc).url # None
  PROVE  \E e \in Published(h) :
           /\ ServiceInfo(doc).url = e.url
           /\ Addressed(doc) => ServiceInfo(doc).profile = e.profile
<1> DEFINE of(p) == Described(Endpoint(h, p))
           un(p) == Unaddressed(Endpoint(h, p))
<1>1. \/ doc = of("billing")
      \/ doc = of("billing") \o of("ordering")
      \/ doc = of("billing") \o un("ordering")
      \/ doc = un("billing") \o of("ordering")
      \/ doc \in {un("billing"), <<Element("Redirect", h)>>, <<>>}
      \/ doc = <<Element("comment", None)>> \o of("billing")
  BY OnePublished DEF MetadataDocs
<1>2. ASSUME NEW p \in {"billing", "ordering"}, ServiceInfo(doc).url = <<h, p>>,
             Addressed(doc) => ServiceInfo(doc).profile = p
      PROVE  \E e \in Published(h) :
               /\ ServiceInfo(doc).url = e.url
               /\ Addressed(doc) => ServiceInfo(doc).profile = e.profile
  <2>1. Endpoint(h, p) \in Published(h)
    BY <1>2 DEF Published, Endpoint
  <2>2. Endpoint(h, p).url = <<h, p>> /\ Endpoint(h, p).profile = p
    BY DEF Endpoint
  <2>3. QED
    BY <1>2, <2>1, <2>2
<1>3. ASSUME NEW p, NEW T, NEW before \in Seq(T), At(before, "Redirect") = {},
             doc = before \o of(p)
      PROVE  ServiceInfo(doc).url = <<h, p>> /\ ServiceInfo(doc).profile = p
  BY <1>3, LastDescribed
<1> DEFINE Elements ==
      {Element("ProcessIdentifier", "billing"), Element("Endpoint", "billing"),
       Element("Address", <<h, "billing">>), Element("Certificate", "billing")}
<1>4. /\ of("billing") =
           <<Element("ProcessIdentifier", "billing"), Element("Endpoint", "billing"),
             Element("Address", <<h, "billing">>), Element("Certificate", "billing")>>
      /\ \A p : un(p) = <<Element("ProcessIdentifier", p), Element("Endpoint", p),
                          Element("Certificate", p)>>
  BY DEF Described, Unaddressed, Endpoint
<1>5. of("billing") \in Seq(Elements) /\ At(of("billing"), "Redirect") = {}
  <2>1. of("billing") \in Seq(Elements)
    <3>1. ASSUME NEW a, NEW b, NEW c, NEW d PROVE <<a, b, c, d>> \in Seq({a, b, c, d})
      OBVIOUS
    <3>2. <<Element("ProcessIdentifier", "billing"), Element("Endpoint", "billing"),
            Element("Address", <<h, "billing">>), Element("Certificate", "billing")>>
            \in Seq(Elements)
      BY <3>1, Zenon
    <3>3. QED
      BY <1>4, <3>2, Zenon
  <2>2. At(of("billing"), "Redirect") = {}
    BY <1>4 DEF Element, At
  <2>3. QED
    BY <2>1, <2>2
<1>6. un("billing") \in Seq(Elements) /\ At(un("billing"), "Redirect") = {}
      /\ At(un("billing"), "Address") = {}
  <2>1. un("billing") \in Seq(Elements)
    <3>1. ASSUME NEW a, NEW b, NEW c, NEW d PROVE <<a, b, d>> \in Seq({a, b, c, d})
      OBVIOUS
    <3>2. <<Element("ProcessIdentifier", "billing"), Element("Endpoint", "billing"),
            Element("Certificate", "billing")>> \in Seq(Elements)
      BY <3>1, Zenon
    <3>3. QED
      BY <1>4, <3>2, Zenon
  <2>2. At(un("billing"), "Redirect") = {} /\ At(un("billing"), "Address") = {}
    BY <1>4 DEF Element, At
  <2>3. QED
    BY <2>1, <2>2
<1>7. CASE doc = of("billing")
  <2>1. <<>> \in Seq({}) /\ At(<<>>, "Redirect") = {} /\ doc = <<>> \o of("billing")
    BY <1>5, <1>7 DEF At
  <2>2. QED
    BY <1>2, <1>3, <2>1
<1>8. CASE doc = of("billing") \o of("ordering")
  BY <1>2, <1>3, <1>5, <1>8
<1>9. CASE doc = un("billing") \o of("ordering")
  BY <1>2, <1>3, <1>6, <1>9
<1>10. CASE doc = of("billing") \o un("ordering")
  <2>1. /\ DOMAIN doc = 1..7
        /\ doc[1] = Element("ProcessIdentifier", "billing")
        /\ doc[2] = Element("Endpoint", "billing")
        /\ doc[3] = Element("Address", <<h, "billing">>)
        /\ doc[4] = Element("Certificate", "billing")
        /\ doc[5] = Element("ProcessIdentifier", "ordering")
        /\ doc[6] = Element("Endpoint", "ordering")
        /\ doc[7] = Element("Certificate", "ordering")
    <3>1. ASSUME NEW a1, NEW a2, NEW a3, NEW a4, NEW b1, NEW b2, NEW b3,
                 doc = <<a1, a2, a3, a4>> \o <<b1, b2, b3>>
          PROVE  /\ DOMAIN doc = 1..7 /\ doc[1] = a1 /\ doc[2] = a2 /\ doc[3] = a3 /\ doc[4] = a4
                 /\ doc[5] = b1 /\ doc[6] = b2 /\ doc[7] = b3
      BY <3>1
    <3>2. doc = <<Element("ProcessIdentifier", "billing"), Element("Endpoint", "billing"),
                  Element("Address", <<h, "billing">>), Element("Certificate", "billing")>>
                \o <<Element("ProcessIdentifier", "ordering"), Element("Endpoint", "ordering"),
                     Element("Certificate", "ordering")>>
      BY <1>4, <1>10
    <3>3. QED
      BY ONLY <3>1, <3>2, Zenon
  <2>2. At(doc, "Redirect") = {} /\ At(doc, "Address") = {3}
    BY <2>1 DEF At, Element
  <2>3. ServiceInfo(doc).url = <<h, "billing">>
    BY <2>1, <2>2, ThirdAddress DEF Element
  <2>4. 6 \in At(doc, "Endpoint") /\ 7 \notin At(doc, "Address")
    BY <2>1 DEF At, Element
  <2>5. ~Addressed(doc)
    BY <2>4 DEF Addressed
  <2>6. QED
    BY <1>2, <2>3, <2>5
<1>11. CASE doc = <<Element("comment", None)>> \o of("billing")
  <2>1. <<Element("comment", None)>> \in Seq({Element("comment", None)})
        /\ At(<<Element("comment", None)>>, "Redirect") = {}
    BY DEF At, Element
  <2>2. QED
    BY <1>2, <1>3, <1>11, <2>1
<1>12. CASE doc \in {un("billing"), <<Element("Redirect", h)>>, <<>>}
  <2>1. At(doc, "Address") = {}
    BY <1>6, <1>12 DEF At, Element
  <2>2. QED
    BY <2>1, NoAddress
<1>13. QED
  BY <1>1, <1>7, <1>8, <1>9, <1>10, <1>11, <1>12

-----------------------------------------------------------------------------
(* The lookup *)

LookupTyped ==
  /\ DOMAIN metadata = Calls /\ DOMAIN host = Calls /\ DOMAIN listed = Calls
  /\ at \in [Calls -> Phases]

\* What is listed while a call runs is remembered, and the host it goes on with is
\* one of those.
HostsListed ==
  \A c \in Calls :
    /\ at[c] \notin {"idle", "done"} => sml \in listed[c]
    /\ at[c] \in {"group", "metadata"} => host[c] \in listed[c] \ {None}
    /\ at[c] = "idle" => metadata[c] = <<>>

LookupInv == LookupTyped /\ HostsListed /\ EndpointCurrentAndPaired

\* A DNS answer leads to the host that is listed, or nowhere.
LEMMA ResolvesListed ==
  ASSUME NEW h, NEW reply \in DnsReplies(h)
  PROVE  ResolveNaptr(reply).host \in {None, h}
<1> DEFINE found == {i \in DOMAIN reply.answers : NamesSmp(reply.answers[i])}
<1>1. CASE found = {}
  BY <1>1 DEF ResolveNaptr
<1>2. ASSUME NEW i \in found PROVE reply.answers[i].host = h /\ i = 2
  BY <1>2 DEF DnsReplies, NamesSmp
<1>3. CASE found # {}
  <2>1. found = {2} /\ reply.answers[2].host = h
    BY <1>2, <1>3
  <2>2. FirstOf({2}) = 2
    BY DEF FirstOf
  <2>3. reply.answers[FirstOf(found)].host = h
    BY <2>1, <2>2
  <2> HIDE DEF found
  <2>4. QED
    BY <2>3 DEF ResolveNaptr, found
<1>4. QED
  BY <1>1, <1>3

LEMMA LookupInit == Init => LookupInv
<1>1. At(<<>>, "Address") = {}
  BY DEF At
<1>2. ServiceInfo(<<>>).url = None
  BY <1>1, NoAddress
<1>3. QED
  BY <1>2 DEF Init, LookupInv, LookupTyped, HostsListed, EndpointCurrentAndPaired, Info, Phases

LEMMA LookupTypedNext ==
  ASSUME CallsTyped, LookupTyped, [Next]_vars PROVE LookupTyped'
<1>1. at' \in [Calls -> Phases]
  BY TypedNext DEF CallsTyped
<1>2. DOMAIN metadata' = Calls /\ DOMAIN host' = Calls /\ DOMAIN listed' = Calls
  BY DEF LookupTyped, Next, Handle, Call, Resolve, FetchGroup, MetadataFails, FetchMetadata,
         Backoff, Repost, Conclude, PostFails, Move, Accept, vars, call_vars, Ends, Return, Continue
<1>3. QED
  BY <1>1, <1>2 DEF LookupTyped

LEMMA HostsNext ==
  ASSUME CallsTyped, LookupInv, [Next]_vars PROVE HostsListed'
<1> USE DEF LookupInv, LookupTyped, HostsListed, Phases, Ends, Return, Continue
<1>2. ASSUME NEW c \in Calls, Call(c) PROVE HostsListed'
  BY <1>2 DEF Call
<1>3. ASSUME NEW c \in Calls, Resolve(c) PROVE HostsListed'
  <2>1. PICK reply \in DnsReplies(sml) :
          LET answered == ResolveNaptr(reply)
          IN \/ answered.host = None /\ Return(c, Unresolved(c, answered.raised))
             \/ /\ answered.host # None /\ tool[c] = "resolve_peppol_dns"
                /\ Return(c, "registered")
             \/ /\ answered.host # None /\ tool[c] # "resolve_peppol_dns"
                /\ at' = [at EXCEPT ![c] =
                     IF tool[c] = "peppol_get_service_endpoint" THEN "metadata" ELSE "group"]
                /\ host' = [host EXCEPT ![c] = answered.host]
                /\ UNCHANGED <<result, metadata>>
    BY <1>3 DEF Resolve
  <2>2. ResolveNaptr(reply).host \in {None, sml}
    BY ResolvesListed
  <2>3. sml' = sml /\ listed' = listed /\ at[c] = "dns" /\ sml \in listed[c]
    BY <1>3 DEF Resolve
  <2>4. CASE Return(c, "registered") \/ Return(c, Unresolved(c, ResolveNaptr(reply).raised))
    BY <2>3, <2>4
  <2>5. CASE /\ ResolveNaptr(reply).host # None
             /\ at' = [at EXCEPT ![c] =
                  IF tool[c] = "peppol_get_service_endpoint" THEN "metadata" ELSE "group"]
             /\ host' = [host EXCEPT ![c] = ResolveNaptr(reply).host]
             /\ metadata' = metadata
    BY <2>2, <2>3, <2>5
  <2>6. QED
    BY <2>1, <2>4, <2>5
<1>4. ASSUME NEW c \in Calls, FetchGroup(c) PROVE HostsListed'
  BY <1>4 DEF FetchGroup
<1>5. ASSUME NEW c \in Calls, FetchMetadata(c) PROVE HostsListed'
  <2>1. /\ sml' = sml /\ listed' = listed
        /\ at' = [at EXCEPT ![c] = "done"] \/ at' = [at EXCEPT ![c] = "post"]
        /\ \A d \in Calls \ {c} : host'[d] = host[d] /\ metadata'[d] = metadata[d]
        /\ at[c] = "metadata"
    BY <1>5 DEF FetchMetadata
  <2>2. QED
    BY <2>1
<1>6. ASSUME NEW c \in Calls, MetadataFails(c) \/ Conclude(c) \/ PostFails(c) PROVE HostsListed'
  BY <1>6 DEF MetadataFails, Conclude, PostFails
<1>7. ASSUME NEW c \in Calls, Backoff(c) \/ Repost(c) PROVE HostsListed'
  BY <1>7 DEF Backoff, Repost
<1>8. CASE Move
  BY <1>8 DEF Move, call_vars
<1>9. ASSUME (\E r \in wire : Accept(r)) \/ UNCHANGED vars PROVE HostsListed'
  BY <1>9 DEF Accept, vars, call_vars
<1>10. QED
  BY <1>2, <1>3, <1>4, <1>5, <1>6, <1>7, <1>8, <1>9 DEF Next, Handle

LEMMA EndpointNext ==
  ASSUME CallsTyped, LookupInv, [Next]_vars PROVE EndpointCurrentAndPaired'
<1> USE DEF LookupInv, LookupTyped, EndpointCurrentAndPaired, Info, Ends, Return, Continue
<1>1. ServiceInfo(<<>>).url = None
  <2>1. At(<<>>, "Address") = {}
    BY DEF At
  <2>2. QED
    BY <2>1, NoAddress
<1>2. ASSUME NEW c \in Calls, FetchMetadata(c) PROVE EndpointCurrentAndPaired'
  <2>1. PICK doc \in MetadataDocs(host[c]) :
          \/ metadata' = [metadata EXCEPT ![c] = doc]
          \/ metadata' = [metadata EXCEPT ![c] = <<>>]
    BY <1>2 DEF FetchMetadata
  <2>2. host[c] \in listed[c] \ {None} /\ listed' = listed
    BY <1>2 DEF FetchMetadata, HostsListed
  <2>3. ServiceInfo(doc).url # None =>
          \E e \in Published(host[c]) :
            /\ ServiceInfo(doc).url = e.url
            /\ Addressed(doc) => ServiceInfo(doc).profile = e.profile
    BY InfoPublished
  <2>4. QED
    BY <1>1, <2>1, <2>2, <2>3
<1>3. ASSUME NEW c \in Calls, Call(c) PROVE EndpointCurrentAndPaired'
  <2>1. /\ metadata[c] = <<>> /\ (metadata' = metadata \/ metadata' = [metadata EXCEPT ![c] = <<>>])
        /\ \A d \in Calls \ {c} : listed'[d] = listed[d]
    BY <1>3 DEF Call, HostsListed
  <2>2. QED
    BY <1>1, <2>1
<1>4. ASSUME \A d \in Calls : listed[d] \subseteq listed'[d],
             metadata' = metadata \/ \E c \in Calls : metadata' = [metadata EXCEPT ![c] = <<>>]
      PROVE  EndpointCurrentAndPaired'
  BY <1>1, <1>4
<1>5. ASSUME NEW c \in Calls,
             \/ Resolve(c) \/ FetchGroup(c) \/ MetadataFails(c)
             \/ Backoff(c) \/ Repost(c) \/ Conclude(c) \/ PostFails(c)
      PROVE  EndpointCurrentAndPaired'
  <2>1. listed' = listed /\ (metadata' = metadata \/ metadata' = [metadata EXCEPT ![c] = <<>>])
    BY <1>5 DEF Resolve, FetchGroup, MetadataFails, Backoff, Repost, Conclude, PostFails
  <2>2. QED
    BY <1>4, <2>1
<1>6. ASSUME Move \/ (\E r \in wire : Accept(r)) \/ UNCHANGED vars
      PROVE  EndpointCurrentAndPaired'
  <2>1. metadata' = metadata /\ \A d \in Calls : listed[d] \subseteq listed'[d]
    BY <1>6 DEF Move, Accept, vars, call_vars
  <2>2. QED
    BY <1>4, <2>1
<1>7. QED
  BY <1>2, <1>3, <1>5, <1>6 DEF Next, Handle

\* The endpoint a tool reports or posts to was published by an SMP that was listed at
\* some time since the call began, URL and profile together if the document gives each
\* endpoint an address, however often the participant moves (resolve_naptr, _parse_service_metadata, transmit).
THEOREM EndpointsWerePublished == Spec => []EndpointCurrentAndPaired
<1>1. Init => CallsTyped /\ LookupInv
  BY TypedInit, LookupInit
<1>2. CallsTyped /\ LookupInv /\ [Next]_vars => CallsTyped' /\ LookupInv'
  BY TypedNext, LookupTypedNext, HostsNext, EndpointNext DEF LookupInv
<1>3. LookupInv => EndpointCurrentAndPaired
  BY DEF LookupInv
<1>4. QED
  BY <1>1, <1>2, <1>3, PTL DEF Spec
-----------------------------------------------------------------------------
(* Signed messages *)

\* The parts of a message, spelled out.
Header(c) ==
  [message_id |-> c, sender_id |-> "sender", receiver_id |-> "receiver",
   service |-> "billing", action |-> "invoice", href |-> InvoiceCid]
References(c) ==
  <<[uri |-> "#Body", digest |-> [empty |-> TRUE]],
    [uri |-> "#Messaging", digest |-> Header(c)],
    [uri |-> InvoiceCid, digest |-> Gzip(Invoice(c))]>>
Security(c) ==
  [token |-> "key", refs |-> References(c), value |-> [by |-> "key", over |-> References(c)]]
Soap(c) == [messaging |-> Header(c), body |-> [empty |-> TRUE], security |-> Security(c)]
Part(c) == [cid |-> InvoiceCid, content |-> Gzip(Invoice(c))]

LEMMA ThreeElements ==
  ASSUME NEW a, NEW b, NEW d, NEW f, f = [i \in 1..3 |-> f[i]], f[1] = a, f[2] = b, f[3] = d
  PROVE  f = <<a, b, d>>
<1> DEFINE g == <<a, b, d>>
<1>1. g = [i \in 1..3 |-> g[i]] /\ g[1] = a /\ g[2] = b /\ g[3] = d
  OBVIOUS
<1> HIDE DEF g
<1>2. f = g
  BY <1>1
<1>3. QED
  BY <1>2 DEF g

\* What sign_as4_message covers: body, header and the invoice.
LEMMA DigestsTaken ==
  ASSUME NEW c, NEW soap, soap.messaging = Header(c), soap.body = [empty |-> TRUE]
  PROVE  Digests(soap, <<Part(c)>>, <<"#Body", "#Messaging", InvoiceCid>>) = References(c)
<1>1. /\ Covered(soap, <<Part(c)>>, "#Body") = [empty |-> TRUE]
      /\ Covered(soap, <<Part(c)>>, "#Messaging") = Header(c)
  BY DEF Covered
<1>2. Covered(soap, <<Part(c)>>, InvoiceCid) = Gzip(Invoice(c))
  <2>1. {i \in DOMAIN <<Part(c)>> : <<Part(c)>>[i].cid = InvoiceCid} = {1}
    BY DEF Part
  <2>2. (CHOOSE i \in {1} : \A j \in {1} : j <= i) = 1
    OBVIOUS
  <2>3. <<Part(c)>>[1].content = Gzip(Invoice(c))
    BY DEF Part
  <2>4. InvoiceCid # "#Body" /\ InvoiceCid # "#Messaging"
    BY DEF InvoiceCid
  <2>5. QED
    BY <2>1, <2>2, <2>3, <2>4 DEF Covered
<1> DEFINE uris == <<"#Body", "#Messaging", InvoiceCid>>
           digests == Digests(soap, <<Part(c)>>, uris)
<1>3. DOMAIN uris = 1..3 /\ uris[1] = "#Body" /\ uris[2] = "#Messaging" /\ uris[3] = InvoiceCid
  OBVIOUS
<1> HIDE DEF uris
<1>4. digests = [i \in 1..3 |->
                   [uri |-> uris[i], digest |-> Covered(soap, <<Part(c)>>, uris[i])]]
  BY <1>3 DEF Digests
<1> HIDE DEF digests
<1> DEFINE a == [uri |-> "#Body", digest |-> [empty |-> TRUE]]
           b == [uri |-> "#Messaging", digest |-> Header(c)]
           d == [uri |-> InvoiceCid, digest |-> Gzip(Invoice(c))]
<1>5. digests[1] = a /\ digests[2] = b /\ digests[3] = d
  <2>1. digests[1] = [uri |-> uris[1], digest |-> Covered(soap, <<Part(c)>>, uris[1])]
    BY <1>4
  <2>2. digests[2] = [uri |-> uris[2], digest |-> Covered(soap, <<Part(c)>>, uris[2])]
    BY <1>4
  <2>3. digests[3] = [uri |-> uris[3], digest |-> Covered(soap, <<Part(c)>>, uris[3])]
    BY <1>4
  <2>4. QED
    BY <1>1, <1>2, <1>3, <2>1, <2>2, <2>3
<1>6. digests = References(c)
  <2>1. References(c) = <<a, b, d>>
    BY DEF References
  <2>2. digests = [i \in 1..3 |-> digests[i]]
    BY <1>4
  <2> HIDE DEF a, b, d
  <2>3. QED
    BY <1>5, <2>1, <2>2, ThreeElements
<1>7. QED
  BY <1>6 DEF digests, uris

LEMMA MessageLayout ==
  ASSUME NEW c
  PROVE  Message(c) = <<[cid |-> None, content |-> Soap(c)], Part(c)>>
<1> DEFINE soap == Envelope(c, "sender", "receiver", "invoice", "billing")
<1>1. soap = [messaging |-> Header(c), body |-> [empty |-> TRUE], security |-> None]
  BY DEF Envelope, Header
<1> HIDE DEF soap
<1>2. [i \in DOMAIN <<Part(c)>> |-> <<Part(c)>>[i].cid] = <<InvoiceCid>>
  BY DEF Part
<1>3. <<"#Body", "#Messaging">> \o <<InvoiceCid>> = <<"#Body", "#Messaging", InvoiceCid>>
  <2> DEFINE f == <<"#Body", "#Messaging">> \o <<InvoiceCid>>
  <2>1. f = [i \in 1..3 |-> f[i]] /\ f[1] = "#Body" /\ f[2] = "#Messaging" /\ f[3] = InvoiceCid
    OBVIOUS
  <2> HIDE DEF f
  <2>2. f = <<"#Body", "#Messaging", InvoiceCid>>
    BY <2>1, ThreeElements
  <2>3. QED
    BY <2>2 DEF f
<1>4. Digests(soap, <<Part(c)>>, <<"#Body", "#Messaging", InvoiceCid>>) = References(c)
  BY <1>1, DigestsTaken
<1>5. Sign(soap, <<Part(c)>>, "key") = [soap EXCEPT !.security = Security(c)]
  BY <1>2, <1>3, <1>4 DEF Sign, Security
<1>6. [soap EXCEPT !.security = Security(c)] = Soap(c)
  <2>1. ASSUME NEW m, NEW b, NEW x, NEW y
        PROVE  [[messaging |-> m, body |-> b, security |-> x] EXCEPT !.security = y]
                 = [messaging |-> m, body |-> b, security |-> y]
    OBVIOUS
  <2>2. QED
    BY <1>1, <2>1, Zenon DEF Soap
<1>7. QED
  BY <1>5, <1>6 DEF soap, Message, Multipart, Part

\* A signature that verifies is over the header and the invoice as they were sent.
LEMMA VerifiedParts ==
  ASSUME NEW c, NEW soap, NEW attachments, soap.security = Security(c),
         Verify(soap, attachments).valid
  PROVE  /\ soap.messaging = Header(c)
         /\ Covered(soap, attachments, InvoiceCid) = Gzip(Invoice(c))
         /\ Verify(soap, attachments).certificate = "key"
<1> DEFINE uris == [i \in DOMAIN References(c) |-> References(c)[i].uri]
<1>1. Security(c).refs = References(c) /\ Security(c).token = "key"
  BY DEF Security
<1>2. Security(c) # None
  BY <1>1 DEF Verify
<1>3. References(c) = Digests(soap, attachments, uris)
  BY <1>1, <1>2 DEF Verify
<1>4. DOMAIN References(c) = 1..3 /\ uris[2] = "#Messaging" /\ uris[3] = InvoiceCid
  BY DEF References
<1>5. /\ References(c)[2].digest = Covered(soap, attachments, "#Messaging")
      /\ References(c)[3].digest = Covered(soap, attachments, InvoiceCid)
  BY <1>3, <1>4 DEF Digests
<1>6. References(c)[2].digest = Header(c) /\ References(c)[3].digest = Gzip(Invoice(c))
  BY DEF References
<1>7. Verify(soap, attachments).certificate = "key"
  BY <1>1, <1>2 DEF Verify
<1>8. QED
  BY <1>5, <1>6, <1>7 DEF Covered

\* A message of two parts whose security header came through: when the signature
\* verifies, the receiver reads what was sent.
LEMMA WholeWhenVerified ==
  ASSUME NEW c \in Calls, NEW m, Len(m) = 2,
         m[1].content.security = Security(c), m[2].cid = InvoiceCid,
         Receive(m).signature_valid
  PROVE  /\ Receive(m).message_id = c
         /\ Receive(m).document = c
         /\ Receive(m).certificate = "key"
<1> DEFINE soap == m[1].content
           attachments == Attachments(m)
<1>1. None # InvoiceCid /\ None # Invoice(c)
  BY MessageAssumption
<1>2. attachments = [i \in {2} |-> m[i]]
  <2>1. {j \in 2..Len(m) : m[j].cid # None} = {2}
    BY <1>1
  <2>2. QED
    BY <2>1 DEF Attachments
<1> HIDE DEF soap, attachments
<1>3. Covered(soap, attachments, InvoiceCid) = m[2].content
  <2>1. {i \in DOMAIN attachments : attachments[i].cid = InvoiceCid} = {2}
    BY <1>2
  <2>2. (CHOOSE i \in {2} : \A j \in {2} : j <= i) = 2
    OBVIOUS
  <2>3. attachments[2].content = m[2].content
    BY <1>2
  <2>4. InvoiceCid # "#Body" /\ InvoiceCid # "#Messaging"
    BY DEF InvoiceCid
  <2>5. QED
    BY <2>1, <2>2, <2>3, <2>4 DEF Covered
<1>4. Verify(soap, attachments).valid
  BY DEF Receive, soap, attachments
<1>5. /\ soap.messaging = Header(c)
      /\ m[2].content = Gzip(Invoice(c))
      /\ Verify(soap, attachments).certificate = "key"
  BY <1>3, <1>4, VerifiedParts DEF soap
<1>6. FirstAttachment(attachments) = m[2] /\ DOMAIN attachments = {2}
  BY <1>2 DEF FirstAttachment
<1>7. Payload(attachments).document = c
  BY <1>1, <1>5, <1>6 DEF Payload, Gzip, Invoice
<1>8. /\ Receive(m).message_id = soap.messaging.message_id
      /\ Receive(m).document = Payload(attachments).document
      /\ Receive(m).certificate = Verify(soap, attachments).certificate
  BY DEF Receive, soap, attachments
<1>9. QED
  BY <1>5, <1>7, <1>8 DEF Header

LEMMA HeaderDamaged ==
  ASSUME NEW c, NEW x, NEW m, m = [Message(c) EXCEPT ![1].content = x]
  PROVE  Len(m) = 2 /\ m[1].content = x /\ m[2].cid = InvoiceCid
BY MessageLayout DEF Part

\* Whatever became of a message on its way: when its signature verifies, the receiver
\* reads what was sent.
LEMMA VerifiedWhole ==
  ASSUME NEW c \in Calls, NEW m \in Transported(Message(c)), ~Raises(m),
         Receive(m).signature_valid
  PROVE  /\ Receive(m).message_id = c
         /\ Receive(m).document = c
         /\ Receive(m).certificate = "key"
<1>1. /\ Len(Message(c)) = 2 /\ Message(c)[1].content = Soap(c)
      /\ Message(c)[2] = Part(c) /\ Part(c).cid = InvoiceCid
      /\ Soap(c).security = Security(c) /\ Soap(c).messaging = Header(c)
  BY MessageLayout DEF Part, Soap
<1>2. m[1].content.messaging # None /\ m # <<>>
  BY DEF Raises
<1>3. Verify(m[1].content, Attachments(m)).valid
  BY DEF Receive
<1>4. CASE m = Message(c)
  BY <1>1, <1>4, WholeWhenVerified
<1>5. CASE m = <<Message(c)[1]>>
  <2>1. DOMAIN Attachments(m) = {} /\ m[1].content = Soap(c)
    BY <1>1, <1>5 DEF Attachments
  <2>2. Covered(Soap(c), Attachments(m), InvoiceCid) = None
    BY <2>1 DEF Covered, InvoiceCid
  <2>3. Gzip(Invoice(c)) = None
    BY <1>1, <1>3, <2>1, <2>2, VerifiedParts
  <2>4. QED
    BY <2>3, MessageAssumption
<1>6. CASE m = [Message(c) EXCEPT ![1].content = [Soap(c) EXCEPT !.messaging = None]]
  <2>1. [Soap(c) EXCEPT !.messaging = None].messaging = None
    BY DEF Soap
  <2>2. m[1].content.messaging = None
    BY <1>6, <2>1, HeaderDamaged
  <2>3. QED
    BY <1>2, <2>2
<1>7. CASE m = [Message(c) EXCEPT ![1].content = [Soap(c) EXCEPT !.messaging.action = "garbled"]]
  <2>1. [Soap(c) EXCEPT !.messaging.action = "garbled"].security = Security(c)
    BY DEF Soap
  <2>2. m[1].content.security = Security(c)
    BY <1>7, <2>1, HeaderDamaged
  <2>3. Len(m) = 2 /\ m[2].cid = InvoiceCid
    BY <1>7, HeaderDamaged
  <2>4. QED
    BY <2>2, <2>3, WholeWhenVerified
<1>8. CASE m = [Message(c) EXCEPT ![1].content = [Soap(c) EXCEPT !.security = None]]
  BY <1>3, <1>8, HeaderDamaged, SMTT(30) DEF Soap, Verify
<1>9. CASE m = [Message(c) EXCEPT ![1].content = [Soap(c) EXCEPT !.security.value = None]]
  <2>1. [Soap(c) EXCEPT !.security.value = None].security.value = None
    BY DEF Soap, Security
  <2>2. m[1].content.security.value = None
    BY <1>9, <2>1, HeaderDamaged
  <2>3. QED
    BY <1>3, <2>2 DEF Verify
<1>10. CASE m = [Message(c) EXCEPT ![2].content.xml.document = "garbled"]
  <2>1. Len(m) = 2 /\ m[1].content.security = Security(c) /\ m[2].cid = InvoiceCid
    BY <1>10, MessageLayout DEF Soap, Part
  <2>2. QED
    BY <2>1, WholeWhenVerified
<1>11. CASE m = [Message(c) EXCEPT ![2].content.form = "cut"]
  <2>1. Len(m) = 2 /\ m[1].content.security = Security(c) /\ m[2].cid = InvoiceCid
    BY <1>11, MessageLayout DEF Soap, Part
  <2>2. QED
    BY <2>1, WholeWhenVerified
<1>12. QED
  BY <1>1, <1>2, <1>4, <1>5, <1>6, <1>7, <1>8, <1>9, <1>10, <1>11 DEF Transported

\* What the receiver accepts on the strength of the signature is what was sent,
\* whatever was damaged on the way, for any number of calls (sign_as4_message,
\* verify_as4_signature, AS4InboundHandler.receive).
THEOREM VerifiedMessagesWhole == Spec => []VerifiedArrivesWhole
<1>1. Init => VerifiedArrivesWhole
  BY DEF Init, VerifiedArrivesWhole
<1>2. CopiesInv /\ VerifiedArrivesWhole /\ [Next]_vars => VerifiedArrivesWhole'
  <2> SUFFICES ASSUME CopiesInv, VerifiedArrivesWhole, [Next]_vars
               PROVE  VerifiedArrivesWhole'
    OBVIOUS
  <2>1. ASSUME NEW r \in wire, Accept(r) PROVE VerifiedArrivesWhole'
    <3>1. r.call \in Calls
      BY DEF CopiesInv, RequestsNumbered
    <3>2. PICK m \in Transported(Message(r.call)) :
            /\ ~Raises(m) /\ Receive(m).signature_valid
            /\ inbox' = inbox \cup {[request |-> r, read |-> Receive(m)]}
      BY <2>1, <3>1 DEF Accept, Readings
    <3>3. /\ Receive(m).message_id = r.call /\ Receive(m).document = r.call
          /\ Receive(m).certificate = "key"
      BY <3>1, <3>2, VerifiedWhole
    <3>4. QED
      BY <3>2, <3>3 DEF VerifiedArrivesWhole
  <2>2. CASE inbox' = inbox
    BY <2>2 DEF VerifiedArrivesWhole
  <2>3. QED
    BY <2>1, <2>2 DEF Next, Handle, Call, Resolve, FetchGroup, MetadataFails, FetchMetadata,
       Backoff, Repost, Conclude, PostFails, Move, vars, call_vars
<1>3. QED
  BY <1>1, <1>2, CopiesInit, CopiesNext, PTL DEF Spec
=============================================================================
