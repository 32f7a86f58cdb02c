-------------------------------- MODULE SmpLookup --------------------------------
(***************************************************************************)
(* What a Peppol lookup reads (peppol/__init__.py): the U-NAPTR answer of   *)
(* the DNS-over-HTTPS resolver, the service group and the service metadata *)
(* of an SMP.                                                              *)
(*                                                                         *)
(* An XML document is the sequence of its elements and comments in         *)
(* document order, each with the text or attribute the parser looks at;    *)
(* one that is no XML is the empty sequence, in which the code finds just  *)
(* as little.  The parser keeps comments, and their tag is not a string:   *)
(* reaching one raises a TypeError.  The service group only yields names   *)
(* of document types: nothing depends on its contents.                     *)
(***************************************************************************)
EXTENDS Naturals, Sequences

CONSTANTS
  Allowed,  \* SMP hosts on the allowlist
  None      \* Python's None, and a missing text

FirstOf(positions) == CHOOSE i \in positions : \A j \in positions : i <= j
LastOf(positions) == CHOOSE i \in positions : \A j \in positions : j <= i
At(doc, tag) == {i \in DOMAIN doc : doc[i].tag = tag}

FirstText(doc, tag) ==
  IF At(doc, tag) = {} THEN None ELSE doc[FirstOf(At(doc, tag))].text
LastText(doc, tag) ==
  IF At(doc, tag) = {} THEN None ELSE doc[LastOf(At(doc, tag))].text
-----------------------------------------------------------------------------
(* Identifiers *)

\* PeppolParticipantId.parse of what the adapter returns: a bare number has no
\* scheme, and scheme and value have their own characters.
Parses(identifier) == identifier = "qualified"
-----------------------------------------------------------------------------
(* DNS *)

\* A record that names an SMP: NAPTR, service META:SMP, a URI with a host.
NamesSmp(record) ==
  record.type = "NAPTR" /\ record.service = "META:SMP" /\ record.host # None

\* resolve_naptr: the host of the first record that names an SMP, None when the
\* status is not 0 or there is no such record; it raises when the query fails or
\* the host is not allowed.
ResolveNaptr(reply) ==
  LET found == {i \in DOMAIN reply.answers : NamesSmp(reply.answers[i])}
      host == IF reply.status # 0 \/ found = {} THEN None
              ELSE reply.answers[FirstOf(found)].host
      raised == ~reply.success \/ (host # None /\ host \notin Allowed)
  IN [raised |-> raised, host |-> IF raised THEN None ELSE host]
-----------------------------------------------------------------------------
(* SMP documents *)

NoInfo == [url |-> None, profile |-> None, process |-> None,
           certificate |-> None, redirect |-> None]

\* Mutant of ServiceInfo: the profile is taken from the first endpoint.
Bug_ServiceInfo(doc) ==
  IF At(doc, "Redirect") # {}
  THEN [NoInfo EXCEPT !.redirect = FirstText(doc, "Redirect")]
  ELSE [url |-> LastText(doc, "Address"),
        profile |-> FirstText(doc, "Endpoint"),
        process |-> FirstText(doc, "ProcessIdentifier"),
        certificate |-> FirstText(doc, "Certificate"),
        redirect |-> None]

\* _parse_service_metadata: a redirect is reported and not followed; otherwise
\* the URL and the profile are the last of the document, the process and the
\* certificate the first.
ServiceInfo(doc) ==
  IF At(doc, "Redirect") # {}
  THEN [NoInfo EXCEPT !.redirect = FirstText(doc, "Redirect")]
  ELSE [url |-> LastText(doc, "Address"),
        profile |-> LastText(doc, "Endpoint"),
        process |-> FirstText(doc, "ProcessIdentifier"),
        certificate |-> FirstText(doc, "Certificate"),
        redirect |-> None]
MetadataRaises(doc) ==
  \E i \in At(doc, "comment") : \A j \in At(doc, "Redirect") : i < j
-----------------------------------------------------------------------------
(* What resolvers and SMPs answer (external) *)

\* Records of a DoH answer, for the host the SML has listed (None: no record).
DnsReplies(listed) ==
  LET other == [type |-> "TXT", service |-> "META:SMP", host |-> None]
      foreign == [type |-> "NAPTR", service |-> "other", host |-> None]
      smp == [type |-> "NAPTR", service |-> "META:SMP", host |-> listed]
  IN {[success |-> FALSE, status |-> 0, answers |-> <<>>]} \cup
     IF listed = None
     THEN {[success |-> TRUE, status |-> 3, answers |-> <<>>],
           [success |-> TRUE, status |-> 0, answers |-> <<other>>]}
     ELSE {[success |-> TRUE, status |-> 0, answers |-> <<foreign, smp>>]}

\* The elements of one process with one endpoint, with or without its address.
Element(tag, text) == [tag |-> tag, text |-> text]
Described(endpoint) ==
  <<Element("ProcessIdentifier", endpoint.process),
    Element("Endpoint", endpoint.profile),
    Element("Address", endpoint.url),
    Element("Certificate", endpoint.certificate)>>
Unaddressed(endpoint) ==
  <<Element("ProcessIdentifier", endpoint.process),
    Element("Endpoint", endpoint.profile),
    Element("Certificate", endpoint.certificate)>>

\* Each endpoint of a document has an address.
Addressed(doc) == \A i \in At(doc, "Endpoint") : i + 1 \in At(doc, "Address")

\* The endpoints a host has for the participant, one per process.
Published(host) ==
  {[url |-> <<host, p>>, profile |-> p, process |-> p, certificate |-> p] :
     p \in {"billing", "ordering"}}
EndpointOf(host, process) == CHOOSE e \in Published(host) : e.process = process

\* Metadata documents: one process or two, each with an address or without, a
\* redirect, a commented document, one that is no XML.
MetadataDocs(host) ==
  LET billing == EndpointOf(host, "billing")
      ordering == EndpointOf(host, "ordering")
  IN {Described(billing), Described(billing) \o Described(ordering),
      Described(billing) \o Unaddressed(ordering),
      Unaddressed(billing) \o Described(ordering), Unaddressed(billing),
      <<Element("Redirect", host)>>, <<>>, <<Element("comment", None)>> \o Described(billing)}
=============================================================================
