-------------------------------- MODULE As4Message --------------------------------
(***************************************************************************)
(* AS4 messages (peppol/transport/): the ebMS3 envelope, its WS-Security   *)
(* signature, the MIME body, what the receiving side makes of it, and the  *)
(* signals it answers with.                                                *)
(*                                                                         *)
(* SHA-256 and RSA are library code: a digest is the content it covers and *)
(* a signature value the key and the references it covers.  A certificate  *)
(* is named like its key.                                                  *)
(***************************************************************************)
EXTENDS Naturals, Sequences

CONSTANT None  \* Python's None, a missing element

InvoiceCid == "invoice@peppol.eu"

\* AS4MessageEnvelope.build.
Envelope(id, sender, receiver, doctype, process) ==
  [messaging |-> [message_id |-> id, sender_id |-> sender, receiver_id |-> receiver,
                  service |-> process, action |-> doctype, href |-> InvoiceCid],
   body |-> [empty |-> TRUE],
   security |-> None]

\* The content a reference of the signature covers; the last attachment wins
\* where two have one Content-Id.
Covered(soap, attachments, uri) ==
  LET at == {i \in DOMAIN attachments : attachments[i].cid = uri}
      last == CHOOSE i \in at : \A j \in at : j <= i
  IN CASE uri = "#Body" -> soap.body
       [] uri = "#Messaging" -> soap.messaging
       [] OTHER -> IF at = {} THEN None ELSE attachments[last].content

Digests(soap, attachments, uris) ==
  [i \in DOMAIN uris |-> [uri |-> uris[i], digest |-> Covered(soap, attachments, uris[i])]]

\* Mutant of Sign: the attachments are left out of the references.
Bug_Sign(soap, attachments, key) ==
  LET refs == Digests(soap, attachments, <<"#Body", "#Messaging">>)
  IN [soap EXCEPT !.security =
        [token |-> key, refs |-> refs, value |-> [by |-> key, over |-> refs]]]

\* sign_as4_message: body, messaging header and every attachment.
Sign(soap, attachments, key) ==
  LET cids == [i \in DOMAIN attachments |-> attachments[i].cid]
      refs == Digests(soap, attachments, <<"#Body", "#Messaging">> \o cids)
  IN [soap EXCEPT !.security =
        [token |-> key, refs |-> refs, value |-> [by |-> key, over |-> refs]]]

\* verify_as4_signature: every reference matches, then the value verifies.
Verify(soap, attachments) ==
  LET s == soap.security
  IN IF s = None THEN [valid |-> FALSE, certificate |-> None]
     ELSE [valid |-> /\ s.value # None
                     /\ s.refs = Digests(soap, attachments, [i \in DOMAIN s.refs |-> s.refs[i].uri])
                     /\ s.value = [by |-> s.token, over |-> s.refs],
           certificate |-> s.token]
-----------------------------------------------------------------------------
(* MIME, compression, SBDH *)

Gzip(xml) == [form |-> "gzip", xml |-> xml]

\* _apply_message_signature and _build_multipart_body: the parts of the request.
Multipart(soap, payload, key) ==
  LET invoice == [cid |-> InvoiceCid, content |-> payload]
  IN <<[cid |-> None, content |-> Sign(soap, <<invoice>>, key)], invoice>>

\* parse_mime_multipart: the first part, and the others that have a Content-Id.
\* They keep their place in the message.
Attachments(wire) == [i \in {j \in 2..Len(wire) : wire[j].cid # None} |-> wire[i]]
FirstAttachment(attachments) ==
  attachments[CHOOSE i \in DOMAIN attachments : \A j \in DOMAIN attachments : i <= j]

\* gzip.decompress of the first attachment: what is not gzip is taken as it is;
\* what is gzip and cut off raises an EOFError, which nothing catches.
CutOff(attachments) ==
  DOMAIN attachments # {} /\ FirstAttachment(attachments).content.form = "cut"

\* _parse_sbdh and _extract_business_document of a payload that is XML.
Payload(attachments) ==
  IF DOMAIN attachments = {} \/ FirstAttachment(attachments).content.xml = None
  THEN [document |-> None, mls_to |-> None]
  ELSE LET xml == FirstAttachment(attachments).content.xml
       IN [document |-> xml.document,
           mls_to |-> IF xml.wrapped THEN xml.mls_to ELSE None]

\* AS4InboundHandler.receive: a bad signature is reported, not raised.
Raises(wire) ==
  \/ wire = <<>>                               \* no MIME multipart message
  \/ wire[1].content.messaging = None          \* no XML, or no eb:UserMessage
  \/ CutOff(Attachments(wire))
Receive(wire) ==
  LET soap == wire[1].content
      attachments == Attachments(wire)
      verified == Verify(soap, attachments)
      payload == Payload(attachments)
  IN [message_id |-> soap.messaging.message_id,
      sender_id |-> soap.messaging.sender_id,
      receiver_id |-> soap.messaging.receiver_id,
      document |-> payload.document, mls_to |-> payload.mls_to,
      signature_valid |-> verified.valid, certificate |-> verified.certificate]
-----------------------------------------------------------------------------
(* Signals *)

\* build_receipt_envelope and build_error_envelope.
Receipt(ref, digest) ==
  [comment |-> FALSE, error |-> FALSE, signal |-> TRUE, ref |-> ref, nri |-> digest]
ErrorSignal(ref) ==
  [comment |-> FALSE, error |-> TRUE, signal |-> TRUE, ref |-> ref, nri |-> None]

\* Mutant of ReceiptVerdict: the error element is not looked for.
Bug_ReceiptVerdict(answer) ==
  IF answer.comment THEN "TypeError"
  ELSE IF answer.signal THEN "receipt" ELSE "PlatformError"

\* AS4ReceiptHandler.parse: an Error anywhere, or no SignalMessage, is a
\* PlatformError, and so is no XML at all (no signal either); a comment in the
\* way of the search raises a TypeError.
ReceiptVerdict(answer) ==
  IF answer.comment THEN "TypeError"
  ELSE IF answer.signal /\ ~answer.error THEN "receipt" ELSE "PlatformError"
=============================================================================
