------------------------------ MODULE EndpointVetting ------------------------------
(***************************************************************************)
(* A caller of the Peppol library vets an endpoint: get_service_endpoint   *)
(* with verify_smp_signatures=True, then check_revocation of the           *)
(* certificate.  The certification authority (external) revokes it         *)
(* meanwhile; its responder and its list answer as they can.               *)
(***************************************************************************)
EXTENDS PeppolTrust

CONSTANTS Vettings   \* concurrent vettings

VARIABLES
  pki,      \* the PKI directory
  revoked,  \* the authority has revoked the certificate
  listed,   \* its published list says so
  sources,  \* "ocsp", "crl": what the certificate names
  phase,    \* the await each vetting is suspended at
  service,  \* the PeppolServiceInfo it got
  check,    \* the result of check_revocation, None before
  asked,    \* history: sources that were asked
  bad,      \* history: the certificate was revoked, and listed, when the check began
  vague,    \* history: the responder did not know the certificate
  stray     \* history: the signature of its answer held elements of the document's kind

history == <<asked, bad, vague, stray>>
vars == <<pki, revoked, listed, sources, phase, service, check, history>>

Host == CHOOSE h \in Allowed : TRUE
Directories ==
  {[configured |-> FALSE, files |-> {}],
   [configured |-> TRUE, files |-> {[type |-> ".txt", certificates |-> {"ca"}],
                                    [type |-> ".pem", certificates |-> {}]}],
   [configured |-> TRUE, files |-> {[type |-> ".pem", certificates |-> {"other"}]}],
   [configured |-> TRUE, files |-> {[type |-> ".crt", certificates |-> {"other", "ca"}]}]}
NotVerified == [valid |-> FALSE, chain |-> None]

Init ==
  /\ pki \in Directories
  /\ revoked = FALSE
  /\ listed = FALSE
  /\ sources \in SUBSET {"ocsp", "crl"}
  /\ phase = [v \in Vettings |-> "metadata"]
  /\ service = [v \in Vettings |-> [info |-> NoInfo, verified |-> NotVerified]]
  /\ check = [v \in Vettings |-> None]
  /\ asked = [v \in Vettings |-> {}]
  /\ bad = [v \in Vettings |-> FALSE]
  /\ vague = [v \in Vettings |-> FALSE]
  /\ stray = [v \in Vettings |-> FALSE]

\* The signed metadata arrives: it is verified, then read.  What raises in the
\* verification escapes.
GetServiceEndpoint(v) ==
  /\ phase[v] = "metadata"
  /\ \E published \in MetadataDocs(Host) \ {<<>>}, tail \in BOOLEAN :
     \E doc \in DamagedMetadata(SignedMetadata(published, tail)) :
       IF VerifyRaises(doc)
       THEN /\ phase' = [phase EXCEPT ![v] = "raised"]
            /\ UNCHANGED <<service, stray>>
       ELSE /\ phase' = [phase EXCEPT ![v] = "vetted"]
            /\ service' = [service EXCEPT ![v] =
                 [info |-> ServiceInfo(Iterated(doc)),
                  verified |-> VerifySmpSignature(doc, "ca", pki)]]
            /\ stray' = [stray EXCEPT ![v] = (Inside(doc) # <<>>)]
  /\ UNCHANGED <<pki, revoked, listed, sources, check, asked, bad, vague>>

Ask(v, source) ==
  /\ phase' = [phase EXCEPT ![v] = source]
  /\ asked' = [asked EXCEPT ![v] = @ \cup {source}]
  /\ UNCHANGED check
Answer(v, result) ==
  /\ phase' = [phase EXCEPT ![v] = "done"]
  /\ check' = [check EXCEPT ![v] = result]
  /\ UNCHANGED asked
\* The list, when the certificate names one.
AskCrl(v) == IF "crl" \in sources THEN Ask(v, "crl") ELSE Answer(v, Unchecked(None))

CheckRevocation(v) ==
  /\ phase[v] = "vetted"
  /\ IF "ocsp" \in sources THEN Ask(v, "ocsp") ELSE AskCrl(v)
  /\ bad' = [bad EXCEPT ![v] = listed]
  /\ UNCHANGED <<pki, revoked, listed, sources, service, vague, stray>>

\* Mutant of CheckOcsp: without an answer of the responder the check ends.
Bug_CheckOcsp(v) ==
  /\ phase[v] = "ocsp"
  /\ \E answer \in {"failed", "unsuccessful", "unknown", IF revoked THEN "revoked" ELSE "good"} :
       /\ IF OcspResult(answer) = None THEN Answer(v, Unchecked(None))
          ELSE Answer(v, OcspResult(answer))
       /\ vague' = [vague EXCEPT ![v] = (answer = "unknown")]
  /\ UNCHANGED <<pki, revoked, listed, sources, service, bad, stray>>

\* The responder answers.
CheckOcsp(v) ==
  /\ phase[v] = "ocsp"
  /\ \E answer \in {"failed", "unsuccessful", "unknown", IF revoked THEN "revoked" ELSE "good"} :
       /\ IF OcspResult(answer) = None THEN AskCrl(v) ELSE Answer(v, OcspResult(answer))
       /\ vague' = [vague EXCEPT ![v] = (answer = "unknown")]
  /\ UNCHANGED <<pki, revoked, listed, sources, service, bad, stray>>

\* The list is fetched.
CheckCrl(v) ==
  /\ phase[v] = "crl"
  /\ \E answer \in {"failed", IF listed THEN "listed" ELSE "unlisted"} :
       Answer(v, CrlResult(answer))
  /\ UNCHANGED <<pki, revoked, listed, sources, service, bad, vague, stray>>

\* The authority revokes the certificate (external); later its list says so.
Revoke ==
  /\ ~revoked
  /\ revoked' = TRUE
  /\ UNCHANGED <<pki, listed, sources, phase, service, check, history>>
Publish ==
  /\ revoked /\ ~listed
  /\ listed' = TRUE
  /\ UNCHANGED <<pki, revoked, sources, phase, service, check, history>>

Next ==
  \/ \E v \in Vettings : GetServiceEndpoint(v) \/ CheckRevocation(v) \/ CheckOcsp(v) \/ CheckCrl(v)
  \/ Revoke \/ Publish

Spec == Init /\ [][Next]_vars
-----------------------------------------------------------------------------
(* Properties *)

\* What is read from an answer whose signature is valid is what is read from a
\* document the SMP published, whatever damaged the answer on the way, though it is
\* parsed once for the signature and once for the endpoint.  The excuse is a
\* signature that holds elements the reader looks for: the verifier takes the
\* signature out, the reader does not.
VerifiedAsPublished ==
  \A v \in Vettings : service[v].verified.valid /\ ~stray[v] =>
    \E d \in MetadataDocs(Host) : service[v].info = ServiceInfo(d)

\* A certificate that was revoked and on the list when the check began is never
\* reported as not revoked, through failures of responder and list and the change
\* from one to the other, and a check that ends without a verdict has asked every
\* source the certificate names.  The excuse is a responder that does not know the
\* certificate, whose answer counts as "not revoked".
RevocationTold ==
  \A v \in Vettings : check[v] # None =>
    IF check[v].checked THEN bad[v] => check[v].revoked \/ vague[v]
    ELSE asked[v] = sources

\* "This never raises or blocks parsing": violated, the verification raises on a
\* commented document and on one whose certificate is no base64.
VerificationNeverRaises == \A v \in Vettings : phase[v] # "raised"
=============================================================================
