------------------------------- MODULE LocalSigning -------------------------------
(***************************************************************************)
(* Sessions of several threads that share one document signer              *)
(* (digital_signature.py): credentials are loaded lazily, a session signs  *)
(* and in the end cleans up.  The administrator may exchange the           *)
(* credential files meanwhile: one PKCS#12 file, or the two files of a     *)
(* Mexican CSD, one after the other.                                       *)
(*                                                                         *)
(* A canonical form is the content and the namespaces in scope it shows,   *)
(* a digest the form it covers and a signature value the key and what it   *)
(* signs.  Keys and certificates are numbered: key n belongs to            *)
(* certificate n.                                                          *)
(***************************************************************************)
EXTENDS Naturals, Sequences, FiniteSets

CONSTANTS
  Sessions,
  MaxRotations,  \* bound: exchanges of the credentials
  MaxSigns,      \* bound: documents a session signs
  None

Signers == {"XAdES", "XMLDSig", "CAdES", "Sello"}
-----------------------------------------------------------------------------
(* Documents and signatures *)

\* The element the signers look for, its Id, the rest; whether there are comments and
\* what namespaces the root declares; signatures and the attributes of a seal.
Document(element, id, data, comments, namespaces) ==
  [element |-> element, id |-> id, data |-> data, comments |-> comments,
   namespaces |-> namespaces, signatures |-> <<>>, seal |-> None]

\* _c14n keeps comments and is inclusive: it shows the namespaces that are in scope
\* where the element is, for one that stands alone only those it declares itself.
C14n(content, inherited) == [content |-> content, inherited |-> inherited]
Alone(element) == C14n(element, {})

\* _sign_bytes, and the references of the two kinds of ds:SignedInfo.
SignBytes(key, content) == [by |-> key, over |-> content]
SignedInfo(form, properties) ==
  <<[uri |-> "", digest |-> form], [uri |-> "#SignedProperties", digest |-> properties]>>
XmlDsigSignedInfo(form) == <<[uri |-> "#", digest |-> form]>>
\* The element with the Id; its name is in the namespace of the root.
Target(doc) ==
  C14n([id |-> doc.id, data |-> doc.data, comments |-> doc.comments], doc.namespaces)
\* _build_signed_properties: when it was made, by whom, under which policy.
SignedProperties(time, certificate) ==
  [time |-> time, certificate |-> certificate, policy |-> "EPES"]

\* The parts of a signature are canonicalised before they are below it and the root.
XAdES(doc, material, now) ==
  LET properties == SignedProperties(now, material.certificate)
      info == SignedInfo(C14n(doc, doc.namespaces), Alone(properties))
  IN [doc EXCEPT !.signatures = Append(doc.signatures,
        [id |-> now, info |-> info, value |-> SignBytes(material.key, Alone(info)),
         certificate |-> material.certificate, properties |-> properties])]

XmlDsig(doc, material) ==
  LET info == XmlDsigSignedInfo(Target(doc))
  IN [doc EXCEPT !.signatures = Append(doc.signatures,
        [id |-> None, info |-> info, value |-> SignBytes(material.key, Alone(info)),
         certificate |-> material.certificate, properties |-> None])]

CAdES(doc, material, now) ==
  [wrapped |-> doc, time |-> now, certificate |-> material.certificate,
   value |-> SignBytes(material.key, doc)]

\* The cadena original has the number of the certificate and no seal.
Cadena(doc) == [data |-> doc.data, number |-> "NoCertificado"]
Sello(doc, material) ==
  [doc EXCEPT !.seal = [certificate |-> material.certificate,
                        sello |-> SignBytes(material.key, Cadena(doc))]]

\* What the signer refuses: no element of the name, no Id.
Refused(signer, doc) ==
  \/ signer \in {"XMLDSig", "Sello"} /\ ~doc.element
  \/ signer = "XMLDSig" /\ doc.id = None

\* The signature of a kind of signer on a document at a time.
SignedBy(signer, doc, material, now) ==
  CASE signer = "XAdES" -> XAdES(doc, material, now)
    [] signer = "XMLDSig" -> XmlDsig(doc, material)
    [] signer = "CAdES" -> CAdES(doc, material, now)
    [] signer = "Sello" -> Sello(doc, material)

\* SelloDigitalSigner.verify.
SelloVerified(sealed) ==
  sealed.seal.sello = SignBytes(sealed.seal.certificate, Cadena(sealed))
-----------------------------------------------------------------------------
VARIABLES
  signer,     \* the kind of signer
  files,      \* the certificate and the key on disk
  rotations,  \* exchanges begun
  held,       \* the signer's _cert_info or _csd_info
  pc,         \* where each session is
  doc,        \* the document it signs
  material,   \* what it has read, or was given
  made,       \* the signed documents it returned
  error,      \* the exception it ended with, None
  swept,      \* history: another session cleaned up since sign() was called
  torn        \* history: what was read of a CSD while it was exchanged

vars == <<signer, files, rotations, held, pc, doc, material, made, error, swept, torn>>

Generations == 0..MaxRotations
Material == [certificate : Generations, key : Generations]
Documents ==
  {Document(TRUE, "id", "invoice", FALSE, {}), Document(TRUE, "id", "invoice", TRUE, {"nfe"}),
   Document(TRUE, None, "invoice", FALSE, {}), Document(FALSE, None, "invoice", FALSE, {})}
Nothing == [certificate |-> None, key |-> None]

TypeOK ==
  /\ signer \in Signers
  /\ files \in Material /\ rotations \in Generations
  /\ held \in Material \cup {Nothing}
  /\ pc \in [Sessions -> {"begin", "test", "certificate", "key", "store", "return", "sign",
                          "cleanup", "done"}]
  /\ doc \in [Sessions -> Documents]
  /\ \A s \in Sessions : pc[s] \in {"store", "sign"} => material[s] \in Material
  /\ error \in [Sessions -> {None, "ValueError", "AttributeError"}]

Init ==
  /\ signer \in Signers
  /\ files = [certificate |-> 0, key |-> 0]
  /\ rotations = 0
  /\ held \in {Nothing, [certificate |-> 0, key |-> 0]}  \* preloaded or not
  /\ pc = [s \in Sessions |-> "begin"]
  /\ doc = [s \in Sessions |-> Document(TRUE, "id", "invoice", FALSE, {})]
  /\ material = [s \in Sessions |-> Nothing]
  /\ made = [s \in Sessions |-> <<>>]
  /\ error = [s \in Sessions |-> None]
  /\ swept = [s \in Sessions |-> FALSE]
  /\ torn = {}

Go(s, to) == pc' = [pc EXCEPT ![s] = to]
\* An exception leaves sign(), and the session's finally cleans up.
Raise(s, what) ==
  /\ error' = [error EXCEPT ![s] = what]
  /\ Go(s, "cleanup")

\* sign() is called.
Begin(s) ==
  /\ pc[s] = "begin"
  /\ \E d \in Documents : doc' = [doc EXCEPT ![s] = d]
  /\ swept' = [swept EXCEPT ![s] = FALSE]
  /\ Go(s, "test")
  /\ UNCHANGED <<signer, files, rotations, held, material, made, error, torn>>

\* _get_cert_info: "if self._cert_info is None".
TestHeld(s) ==
  /\ pc[s] = "test"
  /\ Go(s, IF held = Nothing THEN "certificate" ELSE "return")
  /\ UNCHANGED <<signer, files, rotations, held, doc, material, made, error, swept, torn>>

\* load_credentials: a PKCS#12 file is read whole, of a CSD the certificate; a
\* file that is missing, broken or incomplete raises.
ReadCertificate(s) ==
  /\ pc[s] = "certificate"
  /\ \/ /\ material' = [material EXCEPT ![s] =
             IF signer = "Sello" THEN [files EXCEPT !.key = None] ELSE files]
        /\ Go(s, IF signer = "Sello" THEN "key" ELSE "store")
        /\ UNCHANGED error
     \/ Raise(s, "ValueError") /\ UNCHANGED material
  /\ UNCHANGED <<signer, files, rotations, held, doc, made, swept, torn>>

\* The key of a CSD; the loader does not compare it with the certificate.
ReadKey(s) ==
  /\ pc[s] = "key"
  /\ \/ /\ material' = [material EXCEPT ![s].key = files.key]
        /\ torn' = IF material[s].certificate = files.certificate
                      /\ files.certificate = files.key THEN torn
                   ELSE torn \cup {material'[s]}
        /\ Go(s, "store") /\ UNCHANGED error
     \/ Raise(s, "ValueError") /\ UNCHANGED <<material, torn>>
  /\ UNCHANGED <<signer, files, rotations, held, doc, made, swept>>

\* Mutant of Store: what was loaded is not kept.
Bug_Store(s) ==
  /\ pc[s] = "store"
  /\ Go(s, "return")
  /\ UNCHANGED <<signer, files, rotations, held, doc, material, made, error, swept, torn>>

\* "self._cert_info = ...".
Store(s) ==
  /\ pc[s] = "store"
  /\ held' = material[s]
  /\ Go(s, "return")
  /\ UNCHANGED <<signer, files, rotations, doc, material, made, error, swept, torn>>

\* "return self._cert_info": None, when another session cleaned up meanwhile,
\* and then sign() fails at the first attribute.
ReturnHeld(s) ==
  /\ pc[s] = "return"
  /\ IF held = Nothing THEN Raise(s, "AttributeError") /\ UNCHANGED material
     ELSE /\ material' = [material EXCEPT ![s] = held]
          /\ Go(s, "sign") /\ UNCHANGED error
  /\ UNCHANGED <<signer, files, rotations, held, doc, made, swept, torn>>

\* After a document the session may sign another.
Afterwards(s) == IF Len(made[s]) + 1 < MaxSigns THEN {"begin", "cleanup"} ELSE {"cleanup"}

\* Mutant of Sign: the certificate embedded is the one held by then.
Bug_Sign(s) ==
  /\ pc[s] = "sign"
  /\ IF Refused(signer, doc[s]) \/ held = Nothing THEN Raise(s, "ValueError") /\ UNCHANGED made
     ELSE /\ made' = [made EXCEPT ![s] = Append(made[s],
               [document |-> doc[s],
                signed |-> SignedBy(signer, doc[s],
                                    [material[s] EXCEPT !.certificate = held.certificate],
                                    <<s, Len(made[s])>>)])]
          /\ \E to \in Afterwards(s) : Go(s, to)
          /\ UNCHANGED error
  /\ UNCHANGED <<signer, files, rotations, held, doc, material, swept, torn>>

\* The rest of sign(); the session goes on or is finished.
Sign(s) ==
  /\ pc[s] = "sign"
  /\ IF Refused(signer, doc[s]) THEN Raise(s, "ValueError") /\ UNCHANGED made
     ELSE /\ made' = [made EXCEPT ![s] = Append(made[s],
               [document |-> doc[s],
                signed |-> SignedBy(signer, doc[s], material[s], <<s, Len(made[s])>>)])]
          /\ \E to \in Afterwards(s) : Go(s, to)
          /\ UNCHANGED error
  /\ UNCHANGED <<signer, files, rotations, held, doc, material, swept, torn>>

\* cleanup(), in the session's finally.
Cleanup(s) ==
  /\ pc[s] = "cleanup"
  /\ held' = Nothing
  /\ swept' = [t \in Sessions |-> swept[t] \/ t # s]
  /\ Go(s, "done")
  /\ UNCHANGED <<signer, files, rotations, doc, material, made, error, torn>>

\* The administrator exchanges the credentials (external).
Rotate ==
  /\ rotations < MaxRotations /\ files.certificate = files.key
  /\ rotations' = rotations + 1
  /\ files' = IF signer = "Sello" THEN [files EXCEPT !.certificate = rotations + 1]
              ELSE [certificate |-> rotations + 1, key |-> rotations + 1]
  /\ UNCHANGED <<signer, held, pc, doc, material, made, error, swept, torn>>
RotateKey ==
  /\ files.certificate # files.key
  /\ files' = [files EXCEPT !.key = files.certificate]
  /\ UNCHANGED <<signer, rotations, held, pc, doc, material, made, error, swept, torn>>

Next ==
  \/ \E s \in Sessions :
       \/ Begin(s) \/ TestHeld(s) \/ ReadCertificate(s) \/ ReadKey(s) \/ Store(s)
       \/ ReturnHeld(s) \/ Sign(s) \/ Cleanup(s)
  \/ Rotate \/ RotateKey

Spec == Init /\ [][Next]_vars
-----------------------------------------------------------------------------
(* Properties *)

\* The signature is by the key of the certificate that goes with it, over the document
\* and that certificate, in the canonical forms the signer computed.
Consistent(signed) ==
  CASE signer = "CAdES" -> signed.value = SignBytes(signed.certificate, signed.wrapped)
    [] signer = "Sello" -> SelloVerified(signed)
    [] OTHER ->
         LET s == signed.signatures[Len(signed.signatures)]
             bare == [signed EXCEPT !.signatures = SubSeq(@, 1, Len(@) - 1)]
         IN /\ s.value = SignBytes(s.certificate, Alone(s.info))
            /\ IF signer = "XMLDSig" THEN s.info = XmlDsigSignedInfo(Target(bare))
               ELSE /\ s.info = SignedInfo(C14n(bare, bare.namespaces), Alone(s.properties))
                    /\ s.properties.certificate = s.certificate

\* However sessions load, clean up and reload around it and whenever the credentials
\* are exchanged, what sign() returns carries the certificate of the key it was signed
\* with.  The excuse is a CSD, whose two files were exchanged while they were read:
\* the very pair that was read so, whichever session signs with it.
SignedByItsCertificate ==
  \A s \in Sessions : \A i \in DOMAIN made[s] :
    LET signed == made[s][i].signed
    IN Consistent(signed) \/
       /\ signer = "Sello"
       /\ [certificate |-> signed.seal.certificate, key |-> signed.seal.sello.by] \in torn

\* "what the enveloped-signature transform on the final document will reproduce":
\* violated, a verifier canonicalises the parts where they are, below namespaces of
\* the signature and the root, and without comments.
ReproducedInPlace ==
  \A s \in Sessions : \A i \in DOMAIN made[s] :
    LET signed == made[s][i].signed
        last == signed.signatures[Len(signed.signatures)]
        bare == [signed EXCEPT !.signatures = SubSeq(@, 1, Len(@) - 1), !.comments = FALSE]
    IN /\ signer = "XAdES" =>
            /\ last.value.over = C14n(last.info, bare.namespaces \cup {"xades"})
            /\ last.info = SignedInfo(C14n(bare, bare.namespaces),
                                      C14n(last.properties, bare.namespaces))
       /\ signer = "XMLDSig" =>
            /\ last.value.over = C14n(last.info, bare.namespaces)
            /\ last.info = XmlDsigSignedInfo(Target(bare))

\* When no session is under way the signer holds no key that one of them loaded:
\* every load is followed by a cleanup, in whatever order those of others fall.
KeysDropped ==
  (\A s \in Sessions : pc[s] = "done") => held = Nothing

\* sign() fails for want of credentials only when another session of the same
\* signer cleaned up while it ran.
FailuresExcused ==
  \A s \in Sessions : error[s] = "AttributeError" => swept[s]

\* "sign(document) is idempotent for the same document": violated, XAdES and CAdES
\* signatures have a time and XAdES ones fresh Ids.
SignIdempotent ==
  \A s \in Sessions : \A i, j \in DOMAIN made[s] :
    rotations = 0 /\ made[s][i].document = made[s][j].document
      => made[s][i].signed = made[s][j].signed
=============================================================================
