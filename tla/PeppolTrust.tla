------------------------------- MODULE PeppolTrust -------------------------------
(***************************************************************************)
(* Trust in Peppol (peppol/trust.py): the certificate chain, the signature *)
(* of an SMP's answer, and the two ways to ask for a revocation.           *)
(*                                                                         *)
(* Digests, RSA and path validation are library code: a digest is the      *)
(* content it covers, a signature value the key and the digest it covers,  *)
(* a certificate is named like its key and says who issued it.             *)
(***************************************************************************)
EXTENDS SmpLookup

\* A file of the PKI directory has the certificates it holds, none when it is no
\* PEM; load_root_certs skips the files of other types and those it cannot parse.
RootCerts(directory) ==
  LET read == {f \in directory.files : f.type \in {".pem", ".crt", ".cer"}}
  IN UNION {file.certificates : file \in read}

\* validate_certificate_chain.
ValidateChain(issuer, directory) ==
  IF ~directory.configured \/ RootCerts(directory) = {} THEN "trust-anchors-not-configured"
  ELSE IF issuer \in RootCerts(directory) THEN "valid" ELSE "invalid"
-----------------------------------------------------------------------------
(* verify_smp_signature *)

\* The ds:Signature has children of its own, which may be more than those of a
\* signature (inside): ds:Object holds any element.
Signature(doc) == doc[FirstOf(At(doc, "Signature"))].signature
Inside(doc) ==
  IF At(doc, "Signature") = {} THEN <<>> ELSE doc[FirstOf(At(doc, "Signature"))].inside
\* The document without its first signature.  lxml removes the text after the
\* element with it: what the digest covered there is missing.
Unsigned(doc) ==
  LET at == FirstOf(At(doc, "Signature"))
  IN SubSeq(doc, 1, at - 1) \o SubSeq(doc, at + 1, Len(doc))

\* A comment before the signature, and a certificate or a signature value that is
\* no base64, raise.
VerifyRaises(doc) ==
  \/ \E i \in At(doc, "comment") : \A j \in At(doc, "Signature") : i < j
  \/ At(doc, "Signature") # {} /\ Signature(doc).certificate = "garbled"

\* Mutant of SignatureValid: the digest is not recomputed from the document.
Bug_SignatureValid(doc) ==
  /\ At(doc, "Signature") # {}
  /\ LET s == Signature(doc)
     IN /\ s.complete /\ s.certificate # None
        /\ s.value = [by |-> s.certificate, over |-> s.digest]

SignatureValid(doc) ==
  /\ At(doc, "Signature") # {}
  /\ LET s == Signature(doc)
     IN /\ s.complete /\ s.certificate # None
        /\ s.digest = [content |-> Unsigned(doc), tail |-> FALSE]
        /\ s.value = [by |-> s.certificate, over |-> s.digest]

VerifySmpSignature(doc, issuer, directory) ==
  [valid |-> SignatureValid(doc),
   chain |-> IF SignatureValid(doc) THEN ValidateChain(issuer, directory) ELSE None]
-----------------------------------------------------------------------------
(* check_revocation *)

Unchecked(method) == [checked |-> FALSE, revoked |-> None, method |-> method]
Checked(method, revoked) == [checked |-> TRUE, revoked |-> revoked, method |-> method]

\* _check_ocsp: an answer that is a failure, in whatever way, is no result.
OcspResult(answer) ==
  IF answer \in {"failed", "unsuccessful"} THEN None ELSE Checked("ocsp", answer = "revoked")
CrlResult(answer) ==
  IF answer = "failed" THEN Unchecked("crl") ELSE Checked("crl", answer = "listed")
-----------------------------------------------------------------------------
(* Reading what was verified *)

\* What root.iter() of _parse_service_metadata goes through: the answer as it came,
\* the elements inside the signature in their place.
Iterated(doc) ==
  IF Inside(doc) = <<>> THEN doc
  ELSE LET at == FirstOf(At(doc, "Signature"))
       IN SubSeq(doc, 1, at) \o Inside(doc) \o SubSeq(doc, at + 1, Len(doc))
-----------------------------------------------------------------------------
(* What SMPs sign (external) *)

Signed(elements, key, tail) ==
  LET digest == [content |-> elements, tail |-> tail]
  IN [complete |-> TRUE, certificate |-> key, digest |-> digest,
      value |-> [by |-> key, over |-> digest]]
SignedMetadata(elements, tail) ==
  Append(elements, [tag |-> "Signature", signature |-> Signed(elements, "smp", tail),
                    inside |-> <<>>])

\* What may become of a signed document on its way: the loss of a text, damage
\* to the signature, its certificate, its place; an element more inside the signature.
DamagedMetadata(doc) ==
  LET at == Len(doc)
  IN {doc, Unsigned(doc), <<Element("comment", None)>> \o doc,
      [doc EXCEPT ![at].signature.complete = FALSE],
      [doc EXCEPT ![at].signature.certificate = None],
      [doc EXCEPT ![at].signature.certificate = "garbled"],
      [doc EXCEPT ![at].signature.value.over.tail = TRUE],
      [doc EXCEPT ![at].inside = <<Element("Address", <<None, "elsewhere">>)>>],
      [doc EXCEPT ![at - 1] = doc[at], ![at] = doc[at - 1]]}
     \cup {[doc EXCEPT ![i].text = None] : i \in 1..(at - 1)}
=============================================================================
