------------------------------ MODULE InvoiceDataProofs ------------------------------
(***************************************************************************)
(* Proofs about the data of an invoice.                                    *)
(*                                                                         *)
(* Sessions that share one document signer, for any number of sessions,    *)
(* documents and exchanges of the credential files: what sign() returns    *)
(* carries the certificate of its key, it fails for want of credentials    *)
(* only after another session's cleanup, and no key stays behind.  IInv is *)
(* inductive.  Fit is the set of certificates and keys that may be         *)
(* together in the signer's hands: matching ones, and those read of a CSD  *)
(* while it was exchanged.  Whatever is read, held or used is fit.         *)
(*                                                                         *)
(* Documents on their way, for any invoices, documents of other producers  *)
(* and number of conversions: what both syntaxes carry and the sums of     *)
(* totals survive, a credit note refers to its invoice, and what is lost   *)
(* is lost once.  One conversion is taken apart into what the parsers read *)
(* (PartsRead), what the serialisers write (PartsWritten) and what becomes *)
(* of each part that is read, written and read again.  WayInv compares the *)
(* document with the first one, TrailInv with those of the last            *)
(* conversions.                                                            *)
(*                                                                         *)
(* Identifiers that are entered, for any that are issued: a wrong digit is *)
(* found, two digits in the wrong order are where the weights are made for *)
(* it, and every documented spelling is accepted.  What the recursive      *)
(* functions of the validators compute is a run along the text (Runs): two *)
(* runs go together to the slip and, multiplication by 10 having an        *)
(* inverse modulo 97 and 23, apart from there to the end; a sum changes by *)
(* the one summand that does; what a run keeps is the same without the     *)
(* separators.                                                             *)
(***************************************************************************)
EXTENDS InvoiceData, NaturalsInduction, WellFoundedInduction, SequenceTheorems, TLAPS

\* None is no number and no exception's name; there is a session.
Parameters ==
  /\ None \notin Nat \cup {"AttributeError", "ValueError"}
  /\ MaxRotations \in Nat
  /\ Sessions # {}

Pairs == [certificate : Nat, key : Nat]
Halves == [certificate : Nat \cup {None}, key : Nat \cup {None}]
Fit == {m \in Pairs : (signer = "Sello" /\ m \in torn) \/ m.certificate = m.key}
Phases ==
  {"begin", "test", "certificate", "key", "store", "return", "sign", "cleanup", "done"}

\* What sign() can have returned.
Products ==
  {[document |-> d, signed |-> SignedBy(signer, d, m, t)] :
     d \in Documents, m \in Fit, t \in Sessions \X Nat}

FilesFit ==
  /\ signer \in Signers
  /\ rotations \in Nat
  /\ files \in Pairs
  /\ signer = "Sello" \/ files.certificate = files.key

SessionsTyped ==
  /\ pc \in [Sessions -> Phases]
  /\ doc \in [Sessions -> Documents]
  /\ material \in [Sessions -> Halves]
  /\ error \in [Sessions -> {None, "ValueError", "AttributeError"}]
  /\ swept \in [Sessions -> BOOLEAN]

CredentialsFit ==
  /\ held \in Fit \cup {Nothing}
  /\ \A s \in Sessions :
       /\ pc[s] = "key" => signer = "Sello" /\ material[s].certificate \in Nat
       /\ pc[s] \in {"store", "sign"} => material[s] \in Fit

MadeFit == made \in [Sessions -> Seq(Products)]

\* What is missing at the return was swept away.
FailuresSwept ==
  \A s \in Sessions :
    /\ pc[s] = "return" /\ held = Nothing => swept[s]
    /\ error[s] = "AttributeError" => pc[s] \in {"cleanup", "done"} /\ swept[s]

KInv == FilesFit /\ SessionsTyped /\ CredentialsFit
IInv == KInv /\ MadeFit /\ FailuresSwept

-----------------------------------------------------------------------------
(* Signatures *)

\* A signature by the key of the certificate beside it is consistent.
LEMMA FitConsistent ==
  ASSUME signer \in Signers, NEW d \in Documents, NEW m, NEW t, m.certificate = m.key
  PROVE  Consistent(SignedBy(signer, d, m, t))
<1>1. /\ d.signatures = <<>>
      /\ d = [element |-> d.element, id |-> d.id, data |-> d.data,
              comments |-> d.comments, namespaces |-> d.namespaces,
              signatures |-> <<>>, seal |-> None]
  BY DEF Documents, Document
<1>2. CASE signer = "CAdES"
  BY <1>2 DEF Consistent, SignedBy, CAdES, SignBytes
<1>3. CASE signer = "Sello"
  <2> DEFINE x == [certificate |-> m.certificate, sello |-> SignBytes(m.key, Cadena(d))]
  <2> DEFINE sealed == [d EXCEPT !.seal = x]
  <2>1. sealed.seal = x /\ sealed.data = d.data
    BY <1>1
  <2>2. SignedBy(signer, d, m, t) = sealed
    BY <1>3 DEF SignedBy, Sello
  <2>3. x.sello = SignBytes(x.certificate, Cadena(d))
    OBVIOUS
  <2> HIDE DEF x, sealed
  <2>4. SelloVerified(sealed)
    BY <2>1, <2>3 DEF SelloVerified, Cadena
  <2>5. QED
    BY <1>3, <2>2, <2>4 DEF Consistent
<1>4. ASSUME NEW x, NEW signed, signed = [d EXCEPT !.signatures = Append(d.signatures, x)]
      PROVE  /\ signed.signatures[Len(signed.signatures)] = x
             /\ [signed EXCEPT !.signatures =
                   SubSeq(signed.signatures, 1, Len(signed.signatures) - 1)] = d
  <2>1. signed.signatures = <<x>>
    BY <1>1, <1>4
  <2>2. Len(<<x>>) = 1 /\ <<x>>[1] = x
    OBVIOUS
  <2>3. SubSeq(<<x>>, 1, Len(<<x>>) - 1) = <<>>
    OBVIOUS
  <2>4. [signed EXCEPT !.signatures = <<>>] = d
    BY <1>1, <1>4
  <2>5. signed.signatures[Len(signed.signatures)] = x
    BY <2>1, <2>2
  <2>6. SubSeq(signed.signatures, 1, Len(signed.signatures) - 1) = <<>>
    BY <2>1, <2>3
  <2>7. QED
    BY <2>4, <2>5, <2>6
<1>5. CASE signer = "XAdES"
  <2> DEFINE p == SignedProperties(t, m.certificate)
             i == SignedInfo(C14n(d, d.namespaces), Alone(p))
             x == [id |-> t, info |-> i, value |-> SignBytes(m.key, Alone(i)),
                   certificate |-> m.certificate, properties |-> p]
             signed == [d EXCEPT !.signatures = Append(d.signatures, x)]
  <2>1. SignedBy(signer, d, m, t) = signed
    BY <1>5 DEF SignedBy, XAdES
  <2>2. /\ signed.signatures[Len(signed.signatures)] = x
        /\ [signed EXCEPT !.signatures =
              SubSeq(signed.signatures, 1, Len(signed.signatures) - 1)] = d
    BY <1>4
  <2>3. /\ x.value = SignBytes(x.certificate, Alone(x.info))
        /\ x.info = SignedInfo(C14n(d, d.namespaces), Alone(x.properties))
        /\ x.properties.certificate = x.certificate
    BY DEF SignedProperties
  <2> HIDE DEF x, signed
  <2>4. Consistent(signed)
    BY <1>5, <2>2, <2>3 DEF Consistent
  <2>5. QED
    BY <2>1, <2>4
<1>6. CASE signer = "XMLDSig"
  <2> DEFINE i == XmlDsigSignedInfo(Target(d))
             x == [id |-> None, info |-> i, value |-> SignBytes(m.key, Alone(i)),
                   certificate |-> m.certificate, properties |-> None]
             signed == [d EXCEPT !.signatures = Append(d.signatures, x)]
  <2>1. SignedBy(signer, d, m, t) = signed
    BY <1>6 DEF SignedBy, XmlDsig
  <2>2. /\ signed.signatures[Len(signed.signatures)] = x
        /\ [signed EXCEPT !.signatures =
              SubSeq(signed.signatures, 1, Len(signed.signatures) - 1)] = d
    BY <1>4
  <2>3. x.value = SignBytes(x.certificate, Alone(x.info)) /\ x.info = XmlDsigSignedInfo(Target(d))
    OBVIOUS
  <2> HIDE DEF x, signed
  <2>4. Consistent(signed)
    BY <1>6, <2>2, <2>3 DEF Consistent
  <2>5. QED
    BY <2>1, <2>4
<1>7. QED
  BY <1>2, <1>3, <1>5, <1>6 DEF Signers

\* A seal names the pair it was made with.
LEMMA SealNames ==
  ASSUME signer = "Sello", NEW d \in Documents, NEW m \in Pairs, NEW t,
         NEW sealed, sealed = SignedBy(signer, d, m, t)
  PROVE  [certificate |-> sealed.seal.certificate, key |-> sealed.seal.sello.by] = m
<1> DEFINE x == [certificate |-> m.certificate, sello |-> SignBytes(m.key, Cadena(d))]
<1>1. sealed = [d EXCEPT !.seal = x]
  BY DEF SignedBy, Sello
<1>2. x.certificate = m.certificate /\ x.sello.by = m.key
  BY DEF SignBytes
<1> HIDE DEF x
<1>3. sealed.seal = x
  BY <1>1 DEF Documents, Document
<1>4. QED
  BY <1>2, <1>3 DEF Pairs

-----------------------------------------------------------------------------
(* The credentials *)

LEMMA KInvInit == ASSUME Parameters PROVE Init => KInv
BY DEF Parameters, Init, KInv, FilesFit, SessionsTyped, CredentialsFit, Fit, Pairs, Halves,
       Nothing, Documents, Document, Phases

\* What is fit stays fit: what was torn is remembered.
LEMMA FitGrows ==
  ASSUME Parameters, KInv, [Next]_vars PROVE signer' = signer /\ Fit \subseteq Fit'
<1>1. signer' = signer
  BY DEF Next, vars, Begin, TestHeld, ReadCertificate, ReadKey, Store, ReturnHeld, Sign,
         Cleanup, Rotate, RotateKey
<1>2. torn \subseteq torn'
  BY DEF Next, vars, Begin, TestHeld, ReadCertificate, ReadKey, Store, ReturnHeld, Sign,
         Cleanup, Rotate, RotateKey
<1>3. QED
  BY <1>1, <1>2 DEF Fit

\* The administrator's exchange leaves files that are fit by the rule of their kind.
LEMMA FilesKept ==
  ASSUME Parameters, KInv, [Next]_vars PROVE FilesFit'
<1> USE DEF Parameters, KInv, FilesFit, Pairs
<1>1. CASE Rotate
  <2>1. rotations \in Nat /\ rotations' = rotations + 1 /\ signer' = signer
    BY <1>1 DEF Rotate
  <2>2. files' \in Pairs
    BY <1>1, <2>1 DEF Rotate
  <2>3. signer = "Sello" \/ files'.certificate = files'.key
    BY <1>1 DEF Rotate
  <2>4. QED
    BY <2>1, <2>2, <2>3
<1>2. CASE RotateKey
  BY <1>2 DEF RotateKey
<1>3. CASE UNCHANGED <<signer, files, rotations>>
  BY <1>3
<1>4. QED
  BY <1>1, <1>2, <1>3 DEF Next, vars, Begin, TestHeld, ReadCertificate, ReadKey, Store,
     ReturnHeld, Sign, Cleanup

LEMMA TypesKept ==
  ASSUME Parameters, KInv, [Next]_vars PROVE SessionsTyped'
<1> USE DEF Parameters, KInv, SessionsTyped, Phases, Go, Raise
<1>1. files \in Pairs /\ held \in Halves
  BY DEF FilesFit, CredentialsFit, Fit, Pairs, Halves, Nothing
<1>2. ASSUME NEW s \in Sessions, Begin(s) PROVE SessionsTyped'
  BY <1>2 DEF Begin
<1>3. ASSUME NEW s \in Sessions, TestHeld(s) PROVE SessionsTyped'
  BY <1>3 DEF TestHeld
<1>4. ASSUME NEW s \in Sessions, ReadCertificate(s) PROVE SessionsTyped'
  <2>1. [files EXCEPT !.key = None] \in Halves /\ files \in Halves
    BY <1>1 DEF Pairs, Halves
  <2>2. material' \in [Sessions -> Halves]
    BY <1>4, <2>1 DEF ReadCertificate
  <2>3. QED
    BY <1>4, <2>2 DEF ReadCertificate
<1>5. ASSUME NEW s \in Sessions, ReadKey(s) PROVE SessionsTyped'
  <2>1. [material[s] EXCEPT !.key = files.key] \in Halves
    BY <1>1 DEF Pairs, Halves
  <2>2. \/ material' = [material EXCEPT ![s] = [material[s] EXCEPT !.key = files.key]]
        \/ material' = material
    BY <1>5 DEF ReadKey
  <2>3. material' \in [Sessions -> Halves]
    BY <2>1, <2>2
  <2>4. QED
    BY <1>5, <2>3 DEF ReadKey
<1>6. ASSUME NEW s \in Sessions, Store(s) PROVE SessionsTyped'
  BY <1>6 DEF Store
<1>7. ASSUME NEW s \in Sessions, ReturnHeld(s) PROVE SessionsTyped'
  <2>1. material' \in [Sessions -> Halves]
    BY <1>1, <1>7 DEF ReturnHeld
  <2>2. QED
    BY <1>7, <2>1 DEF ReturnHeld
<1>8. ASSUME NEW s \in Sessions, Sign(s) PROVE SessionsTyped'
  BY <1>8 DEF Sign, Afterwards
<1>9. ASSUME NEW s \in Sessions, Cleanup(s) PROVE SessionsTyped'
  BY <1>9 DEF Cleanup
<1>10. CASE Rotate \/ RotateKey \/ UNCHANGED vars
  BY <1>10 DEF Rotate, RotateKey, vars
<1>11. QED
  BY <1>2, <1>3, <1>4, <1>5, <1>6, <1>7, <1>8, <1>9, <1>10 DEF Next

\* Certificates and keys are read, stored and handed out together.
LEMMA CredentialsKept ==
  ASSUME Parameters, KInv, [Next]_vars PROVE CredentialsFit'
<1> USE DEF Parameters, KInv, CredentialsFit, SessionsTyped, Phases, Go, Raise
<1>1. signer' = signer /\ \A m \in Fit : m \in Fit'
  BY FitGrows
<1>2. ASSUME NEW s \in Sessions, Begin(s) \/ TestHeld(s) PROVE CredentialsFit'
  BY <1>1, <1>2 DEF Begin, TestHeld
<1>3. ASSUME NEW s \in Sessions, ReadCertificate(s) PROVE CredentialsFit'
  <2>1. files \in Pairs /\ files.certificate \in Nat /\ (signer = "Sello" \/ files \in Fit)
    BY DEF FilesFit, Fit, Pairs
  <2>2. [files EXCEPT !.key = None].certificate = files.certificate
    BY <2>1 DEF Pairs
  <2>3. QED
    BY <1>1, <1>3, <2>1, <2>2, ZenonT(30) DEF ReadCertificate
<1>4. ASSUME NEW s \in Sessions, ReadKey(s) PROVE CredentialsFit'
  <2> DEFINE both == [material[s] EXCEPT !.key = files.key]
  <2>1. files \in Pairs /\ files.key \in Nat
    BY DEF FilesFit, Pairs
  <2>2. material[s] \in Halves /\ material[s].certificate \in Nat /\ signer = "Sello"
    BY <1>4 DEF ReadKey
  <2>3. both \in Pairs /\ both.certificate = material[s].certificate /\ both.key = files.key
    BY <2>1, <2>2 DEF Halves, Pairs
  <2> HIDE DEF both
  <2>5. CASE /\ material' = [material EXCEPT ![s] = both] /\ pc' = [pc EXCEPT ![s] = "store"]
             /\ torn' = IF material[s].certificate = files.certificate
                           /\ files.certificate = files.key THEN torn
                        ELSE torn \cup {material'[s]}
    <3>1. material'[s] = both
      BY <2>5
    <3>2. both.certificate = both.key \/ both \in torn'
      BY <2>3, <2>5, <3>1
    <3>3. both \in Fit'
      BY <1>1, <2>2, <2>3, <3>2 DEF Fit
    <3>4. \A t \in Sessions : t # s => material'[t] = material[t] /\ pc'[t] = pc[t]
      BY <2>5
    <3>5. held' = held /\ pc'[s] = "store"
      BY <1>4, <2>5 DEF ReadKey
    <3>6. QED
      BY <1>1, <3>1, <3>3, <3>4, <3>5
  <2>6. CASE material' = material /\ pc' = [pc EXCEPT ![s] = "cleanup"]
    BY <1>1, <1>4, <2>6 DEF ReadKey
  <2>7. QED
    BY <1>4, <2>5, <2>6 DEF ReadKey, both
<1>5. ASSUME NEW s \in Sessions, Store(s) PROVE CredentialsFit'
  BY <1>1, <1>5 DEF Store
<1>6. ASSUME NEW s \in Sessions, ReturnHeld(s) PROVE CredentialsFit'
  BY <1>1, <1>6 DEF ReturnHeld
<1>7. ASSUME NEW s \in Sessions, Sign(s) PROVE CredentialsFit'
  BY <1>1, <1>7 DEF Sign, Afterwards
<1>8. ASSUME NEW s \in Sessions, Cleanup(s) PROVE CredentialsFit'
  BY <1>1, <1>8 DEF Cleanup
<1>9. CASE Rotate
  BY <1>1, <1>9 DEF Rotate
<1>10. CASE RotateKey \/ UNCHANGED vars
  BY <1>1, <1>10 DEF RotateKey, vars
<1>11. QED
  BY <1>2, <1>3, <1>4, <1>5, <1>6, <1>7, <1>8, <1>9, <1>10 DEF Next

LEMMA KInvNext == ASSUME Parameters PROVE KInv /\ [Next]_vars => KInv'
BY FilesKept, TypesKept, CredentialsKept DEF KInv

-----------------------------------------------------------------------------
(* What sessions end with *)

\* sign() returns signatures with fit certificates and keys.
LEMMA MadeKept ==
  ASSUME Parameters, KInv, MadeFit, [Next]_vars PROVE MadeFit'
<1>1. \A p \in Products : p \in Products'
  BY FitGrows DEF Products
<1>2. \A q \in Seq(Products) : q \in Seq(Products')
  BY <1>1
<1>3. ASSUME NEW s \in Sessions, Sign(s), made' # made PROVE MadeFit'
  <2> DEFINE n == Len(made[s])
             new == [document |-> doc[s],
                     signed |-> SignedBy(signer, doc[s], material[s], <<s, n>>)]
  <2>1. doc[s] \in Documents /\ material[s] \in Fit /\ n \in Nat
    BY <1>3 DEF Sign, KInv, CredentialsFit, SessionsTyped, MadeFit
  <2>2. new \in Products
    BY <2>1 DEF Products
  <2>3. made' = [made EXCEPT ![s] = Append(made[s], new)]
    BY <1>3 DEF Sign
  <2> HIDE DEF new
  <2>4. made \in [Sessions -> Seq(Products)]
    BY DEF MadeFit
  <2>5. Append(made[s], new) \in Seq(Products)
    BY <2>2, <2>4
  <2>6. made' \in [Sessions -> Seq(Products)]
    BY <2>3, <2>4, <2>5
  <2>7. QED
    BY <1>2, <2>6 DEF MadeFit
<1>4. CASE made' = made
  BY <1>2, <1>4 DEF MadeFit
<1>5. QED
  BY <1>3, <1>4 DEF Next, vars, Begin, TestHeld, ReadCertificate, ReadKey, Store, ReturnHeld,
     Cleanup, Rotate, RotateKey

\* Credentials are gone at the return only after a cleanup that another session made.
LEMMA FailuresKept ==
  ASSUME Parameters, KInv, FailuresSwept, [Next]_vars PROVE FailuresSwept'
<1> USE DEF Parameters, FailuresSwept, KInv, SessionsTyped, Phases, Go, Raise
<1>1. ASSUME NEW s \in Sessions, Begin(s) \/ TestHeld(s) \/ ReadCertificate(s) \/ ReadKey(s)
      PROVE  FailuresSwept'
  BY <1>1 DEF Begin, TestHeld, ReadCertificate, ReadKey
<1>2. ASSUME NEW s \in Sessions, Store(s) PROVE FailuresSwept'
  <2>1. material[s] # Nothing
    BY <1>2 DEF Store, CredentialsFit, Fit, Pairs, Nothing
  <2>2. QED
    BY <1>2, <2>1 DEF Store
<1>3. ASSUME NEW s \in Sessions, ReturnHeld(s) PROVE FailuresSwept'
  BY <1>3 DEF ReturnHeld
<1>4. ASSUME NEW s \in Sessions, Sign(s) PROVE FailuresSwept'
  BY <1>4 DEF Sign, Afterwards
<1>5. ASSUME NEW s \in Sessions, Cleanup(s) PROVE FailuresSwept'
  BY <1>5 DEF Cleanup
<1>6. CASE Rotate \/ RotateKey \/ UNCHANGED vars
  BY <1>6 DEF Rotate, RotateKey, vars
<1>7. QED
  BY <1>1, <1>2, <1>3, <1>4, <1>5, <1>6 DEF Next

LEMMA IInvInit == ASSUME Parameters PROVE Init => IInv
<1> SUFFICES ASSUME Init PROVE IInv
  OBVIOUS
<1>1. MadeFit
  <2>1. <<>> \in Seq(Products)
    OBVIOUS
  <2>2. QED
    BY <2>1 DEF Init, MadeFit
<1>2. FailuresSwept
  BY DEF Init, FailuresSwept, Parameters
<1>3. QED
  BY <1>1, <1>2, KInvInit DEF IInv

LEMMA IInvNext == ASSUME Parameters PROVE IInv /\ [Next]_vars => IInv'
BY KInvNext, MadeKept, FailuresKept DEF IInv

LEMMA IInvPaired == ASSUME Parameters PROVE IInv => SignedByItsCertificate
<1> SUFFICES ASSUME IInv, NEW s \in Sessions, NEW i \in DOMAIN made[s],
                    NEW signed, signed = made[s][i].signed
             PROVE  Consistent(signed) \/
                    /\ signer = "Sello"
                    /\ [certificate |-> signed.seal.certificate,
                        key |-> signed.seal.sello.by] \in torn
  BY DEF SignedByItsCertificate
<1>1. made[s][i] \in Products
  BY DEF IInv, MadeFit
<1>2. PICK d \in Documents, m \in Fit, t \in Sessions \X Nat :
        made[s][i] = [document |-> d, signed |-> SignedBy(signer, d, m, t)]
  BY <1>1 DEF Products
<1>3. signed = SignedBy(signer, d, m, t) /\ signer \in Signers
  BY <1>2 DEF IInv, KInv, FilesFit
<1>4. CASE m.certificate = m.key
  BY <1>3, <1>4, FitConsistent
<1>5. CASE m.certificate # m.key
  <2>1. signer = "Sello" /\ m \in torn /\ m \in Pairs
    BY <1>5 DEF Fit
  <2>2. QED
    BY <1>3, <2>1, SealNames
<1>6. QED
  BY <1>4, <1>5

\* Every returned signature is by the key of the certificate it carries, or of a pair
\* that was read of a CSD while it was exchanged, for any number of sessions that load,
\* clean up and reload around each other (sign, load_credentials, _get_cert_info).
THEOREM ReturnedSignaturesPaired ==
  ASSUME Parameters PROVE Spec => []SignedByItsCertificate
<1>1. Init => IInv
  BY IInvInit
<1>2. IInv /\ [Next]_vars => IInv'
  BY IInvNext
<1>3. IInv => SignedByItsCertificate
  BY IInvPaired
<1>4. QED
  BY <1>1, <1>2, <1>3, PTL DEF Spec

\* sign() raises AttributeError for want of credentials only when another session
\* cleaned up since it was called (_get_cert_info, cleanup).
THEOREM OnlySweptFail == ASSUME Parameters PROVE Spec => []FailuresExcused
<1>1. Init => IInv
  BY IInvInit
<1>2. IInv /\ [Next]_vars => IInv'
  BY IInvNext
<1>3. IInv => FailuresExcused
  BY DEF IInv, FailuresSwept, FailuresExcused
<1>4. QED
  BY <1>1, <1>2, <1>3, PTL DEF Spec

\* When every session has ended no key is held, in whatever order they loaded and
\* cleaned up (the finally of the documented session).
THEOREM KeysGoWithSessions == ASSUME Parameters PROVE Spec => []KeysDropped
<1> DEFINE J == KInv /\ KeysDropped
<1>1. Init => J
  <2>1. Init => KeysDropped
    BY DEF Init, KeysDropped, Parameters
  <2>2. QED
    BY <2>1, KInvInit
<1>2. J /\ [Next]_vars => J'
  <2> SUFFICES ASSUME J, [Next]_vars PROVE KeysDropped'
    BY KInvNext
  <2>1. ASSUME NEW s \in Sessions, Cleanup(s) PROVE held' = Nothing
    BY <2>1 DEF Cleanup
  <2>2. ASSUME NEW s \in Sessions,
               \/ Begin(s) \/ TestHeld(s) \/ ReadCertificate(s) \/ ReadKey(s)
               \/ Store(s) \/ ReturnHeld(s) \/ Sign(s)
        PROVE  pc'[s] # "done"
    BY <2>2 DEF Begin, TestHeld, ReadCertificate, ReadKey, Store, ReturnHeld, Sign, Go, Raise,
                Afterwards, KInv, SessionsTyped
  <2>3. CASE Rotate \/ RotateKey \/ UNCHANGED vars
    BY <2>3 DEF Rotate, RotateKey, vars, KeysDropped, Nothing
  <2>4. QED
    BY <2>1, <2>2, <2>3 DEF Next, KeysDropped
<1>3. QED
  BY <1>1, <1>2, PTL DEF Spec

-----------------------------------------------------------------------------
(* Amounts *)

\* format_amount gives cents, and leaves cents alone.
LEMMA CentsAreCents ==
  ASSUME NEW n \in Int, NEW half_even \in BOOLEAN
  PROVE  Conversion!Cents(n, half_even) \in Int /\ Conversion!Cents(n, half_even) % 10 = 0
<1> DEFINE size == IF n < 0 THEN -n ELSE n
           low == size \div 10
           up == size % 10 > 5 \/ (size % 10 = 5 /\ (half_even => low % 2 = 1))
           rounded == IF up THEN low + 1 ELSE low
<1>1. Conversion!Cents(n, half_even) = IF n < 0 THEN -10 * rounded ELSE 10 * rounded
  BY DEF Conversion!Cents
<1>2. low \in Int
  OBVIOUS
<1> HIDE DEF low, up
<1>3. rounded \in Int
  BY <1>2
<1> HIDE DEF rounded
<1>4. /\ (-10 * rounded) % 10 = 0 /\ (10 * rounded) % 10 = 0
      /\ -10 * rounded \in Int /\ 10 * rounded \in Int
  BY <1>3
<1>5. QED
  BY <1>1, <1>4

LEMMA CentsStay ==
  ASSUME NEW n \in Int, NEW half_even \in BOOLEAN, n % 10 = 0
  PROVE  Conversion!Cents(n, half_even) = n
<1> DEFINE size == IF n < 0 THEN -n ELSE n
<1>1. size \in Nat /\ size % 10 = 0 /\ size = 10 * (size \div 10)
  OBVIOUS
<1>2. Conversion!Cents(n, half_even) =
        IF n < 0 THEN -10 * (size \div 10) ELSE 10 * (size \div 10)
  <2>1. ~(size % 10 > 5 \/ (size % 10 = 5 /\ (half_even => (size \div 10) % 2 = 1)))
    BY <1>1
  <2>2. QED
    BY <2>1 DEF Conversion!Cents
<1>3. QED
  BY <1>1, <1>2

LEMMA FormattedOnce ==
  ASSUME NEW n \in Int
  PROVE  /\ Conversion!Fmt(n) \in Int /\ Conversion!FmtVat(n) \in Int
         /\ Conversion!InCents(Conversion!Fmt(n)) /\ Conversion!InCents(Conversion!FmtVat(n))
         /\ Conversion!Fmt(Conversion!Fmt(n)) = Conversion!Fmt(n)
         /\ Conversion!FmtVat(Conversion!FmtVat(n)) = Conversion!FmtVat(n)
BY CentsAreCents, CentsStay DEF Conversion!Fmt, Conversion!FmtVat, Conversion!InCents

-----------------------------------------------------------------------------
(* Parts of invoices *)

\* Reading a part fills in its category, writing it rounds its amounts: what was read
\* and written is read and written unchanged.
TaxOf(category, rate, taxable, amount, reason) ==
  [category |-> category, rate |-> rate, taxable |-> taxable, amount |-> amount,
   reason |-> reason]

LEMMA TaxBuilt ==
  ASSUME NEW c, NEW r, NEW n, NEW a, NEW w
  PROVE  Conversion!BuildTax(TaxOf(c, r, n, a, w)) =
           TaxOf(c, Conversion!Fmt(r), Conversion!Fmt(n), Conversion!FmtVat(a), w)
<1>1. Conversion!BuildTax(TaxOf(c, r, n, a, w)) \in
        [category : {c}, rate : {Conversion!Fmt(r)}, taxable : {Conversion!Fmt(n)},
         amount : {Conversion!FmtVat(a)}, reason : {w}]
  BY DEF Conversion!BuildTax, TaxOf
<1>2. QED
  BY <1>1 DEF TaxOf

LEMMA TaxKept ==
  ASSUME NEW el, Conversion!IsTax(el)
  PROVE  LET tax == Conversion!ParseTax(el) written == Conversion!BuildTax(tax)
         IN /\ Conversion!IsTax(tax) /\ Conversion!IsTax(Conversion!BuildTax(el))
            /\ Conversion!ParseTax(written) = written
            /\ Conversion!BuildTax(written) = written
<1> DEFINE c == el.category
           r == el.rate
           n == el.taxable
           a == el.amount
           w == el.reason
<1>1. el = TaxOf(c, r, n, a, w) /\ r \in Int /\ n \in Int /\ a \in Int
  BY DEF Conversion!IsTax, TaxOf
<1> HIDE DEF c, r, n, a, w
<1> DEFINE d == Conversion!OrElse(c, "S")
           R == Conversion!Fmt(r)
           N == Conversion!Fmt(n)
           A == Conversion!FmtVat(a)
<1>2. Conversion!ParseTax(el) = TaxOf(d, r, n, a, w)
  BY <1>1 DEF Conversion!ParseTax, TaxOf
<1>3. \A x : \A q, m, b \in Int : Conversion!IsTax(TaxOf(x, q, m, b, w))
  BY DEF Conversion!IsTax, TaxOf
<1>4. /\ R \in Int /\ N \in Int /\ A \in Int
      /\ Conversion!Fmt(R) = R /\ Conversion!Fmt(N) = N /\ Conversion!FmtVat(A) = A
  BY <1>1, FormattedOnce
<1>5. Conversion!OrElse(d, "S") = d
  BY DEF Conversion!OrElse
<1> HIDE DEF d
<1>6. Conversion!ParseTax(TaxOf(d, R, N, A, w)) = TaxOf(d, R, N, A, w)
  BY <1>5 DEF Conversion!ParseTax, TaxOf
<1>7. /\ Conversion!BuildTax(TaxOf(d, r, n, a, w)) = TaxOf(d, R, N, A, w)
      /\ Conversion!BuildTax(el) = TaxOf(c, R, N, A, w)
  BY <1>1, TaxBuilt
<1> HIDE DEF R, N, A
<1>8. Conversion!BuildTax(TaxOf(d, R, N, A, w)) = TaxOf(d, R, N, A, w)
  BY <1>4, TaxBuilt
<1>9. QED
  BY <1>1, <1>2, <1>3, <1>4, <1>6, <1>7, <1>8

\* An optional amount, of an allowance or charge.
LEMMA OptionalFormattedOnce ==
  ASSUME NEW n \in Int \cup {None}
  PROVE  /\ Conversion!FmtOpt(n) \in Int \cup {None}
         /\ Conversion!FmtOpt(Conversion!FmtOpt(n)) = Conversion!FmtOpt(n)
BY FormattedOnce DEF Conversion!FmtOpt

ChargeOf(is_charge, amount, base, percentage, reason, category, rate) ==
  [is_charge |-> is_charge, amount |-> amount, base |-> base, percentage |-> percentage,
   reason |-> reason, category |-> category, rate |-> rate]

LEMMA ChargeBuilt ==
  ASSUME NEW i, NEW a, NEW b, NEW q, NEW w, NEW c, NEW r
  PROVE  Conversion!BuildCharge(ChargeOf(i, a, b, q, w, c, r)) =
           ChargeOf(i, Conversion!Fmt(a), Conversion!FmtOpt(b), Conversion!FmtOpt(q), w, c,
                    Conversion!Fmt(r))
<1>1. Conversion!BuildCharge(ChargeOf(i, a, b, q, w, c, r)) \in
        [is_charge : {i}, amount : {Conversion!Fmt(a)}, base : {Conversion!FmtOpt(b)},
         percentage : {Conversion!FmtOpt(q)}, reason : {w}, category : {c},
         rate : {Conversion!Fmt(r)}]
  BY DEF Conversion!BuildCharge, ChargeOf
<1>2. QED
  BY <1>1 DEF ChargeOf

LEMMA ChargeKept ==
  ASSUME NEW el, Conversion!IsCharge(el)
  PROVE  LET charge == Conversion!ParseCharge(el) written == Conversion!BuildCharge(charge)
         IN /\ Conversion!IsCharge(charge) /\ Conversion!IsCharge(Conversion!BuildCharge(el))
            /\ Conversion!ParseCharge(written) = written
            /\ Conversion!BuildCharge(written) = written
<1> DEFINE i == el.is_charge
           a == el.amount
           b == el.base
           q == el.percentage
           w == el.reason
           c == el.category
           r == el.rate
<1>1. /\ el = ChargeOf(i, a, b, q, w, c, r)
      /\ a \in Int /\ b \in Int \cup {None} /\ q \in Int \cup {None} /\ r \in Int
  BY DEF Conversion!IsCharge, ChargeOf
<1> HIDE DEF i, a, b, q, w, c, r
<1> DEFINE d == Conversion!OrElse(c, "S")
           A == Conversion!Fmt(a)
           B == Conversion!FmtOpt(b)
           Q == Conversion!FmtOpt(q)
           R == Conversion!Fmt(r)
<1>2. Conversion!ParseCharge(el) = ChargeOf(i, a, b, q, w, d, r)
  BY <1>1 DEF Conversion!ParseCharge, ChargeOf
<1>3. \A x : \A m, n \in Int : \A u, v \in Int \cup {None} :
        Conversion!IsCharge(ChargeOf(i, m, u, v, w, x, n))
  BY DEF Conversion!IsCharge, ChargeOf
<1>4. /\ A \in Int /\ B \in Int \cup {None} /\ Q \in Int \cup {None} /\ R \in Int
      /\ Conversion!Fmt(A) = A /\ Conversion!FmtOpt(B) = B
      /\ Conversion!FmtOpt(Q) = Q /\ Conversion!Fmt(R) = R
  BY <1>1, FormattedOnce, OptionalFormattedOnce
<1>5. Conversion!OrElse(d, "S") = d
  BY DEF Conversion!OrElse
<1> HIDE DEF d
<1>6. Conversion!ParseCharge(ChargeOf(i, A, B, Q, w, d, R)) = ChargeOf(i, A, B, Q, w, d, R)
  BY <1>5 DEF Conversion!ParseCharge, ChargeOf
<1>7. /\ Conversion!BuildCharge(ChargeOf(i, a, b, q, w, d, r)) = ChargeOf(i, A, B, Q, w, d, R)
      /\ Conversion!BuildCharge(el) = ChargeOf(i, A, B, Q, w, c, R)
  BY <1>1, ChargeBuilt
<1> HIDE DEF A, B, Q, R
<1>8. Conversion!BuildCharge(ChargeOf(i, A, B, Q, w, d, R)) = ChargeOf(i, A, B, Q, w, d, R)
  BY <1>4, ChargeBuilt
<1>9. QED
  BY <1>1, <1>2, <1>3, <1>4, <1>6, <1>7, <1>8

\* The same of all of them.
LEMMA ChargesKept ==
  ASSUME NEW items, \A i \in DOMAIN items : Conversion!IsCharge(items[i])
  PROVE  LET read == Conversion!Each(items, Conversion!ParseCharge)
             written == Conversion!Each(read, Conversion!BuildCharge)
             built == Conversion!Each(items, Conversion!BuildCharge)
         IN /\ \A i \in DOMAIN read : Conversion!IsCharge(read[i])
            /\ \A i \in DOMAIN built : Conversion!IsCharge(built[i])
            /\ Conversion!Each(written, Conversion!ParseCharge) = written
            /\ Conversion!Each(written, Conversion!BuildCharge) = written
BY ChargeKept DEF Conversion!Each

LEMMA TaxesKept ==
  ASSUME NEW items, \A i \in DOMAIN items : Conversion!IsTax(items[i])
  PROVE  LET read == Conversion!Each(items, Conversion!ParseTax)
             written == Conversion!Each(read, Conversion!BuildTax)
             built == Conversion!Each(items, Conversion!BuildTax)
         IN /\ \A i \in DOMAIN read : Conversion!IsTax(read[i])
            /\ \A i \in DOMAIN built : Conversion!IsTax(built[i])
            /\ Conversion!Each(written, Conversion!ParseTax) = written
            /\ Conversion!Each(written, Conversion!BuildTax) = written
BY TaxKept DEF Conversion!Each

LineOf(id, quantity, base, price, net, category, rate, article, scheme_of, charges) ==
  [id |-> id, quantity |-> quantity, base |-> base, price |-> price, net |-> net,
   category |-> category, rate |-> rate, article |-> article, article_scheme |-> scheme_of,
   charges |-> charges]

LEMMA LineBuilt ==
  ASSUME NEW i, NEW q, NEW b, NEW p, NEW n, NEW c, NEW r, NEW a, NEW s, NEW l
  PROVE  Conversion!BuildLine(LineOf(i, q, b, p, n, c, r, a, s, l)) =
           LineOf(i, q, b, Conversion!Fmt(p), Conversion!Fmt(n), c, Conversion!Fmt(r), a,
                  Conversion!If(Conversion!Given(a), s),
                  Conversion!Each(l, Conversion!BuildCharge))
<1> DEFINE built == Conversion!Each(l, Conversion!BuildCharge)
           given_scheme == Conversion!If(Conversion!Given(a), s)
           line == LineOf(i, q, b, p, n, c, r, a, s, l)
<1>1. Conversion!BuildLine(line) =
        [line EXCEPT !.price = Conversion!Fmt(p), !.net = Conversion!Fmt(n),
                     !.rate = Conversion!Fmt(r), !.article_scheme = given_scheme,
                     !.charges = built]
  BY DEF Conversion!BuildLine, LineOf
<1> HIDE DEF built, given_scheme
<1>2. Conversion!BuildLine(line) \in
        [id : {i}, quantity : {q}, base : {b}, price : {Conversion!Fmt(p)},
         net : {Conversion!Fmt(n)}, category : {c}, rate : {Conversion!Fmt(r)}, article : {a},
         article_scheme : {given_scheme}, charges : {built}]
  BY <1>1, ZenonT(30) DEF LineOf
<1>3. QED
  BY <1>2 DEF LineOf, built, given_scheme

LEMMA LineKept ==
  ASSUME NEW el, Conversion!IsLine(el)
  PROVE  LET line == Conversion!ParseLine(el) written == Conversion!BuildLine(line)
         IN /\ Conversion!IsLine(line) /\ Conversion!IsLine(Conversion!BuildLine(el))
            /\ Conversion!ParseLine(written) = written
            /\ Conversion!BuildLine(written) = written
<1> DEFINE i == el.id
           q == el.quantity
           b == el.base
           p == el.price
           n == el.net
           c == el.category
           r == el.rate
           a == el.article
           s == el.article_scheme
           l == el.charges
<1>1. /\ el = LineOf(i, q, b, p, n, c, r, a, s, l)
      /\ p \in Int /\ n \in Int /\ r \in Int
      /\ \A x \in DOMAIN l : Conversion!IsCharge(l[x])
  BY DEF Conversion!IsLine, LineOf
<1> HIDE DEF i, q, b, p, n, c, r, a, s, l
<1> DEFINE d == Conversion!OrElse(c, "S")
           P == Conversion!Fmt(p)
           N == Conversion!Fmt(n)
           R == Conversion!Fmt(r)
           S == Conversion!If(Conversion!Given(a), s)
           read == Conversion!Each(l, Conversion!ParseCharge)
           L == Conversion!Each(read, Conversion!BuildCharge)
           B == Conversion!Each(l, Conversion!BuildCharge)
<1>2. Conversion!ParseLine(el) = LineOf(i, q, b, p, n, d, r, a, s, read)
  <2> HIDE DEF d, read
  <2>1. Conversion!ParseLine(el) = [el EXCEPT !.category = d, !.charges = read]
    BY <1>1 DEF Conversion!ParseLine, LineOf, d, read
  <2>2. Conversion!ParseLine(el) \in
          [id : {i}, quantity : {q}, base : {b}, price : {p}, net : {n}, category : {d},
           rate : {r}, article : {a}, article_scheme : {s}, charges : {read}]
    BY <1>1, <2>1 DEF LineOf
  <2>3. QED
    BY <2>2 DEF LineOf
<1>3. ASSUME NEW m \in Int, NEW u \in Int, NEW v \in Int, NEW x, NEW y, NEW z,
             \A k \in DOMAIN z : Conversion!IsCharge(z[k])
      PROVE  Conversion!IsLine(LineOf(i, q, b, m, u, x, v, a, y, z))
  BY <1>3 DEF Conversion!IsLine, LineOf
<1>4. /\ P \in Int /\ N \in Int /\ R \in Int
      /\ Conversion!Fmt(P) = P /\ Conversion!Fmt(N) = N /\ Conversion!Fmt(R) = R
  BY <1>1, FormattedOnce
<1>5. /\ Conversion!OrElse(d, "S") = d
      /\ Conversion!If(Conversion!Given(a), S) = S
  BY DEF Conversion!OrElse, Conversion!If
<1>6. /\ \A x \in DOMAIN read : Conversion!IsCharge(read[x])
      /\ \A x \in DOMAIN B : Conversion!IsCharge(B[x])
      /\ Conversion!Each(L, Conversion!ParseCharge) = L
      /\ Conversion!Each(L, Conversion!BuildCharge) = L
  BY <1>1, ChargesKept
<1>7. /\ Conversion!BuildLine(LineOf(i, q, b, p, n, d, r, a, s, read)) =
           LineOf(i, q, b, P, N, d, R, a, S, L)
      /\ Conversion!BuildLine(el) = LineOf(i, q, b, P, N, c, R, a, S, B)
  BY <1>1, LineBuilt
<1> HIDE DEF d, P, N, R, S, read, L, B
<1>8. Conversion!ParseLine(LineOf(i, q, b, P, N, d, R, a, S, L)) =
        LineOf(i, q, b, P, N, d, R, a, S, L)
  <2> DEFINE line == LineOf(i, q, b, P, N, d, R, a, S, L)
  <2>1. Conversion!ParseLine(line) = [line EXCEPT !.category = d, !.charges = L]
    BY <1>5, <1>6 DEF Conversion!ParseLine, LineOf
  <2>2. QED
    BY <2>1 DEF LineOf
<1>9. Conversion!BuildLine(LineOf(i, q, b, P, N, d, R, a, S, L)) =
        LineOf(i, q, b, P, N, d, R, a, S, L)
  BY <1>4, <1>5, <1>6, LineBuilt
<1>10. Conversion!IsLine(Conversion!ParseLine(el)) /\ Conversion!IsLine(Conversion!BuildLine(el))
  BY <1>1, <1>2, <1>3, <1>4, <1>6, <1>7
<1>11. QED
  BY <1>2, <1>7, <1>8, <1>9, <1>10

LEMMA LinesKept ==
  ASSUME NEW items, \A i \in DOMAIN items : Conversion!IsLine(items[i])
  PROVE  LET read == Conversion!Each(items, Conversion!ParseLine)
             written == Conversion!Each(read, Conversion!BuildLine)
             built == Conversion!Each(items, Conversion!BuildLine)
         IN /\ \A i \in DOMAIN read : Conversion!IsLine(read[i])
            /\ \A i \in DOMAIN built : Conversion!IsLine(built[i])
            /\ Conversion!Each(written, Conversion!ParseLine) = written
            /\ Conversion!Each(written, Conversion!BuildLine) = written
BY LineKept DEF Conversion!Each

-----------------------------------------------------------------------------
(* Parties *)

\* None, for what is absent, is not taken for the record of what is there.
NoneIsNoRecord == None # [x \in DOMAIN None |-> None[x]]

LEMMA RecordsAreGiven ==
  ASSUME NoneIsNoRecord, NEW f, f = [x \in DOMAIN f |-> f[x]] PROVE f # None
<1> SUFFICES ASSUME f = None PROVE FALSE
  OBVIOUS
<1>1. None = [x \in DOMAIN None |-> None[x]]
  OBVIOUS
<1>2. QED
  BY <1>1 DEF NoneIsNoRecord

LEMMA PartyBuilt ==
  ASSUME NoneIsNoRecord, NEW party
  PROVE  LET el == Conversion!BuildPartyUbl(party)
         IN /\ el # None /\ Conversion!IsParty(el)
<1> DEFINE el == Conversion!BuildPartyUbl(party)
<1>1. el # None
  <2>1. el = [x \in DOMAIN el |-> el[x]]
    BY DEF Conversion!BuildPartyUbl
  <2> HIDE DEF el
  <2>2. QED
    BY <2>1, RecordsAreGiven
<1>2. el.company_ids = <<>> \/ Conversion!Given(el.company_ids[1].id)
  BY DEF Conversion!BuildPartyUbl
<1>3. Conversion!Given(el.endpoint) \/ el.endpoint_scheme = None
  BY DEF Conversion!BuildPartyUbl, Conversion!If
<1>4. el.contact = None \/ \E c \in DOMAIN el.contact : Conversion!Given(el.contact[c])
  BY DEF Conversion!BuildPartyUbl, Conversion!Contact, Conversion!If
<1>5. QED
  BY <1>1, <1>2, <1>3, <1>4 DEF Conversion!IsParty

PartyOf(name, vat_id, endpoint, endpoint_scheme, address, contact) ==
  [name |-> name, vat_id |-> vat_id, endpoint |-> endpoint, endpoint_scheme |-> endpoint_scheme,
   address |-> address, contact |-> contact]

\* A party that was read is written and read again as it was.
LEMMA PartyKept ==
  ASSUME NoneIsNoRecord, NEW el, Conversion!IsParty(el)
  PROVE  LET party == Conversion!ParseParty(el)
         IN Conversion!ParseParty(Conversion!BuildPartyUbl(party)) = party
<1> DEFINE party == Conversion!ParseParty(el)
           n == party.name
           v == party.vat_id
           e == party.endpoint
           s == party.endpoint_scheme
           a == party.address
           c == party.contact
<1>1. /\ party = PartyOf(n, v, e, s, a, c)
      /\ n = Conversion!OrElse(n, "")
      /\ v = None \/ Conversion!Given(v)
      /\ Conversion!Given(e) \/ s = None
      /\ a = Conversion!NoAddress \/ a # None
      /\ \/ c # None /\ \E x \in DOMAIN c : Conversion!Given(c[x])
         \/ c = Conversion!NoContact
  <2>1. CASE el = None
    BY <2>1 DEF Conversion!ParseParty, Conversion!NoParty, Conversion!OrElse, Conversion!Given,
       PartyOf
  <2>2. CASE el # None
    <3>1. party = PartyOf(Conversion!OrElse(el.name, ""),
                          IF el.company_ids = <<>> THEN None ELSE el.company_ids[1].id,
                          el.endpoint, el.endpoint_scheme,
                          IF el.address = None THEN Conversion!NoAddress ELSE el.address,
                          IF el.contact = None THEN Conversion!NoContact ELSE el.contact)
      BY <2>2 DEF Conversion!ParseParty, PartyOf
    <3> HIDE DEF party
    <3>2. /\ n = Conversion!OrElse(el.name, "")
          /\ v = (IF el.company_ids = <<>> THEN None ELSE el.company_ids[1].id)
          /\ e = el.endpoint /\ s = el.endpoint_scheme
          /\ a = (IF el.address = None THEN Conversion!NoAddress ELSE el.address)
          /\ c = (IF el.contact = None THEN Conversion!NoContact ELSE el.contact)
          /\ party = PartyOf(n, v, e, s, a, c)
      BY <3>1 DEF PartyOf
    <3>3. n = Conversion!OrElse(n, "")
      BY <3>2 DEF Conversion!OrElse
    <3>4. /\ v = None \/ Conversion!Given(v)
          /\ Conversion!Given(e) \/ s = None
          /\ \/ c # None /\ \E x \in DOMAIN c : Conversion!Given(c[x])
             \/ c = Conversion!NoContact
      BY <2>2, <3>2 DEF Conversion!IsParty
    <3>5. QED
      BY <3>2, <3>3, <3>4
  <2>3. QED
    BY <2>1, <2>2
<1> HIDE DEF party, n, v, e, s, a, c
<1> DEFINE written == Conversion!BuildPartyUbl(PartyOf(n, v, e, s, a, c))
<1>2. written # None
  BY PartyBuilt
<1>3. written.company_ids =
        IF v = None THEN <<>> ELSE <<[of |-> "VAT", id |-> v]>>
  BY <1>1 DEF Conversion!BuildPartyUbl, PartyOf, Conversion!Given
<1>4. /\ written.name = n /\ written.endpoint = e /\ written.address = a
      /\ written.endpoint_scheme = s
  BY <1>1 DEF Conversion!BuildPartyUbl, PartyOf, Conversion!If
<1>5. (IF written.contact = None THEN Conversion!NoContact ELSE written.contact) = c
  <2>1. written.contact = Conversion!If(\E x \in DOMAIN c : Conversion!Given(c[x]), c)
    BY DEF Conversion!BuildPartyUbl, PartyOf, Conversion!Contact
  <2>2. CASE c # None /\ \E x \in DOMAIN c : Conversion!Given(c[x])
    BY <2>1, <2>2 DEF Conversion!If
  <2>3. CASE c = Conversion!NoContact
    <3>1. ~\E x \in DOMAIN c : Conversion!Given(c[x])
      BY <2>3 DEF Conversion!NoContact, Conversion!Given
    <3>2. QED
      BY <2>1, <2>3, <3>1 DEF Conversion!If
  <2>4. QED
    BY <1>1, <2>2, <2>3
<1>6. (IF written.company_ids = <<>> THEN None ELSE written.company_ids[1].id) = v
  BY <1>3
<1>7. (IF written.address = None THEN Conversion!NoAddress ELSE written.address) = a
  BY <1>1, <1>4
<1> HIDE DEF written
<1>8. Conversion!ParseParty(written) = PartyOf(n, v, e, s, a, c)
  BY <1>1, <1>2, <1>4, <1>5, <1>6, <1>7 DEF Conversion!ParseParty, PartyOf
<1>9. QED
  BY <1>1, <1>8 DEF written, party

-----------------------------------------------------------------------------
(* Documents *)

Lost == {{"document_uuid"}, {"document_uuid", "business_process"}}

\* What the parsers read, and what is left out of it.
LEMMA PartsRead ==
  ASSUME NEW d, Conversion!IsDocument(d)
  PROVE  LET inv == Conversion!Parse(d)
         IN /\ inv.type \notin {None, ""}
            /\ \E lost \in Lost : inv.text = Conversion!HeaderRead(d, lost)
            /\ inv.date = [d.date EXCEPT
                 !["due_date"] = inv.date["due_date"],
                 !["invoice_date"] = Conversion!OrElse(d.date["invoice_date"], Conversion!Today)]
            /\ inv.seller = Conversion!ParseParty(d.seller)
            /\ inv.buyer = Conversion!ParseParty(d.buyer)
            /\ inv.charges = Conversion!Each(d.charges, Conversion!ParseCharge)
            /\ inv.taxes = Conversion!Each(d.taxes, Conversion!ParseTax)
            /\ inv.lines \in {Conversion!Each(d.lines, Conversion!ParseLine), <<>>}
            /\ \E lost \in {{}, {"rounding_amount"}} : inv.total = Conversion!TotalsRead(d, lost)
            /\ inv = [type |-> inv.type, text |-> inv.text, date |-> inv.date,
                      seller |-> inv.seller, buyer |-> inv.buyer, means |-> inv.means,
                      charges |-> inv.charges, total |-> inv.total, taxes |-> inv.taxes,
                      lines |-> inv.lines]
<1> DEFINE inv == Conversion!Parse(d)
<1>1. None \notin {"380", "381"}
  BY DataAssumption
<1>2. DOMAIN d.date = Conversion!Dates /\ d.date = [x \in Conversion!Dates |-> d.date[x]]
  BY DEF Conversion!IsDocument, Conversion!HasParts, Conversion!IsDate
<1>3. CASE d.root = "CrossIndustryInvoice"
  <2> DEFINE text == Conversion!HeaderRead(d, {"document_uuid", "business_process"})
             date == [d.date EXCEPT !["invoice_date"] =
                        Conversion!OrElse(d.date["invoice_date"], Conversion!Today)]
             total == Conversion!TotalsRead(d, {"rounding_amount"})
             charges == Conversion!Each(d.charges, Conversion!ParseCharge)
             taxes == Conversion!Each(d.taxes, Conversion!ParseTax)
             lines == Conversion!Each(d.lines, Conversion!ParseLine)
             means == Conversion!ParseMeansCii(d.means)
             seller == Conversion!ParseParty(d.seller)
             buyer == Conversion!ParseParty(d.buyer)
             type == Conversion!OrElse(d.type, "380")
  <2>1. inv = [type |-> type, text |-> text, date |-> date, seller |-> seller, buyer |-> buyer,
               means |-> means, charges |-> charges, total |-> total, taxes |-> taxes,
               lines |-> lines]
    BY <1>3 DEF Conversion!Parse, Conversion!ParseCii, Conversion!ParsePartyCii,
       Conversion!ParseChargeCii, Conversion!ParseTaxCii, Conversion!ParseLineCii,
       Conversion!Each
  <2>2. type \notin {None, ""}
    BY <1>1 DEF Conversion!OrElse
  <2>3. date = [d.date EXCEPT
                 !["due_date"] = date["due_date"],
                 !["invoice_date"] = Conversion!OrElse(d.date["invoice_date"], Conversion!Today)]
    BY <1>2 DEF Conversion!Dates
  <2> HIDE DEF inv, text, date, total, charges, taxes, lines, means, seller, buyer, type
  <2>4. /\ inv.type = type /\ inv.text = text /\ inv.date = date /\ inv.seller = seller
        /\ inv.buyer = buyer /\ inv.means = means /\ inv.charges = charges
        /\ inv.total = total /\ inv.taxes = taxes /\ inv.lines = lines
    BY <2>1
  <2>5. \E lost \in Lost : text = Conversion!HeaderRead(d, lost)
    BY DEF text, Lost
  <2>6. \E lost \in {{}, {"rounding_amount"}} : total = Conversion!TotalsRead(d, lost)
    BY DEF total
  <2>7. QED
    BY <2>1, <2>2, <2>3, <2>4, <2>5, <2>6 DEF inv, charges, taxes, lines, seller, buyer
<1>4. CASE d.root # "CrossIndustryInvoice"
  <2> DEFINE due == IF d.date["due_date"] # None \/ d.means = None THEN d.date["due_date"]
                    ELSE d.means.due
             text == Conversion!HeaderRead(d, {"document_uuid"})
             date == [d.date EXCEPT !["due_date"] = due, !["invoice_date"] =
                        Conversion!OrElse(d.date["invoice_date"], Conversion!Today)]
             total == Conversion!TotalsRead(d, {})
             charges == Conversion!Each(d.charges, Conversion!ParseCharge)
             taxes == Conversion!Each(d.taxes, Conversion!ParseTax)
             lines == IF d.line_tag = d.root
                      THEN Conversion!Each(d.lines, Conversion!ParseLine) ELSE <<>>
             means == Conversion!ParseMeansUbl(d.means)
             seller == Conversion!ParseParty(d.seller)
             buyer == Conversion!ParseParty(d.buyer)
             type == Conversion!OrElse(d.type, IF d.root = "CreditNote" THEN "381" ELSE "380")
  <2>1. inv = [type |-> type, text |-> text, date |-> date, seller |-> seller, buyer |-> buyer,
               means |-> means, charges |-> charges, total |-> total, taxes |-> taxes,
               lines |-> lines]
    BY <1>4 DEF Conversion!Parse, Conversion!ParseUbl
  <2>2. type \notin {None, ""}
    BY <1>1 DEF Conversion!OrElse
  <2>3. date["due_date"] = due
    BY <1>2 DEF Conversion!Dates
  <2>4. date = [d.date EXCEPT
                 !["due_date"] = date["due_date"],
                 !["invoice_date"] = Conversion!OrElse(d.date["invoice_date"], Conversion!Today)]
    BY <2>3
  <2> HIDE DEF inv, text, date, total, charges, taxes, lines, means, seller, buyer, type
  <2>5. /\ inv.type = type /\ inv.text = text /\ inv.date = date /\ inv.seller = seller
        /\ inv.buyer = buyer /\ inv.means = means /\ inv.charges = charges
        /\ inv.total = total /\ inv.taxes = taxes /\ inv.lines = lines
    BY <2>1
  <2>6. \E lost \in Lost : text = Conversion!HeaderRead(d, lost)
    BY DEF text, Lost
  <2>7. \E lost \in {{}, {"rounding_amount"}} : total = Conversion!TotalsRead(d, lost)
    BY DEF total
  <2>8. lines \in {Conversion!Each(d.lines, Conversion!ParseLine), <<>>}
    BY DEF lines
  <2>9. QED
    BY <2>1, <2>2, <2>4, <2>5, <2>6, <2>7, <2>8 DEF inv, charges, taxes, seller, buyer
<1>5. QED
  BY <1>3, <1>4

\* Texts but the UUID and the business process, which nothing but the serialisers
\* leaves out.
Kept(text) == DOMAIN text \ {"document_uuid", "business_process"}

TextRead(f, v) ==
  IF f \in {"profile", "invoice_number"} THEN Conversion!OrElse(v, "")
  ELSE IF f = "currency_code" THEN Conversion!OrElse(v, "EUR") ELSE v

LEMMA TextsRead ==
  ASSUME NEW d, Conversion!IsText(d.text), NEW lost \in Lost
  PROVE  LET text == Conversion!HeaderRead(d, lost)
         IN /\ Conversion!IsText(text) /\ DOMAIN text = DOMAIN d.text
            /\ \A f \in Kept(text) : text[f] = TextRead(f, d.text[f])
<1> DEFINE text == Conversion!HeaderRead(d, lost)
           Value(f) == IF f \in lost THEN None
                       ELSE CASE f \in {"profile", "invoice_number"} ->
                                   Conversion!OrElse(d.text[f], "")
                              [] f = "currency_code" -> Conversion!OrElse(d.text[f], "EUR")
                              [] OTHER -> d.text[f]
<1>1. text = [f \in DOMAIN d.text |-> Value(f)]
  BY DEF Conversion!HeaderRead
<1>2. ASSUME NEW f \in Kept(text) PROVE Value(f) = TextRead(f, d.text[f])
  <2>1. f \notin lost
    BY <1>2 DEF Lost, Kept
  <2>2. ~(f \in {"profile", "invoice_number"} /\ f = "currency_code")
    OBVIOUS
  <2>3. QED
    BY <2>1, <2>2 DEF TextRead
<1> HIDE DEF text, Value
<1>3. DOMAIN text = DOMAIN d.text /\ \A f \in DOMAIN text : text[f] = Value(f)
  BY <1>1
<1>4. Conversion!IsText(text)
  BY <1>1 DEF Conversion!IsText
<1>5. \A f \in Kept(text) : f \in DOMAIN text
  BY DEF Kept
<1>6. QED
  BY <1>2, <1>3, <1>4, <1>5 DEF text

\* What is read is an EN16931Invoice.
LEMMA InvoiceRead ==
  ASSUME NEW d, Conversion!IsDocument(d) PROVE Conversion!IsInvoice(Conversion!Parse(d))
<1> DEFINE inv == Conversion!Parse(d)
<1>1. /\ inv = [type |-> inv.type, text |-> inv.text, date |-> inv.date, seller |-> inv.seller,
                buyer |-> inv.buyer, means |-> inv.means, charges |-> inv.charges,
                total |-> inv.total, taxes |-> inv.taxes, lines |-> inv.lines]
      /\ \E lost \in Lost : inv.text = Conversion!HeaderRead(d, lost)
      /\ inv.date = [d.date EXCEPT
           !["due_date"] = inv.date["due_date"],
           !["invoice_date"] = Conversion!OrElse(d.date["invoice_date"], Conversion!Today)]
      /\ inv.charges = Conversion!Each(d.charges, Conversion!ParseCharge)
      /\ inv.taxes = Conversion!Each(d.taxes, Conversion!ParseTax)
      /\ inv.lines \in {Conversion!Each(d.lines, Conversion!ParseLine), <<>>}
      /\ \E lost \in {{}, {"rounding_amount"}} : inv.total = Conversion!TotalsRead(d, lost)
  BY PartsRead
<1> HIDE DEF inv
<1>2. Conversion!HasParts(d)
  BY DEF Conversion!IsDocument
<1>3. Conversion!IsText(inv.text)
  <2>1. PICK lost \in Lost : inv.text = Conversion!HeaderRead(d, lost)
    BY <1>1
  <2>2. Conversion!IsText(d.text)
    BY <1>2 DEF Conversion!HasParts
  <2>3. Conversion!IsText(Conversion!HeaderRead(d, lost))
    BY <2>2, TextsRead
  <2>4. QED
    BY <2>1, <2>3
<1>4. Conversion!IsDate(inv.date)
  BY <1>1, <1>2 DEF Conversion!HasParts, Conversion!IsDate
<1>5. \A i \in DOMAIN inv.taxes : Conversion!IsTax(inv.taxes[i])
  BY <1>1, <1>2, TaxesKept DEF Conversion!HasParts
<1>6. \A i \in DOMAIN inv.charges : Conversion!IsCharge(inv.charges[i])
  BY <1>1, <1>2, ChargesKept DEF Conversion!HasParts
<1>7. \A i \in DOMAIN inv.lines : Conversion!IsLine(inv.lines[i])
  <2>1. CASE inv.lines = <<>>
    BY <2>1
  <2>2. CASE inv.lines = Conversion!Each(d.lines, Conversion!ParseLine)
    BY <1>2, <2>2, LinesKept DEF Conversion!HasParts
  <2>3. QED
    BY <1>1, <2>1, <2>2
<1>8. inv.total \in [Conversion!TotalFields -> Int]
  <2>1. DOMAIN d.total = Conversion!TotalFields
    BY DEF Conversion!IsDocument
  <2>2. \A t \in Conversion!TotalFields : d.total[t] = None \/ d.total[t] \in Int
    BY DEF Conversion!IsDocument, Conversion!InCents
  <2>3. QED
    BY <1>1, <2>1, <2>2 DEF Conversion!TotalsRead
<1>9. QED
  BY <1>1, <1>3, <1>4, <1>5, <1>6, <1>7, <1>8 DEF Conversion!IsInvoice, Conversion!HasParts, inv

\* What the serialisers write.
LEMMA PartsWritten ==
  ASSUME NEW inv, NEW s \in Conversion!Syntaxes
  PROVE  LET d == Conversion!Build(inv, s)
         IN /\ d.root = IF s = "CII" THEN "CrossIndustryInvoice" ELSE Conversion!UblRoot(inv)
            /\ d.type = inv.type
            /\ d.text = IF s = "CII" THEN [inv.text EXCEPT !["document_uuid"] = None]
                        ELSE inv.text
            /\ d.date = Conversion!DatesWritten(inv)
            /\ d.seller = Conversion!BuildPartyUbl(inv.seller)
            /\ d.buyer = Conversion!BuildPartyUbl(inv.buyer)
            /\ d.charges = Conversion!Each(inv.charges, Conversion!BuildCharge)
            /\ d.total = IF s = "CII"
                         THEN [Conversion!TotalsWritten(inv) EXCEPT !["rounding_amount"] = None]
                         ELSE Conversion!TotalsWritten(inv)
            /\ d.taxes = Conversion!Each(inv.taxes, Conversion!BuildTax)
            /\ d.lines = Conversion!Each(inv.lines, Conversion!BuildLine)
            /\ d.means = IF s = "CII" THEN Conversion!BuildMeansCii(inv)
                         ELSE Conversion!BuildMeansUbl(inv)
<1>1. CASE s = "CII"
  <2> DEFINE reference == Conversion!If(inv.means # None, inv.means.payment_id)
             text == [inv.text EXCEPT !["document_uuid"] = None]
             date == Conversion!DatesWritten(inv)
             seller == Conversion!BuildPartyUbl(inv.seller)
             buyer == Conversion!BuildPartyUbl(inv.buyer)
             means == Conversion!BuildMeansCii(inv)
             charges == Conversion!Each(inv.charges, Conversion!BuildCharge)
             total == [Conversion!TotalsWritten(inv) EXCEPT !["rounding_amount"] = None]
             taxes == Conversion!Each(inv.taxes, Conversion!BuildTax)
             lines == Conversion!Each(inv.lines, Conversion!BuildLine)
             d == Conversion!Build(inv, s)
  <2>1. s # "UBL"
    BY <1>1
  <2>2. d = [root |-> "CrossIndustryInvoice", type |-> inv.type, text |-> text, date |-> date,
             seller |-> seller, buyer |-> buyer, means |-> means, reference |-> reference,
             charges |-> charges, total |-> total, taxes |-> taxes, lines |-> lines]
    BY <2>1 DEF Conversion!Build, Conversion!BuildCii, Conversion!CiiTotals,
       Conversion!BuildPartyCii, Conversion!BuildChargeCii, Conversion!BuildTaxCii,
       Conversion!BuildLineCii, Conversion!Each
  <2> HIDE DEF reference, text, date, seller, buyer, means, charges, total, taxes, lines, d
  <2>3. /\ d.root = "CrossIndustryInvoice" /\ d.type = inv.type /\ d.text = text
        /\ d.date = date /\ d.seller = seller /\ d.buyer = buyer /\ d.means = means
        /\ d.charges = charges /\ d.total = total /\ d.taxes = taxes /\ d.lines = lines
    BY <2>2
  <2>4. QED
    BY <1>1, <2>1, <2>3 DEF text, date, seller, buyer, means, charges, total, taxes, lines, d
<1>2. CASE s = "UBL"
  <2>1. Conversion!Build(inv, s) = Conversion!UblDocument(inv, Conversion!UblRoot(inv))
    BY <1>2 DEF Conversion!Build, Conversion!BuildUbl
  <2>2. QED
    BY <1>2, <2>1 DEF Conversion!UblDocument
<1>3. QED
  BY <1>1, <1>2 DEF Conversion!Syntaxes

LEMMA TotalsFormatted ==
  ASSUME NEW inv, inv.total \in [Conversion!TotalFields -> Int]
  PROVE  LET total == Conversion!TotalsWritten(inv)
         IN /\ DOMAIN total = Conversion!TotalFields
            /\ \A t \in Conversion!TotalFields : total[t] \in Int /\ Conversion!InCents(total[t])
BY FormattedOnce DEF Conversion!TotalsWritten

\* What is written of an invoice is a document.
LEMMA DocumentWritten ==
  ASSUME NoneIsNoRecord, NEW inv, Conversion!IsInvoice(inv), NEW s \in Conversion!Syntaxes
  PROVE  Conversion!IsDocument(Conversion!Build(inv, s))
<1> DEFINE d == Conversion!Build(inv, s)
<1>1. /\ d.root = IF s = "CII" THEN "CrossIndustryInvoice" ELSE Conversion!UblRoot(inv)
      /\ d.text = IF s = "CII" THEN [inv.text EXCEPT !["document_uuid"] = None] ELSE inv.text
      /\ d.date = Conversion!DatesWritten(inv)
      /\ d.seller = Conversion!BuildPartyUbl(inv.seller)
      /\ d.buyer = Conversion!BuildPartyUbl(inv.buyer)
      /\ d.charges = Conversion!Each(inv.charges, Conversion!BuildCharge)
      /\ d.total = IF s = "CII"
                   THEN [Conversion!TotalsWritten(inv) EXCEPT !["rounding_amount"] = None]
                   ELSE Conversion!TotalsWritten(inv)
      /\ d.taxes = Conversion!Each(inv.taxes, Conversion!BuildTax)
      /\ d.lines = Conversion!Each(inv.lines, Conversion!BuildLine)
  BY PartsWritten
<1> HIDE DEF d
<1>2. Conversion!HasParts(inv) /\ inv.total \in [Conversion!TotalFields -> Int]
  BY DEF Conversion!IsInvoice
<1>3. d.root \in {"CrossIndustryInvoice", "Invoice", "CreditNote"}
  BY <1>1 DEF Conversion!UblRoot
<1>4. Conversion!IsText(d.text)
  BY <1>1, <1>2 DEF Conversion!HasParts, Conversion!IsText
<1>5. Conversion!IsDate(d.date)
  BY <1>1, <1>2 DEF Conversion!HasParts, Conversion!IsDate, Conversion!DatesWritten
<1>6. \A i \in DOMAIN d.taxes : Conversion!IsTax(d.taxes[i])
  BY <1>1, <1>2, TaxesKept DEF Conversion!HasParts
<1>7. \A i \in DOMAIN d.charges : Conversion!IsCharge(d.charges[i])
  BY <1>1, <1>2, ChargesKept DEF Conversion!HasParts
<1>8. \A i \in DOMAIN d.lines : Conversion!IsLine(d.lines[i])
  BY <1>1, <1>2, LinesKept DEF Conversion!HasParts
<1>9. Conversion!IsParty(d.seller) /\ Conversion!IsParty(d.buyer)
  BY <1>1, PartyBuilt
<1>10. /\ DOMAIN d.total = Conversion!TotalFields
       /\ \A t \in Conversion!TotalFields : Conversion!InCents(d.total[t])
  BY <1>1, <1>2, TotalsFormatted DEF Conversion!InCents
<1>11. \/ Conversion!Given(d.text["preceding_invoice_reference"])
       \/ d.date["preceding_invoice_date"] = None
  BY <1>1, <1>2 DEF Conversion!HasParts, Conversion!IsText, Conversion!TextFields,
     Conversion!IsDate, Conversion!Dates, Conversion!DatesWritten, Conversion!If
<1>12. QED
  BY <1>3, <1>4, <1>5, <1>6, <1>7, <1>8, <1>9, <1>10, <1>11
     DEF Conversion!IsDocument, Conversion!HasParts, d

-----------------------------------------------------------------------------
(* Conversions *)

\* A date that was read and written is read and written as it was.
LEMMA DatesKept ==
  ASSUME NEW d, Conversion!IsDocument(d), NEW s \in Conversion!Syntaxes
  PROVE  LET inv == Conversion!Parse(d)
             after == Conversion!Parse(Conversion!Build(inv, s))
         IN Conversion!IsDocument(Conversion!Build(inv, s)) =>
              /\ after.date = Conversion!DatesWritten(inv)
              /\ after.text["preceding_invoice_reference"] = inv.text["preceding_invoice_reference"]
              /\ inv.text["preceding_invoice_reference"] = d.text["preceding_invoice_reference"]
              /\ Conversion!DatesWritten(after) = Conversion!DatesWritten(inv)
<1> DEFINE inv == Conversion!Parse(d)
           e == Conversion!Build(inv, s)
           after == Conversion!Parse(e)
           ref == "preceding_invoice_reference"
           preceding == "preceding_invoice_date"
           written == Conversion!DatesWritten(inv)
<1> SUFFICES ASSUME Conversion!IsDocument(e)
             PROVE  /\ after.date = written
                    /\ after.text[ref] = inv.text[ref] /\ inv.text[ref] = d.text[ref]
                    /\ Conversion!DatesWritten(after) = written
  OBVIOUS
<1>1. /\ Conversion!IsInvoice(inv)
      /\ \E lost \in Lost : inv.text = Conversion!HeaderRead(d, lost)
      /\ inv.date = [d.date EXCEPT
           !["due_date"] = inv.date["due_date"],
           !["invoice_date"] = Conversion!OrElse(d.date["invoice_date"], Conversion!Today)]
  BY PartsRead, InvoiceRead
<1>2. /\ \E lost \in Lost : after.text = Conversion!HeaderRead(e, lost)
      /\ after.date = [e.date EXCEPT
           !["due_date"] = after.date["due_date"],
           !["invoice_date"] = Conversion!OrElse(e.date["invoice_date"], Conversion!Today)]
  BY PartsRead
<1>3. /\ e.text = IF s = "CII" THEN [inv.text EXCEPT !["document_uuid"] = None] ELSE inv.text
      /\ e.date = written
      /\ e.root = IF s = "CII" THEN "CrossIndustryInvoice" ELSE Conversion!UblRoot(inv)
      /\ e.means = IF s = "CII" THEN Conversion!BuildMeansCii(inv)
                   ELSE Conversion!BuildMeansUbl(inv)
  BY PartsWritten
<1>4. after.date["due_date"] = inv.date["due_date"]
  <2>1. e.date["due_date"] = inv.date["due_date"]
    BY <1>1, <1>3 DEF Conversion!DatesWritten, Conversion!IsInvoice, Conversion!HasParts,
       Conversion!IsDate, Conversion!Dates
  <2>2. CASE s = "CII"
    <3>1. after.date = [e.date EXCEPT !["invoice_date"] =
                          Conversion!OrElse(@, Conversion!Today)]
      BY <1>3, <2>2 DEF Conversion!Parse, Conversion!ParseCii
    <3> HIDE DEF after, e, inv
    <3>2. "due_date" \in DOMAIN e.date
      BY DEF Conversion!IsDocument, Conversion!HasParts, Conversion!IsDate, Conversion!Dates
    <3>3. QED
      BY <2>1, <3>1, <3>2
  <2>3. CASE s = "UBL"
    <3>1. after.date = [e.date EXCEPT
            !["due_date"] = IF e.date["due_date"] # None \/ e.means = None
                            THEN e.date["due_date"] ELSE e.means.due,
            !["invoice_date"] = Conversion!OrElse(@, Conversion!Today)]
      BY <1>3, <2>3, ZenonT(30) DEF Conversion!Parse, Conversion!ParseUbl, Conversion!UblRoot
    <3>2. e.means # None => e.means.due = inv.date["due_date"]
      BY <1>3, <2>3 DEF Conversion!BuildMeansUbl, Conversion!If
    <3> HIDE DEF after, e, inv
    <3>3. "due_date" \in DOMAIN e.date
      BY DEF Conversion!IsDocument, Conversion!HasParts, Conversion!IsDate, Conversion!Dates
    <3>4. QED
      BY <2>1, <3>1, <3>2, <3>3
  <2>4. QED
    BY <2>2, <2>3 DEF Conversion!Syntaxes
<1> HIDE DEF inv, e, after
<1>5. Conversion!IsText(d.text) /\ Conversion!IsText(e.text) /\ Conversion!IsText(inv.text)
  BY <1>1 DEF Conversion!IsDocument, Conversion!IsInvoice, Conversion!HasParts
<1>6. inv.text[ref] = d.text[ref] /\ after.text[ref] = e.text[ref] /\ e.text[ref] = inv.text[ref]
  <2>1. ref \in DOMAIN d.text /\ ref \in DOMAIN e.text /\ ref \in DOMAIN inv.text
    BY <1>5 DEF Conversion!IsText, Conversion!TextFields
  <2>2. ASSUME NEW x, Conversion!IsText(x.text), NEW lost \in Lost
        PROVE  Conversion!HeaderRead(x, lost)[ref] = x.text[ref]
    <3> DEFINE text == Conversion!HeaderRead(x, lost)
    <3>1. /\ DOMAIN text = DOMAIN x.text
          /\ \A f \in Kept(text) : text[f] = TextRead(f, x.text[f])
      BY <2>2, TextsRead
    <3>2. ref \in Kept(text)
      BY <2>2, <3>1 DEF Kept, Conversion!IsText, Conversion!TextFields
    <3> HIDE DEF text
    <3>3. text[ref] = x.text[ref]
      BY <3>1, <3>2 DEF TextRead
    <3>4. QED
      BY <3>3 DEF text
  <2>3. inv.text[ref] = d.text[ref] /\ after.text[ref] = e.text[ref]
    BY <1>1, <1>2, <1>5, <2>2
  <2>4. e.text[ref] = inv.text[ref]
    BY <1>3, <2>1
  <2>5. QED
    BY <2>3, <2>4
<1>7. /\ DOMAIN d.date = Conversion!Dates /\ DOMAIN inv.date = Conversion!Dates
      /\ inv.date = [x \in Conversion!Dates |-> inv.date[x]]
      /\ e.date = [x \in Conversion!Dates |-> e.date[x]]
  BY <1>1 DEF Conversion!IsDocument, Conversion!IsInvoice, Conversion!HasParts, Conversion!IsDate
<1>8. /\ e.date = [inv.date EXCEPT ![preceding] =
           Conversion!If(Conversion!Given(inv.text[ref]), inv.date[preceding])]
      /\ written = e.date
  BY <1>3 DEF Conversion!DatesWritten
<1>9. after.date = written
  <2>1. /\ e.date["due_date"] = inv.date["due_date"]
        /\ e.date["invoice_date"] = inv.date["invoice_date"]
    BY <1>7, <1>8 DEF Conversion!Dates
  <2>2. inv.date["invoice_date"] = Conversion!OrElse(d.date["invoice_date"], Conversion!Today)
    BY <1>1, <1>7 DEF Conversion!Dates
  <2>3. Conversion!OrElse(inv.date["invoice_date"], Conversion!Today) = inv.date["invoice_date"]
    BY <2>2 DEF Conversion!OrElse
  <2>4. after.date = [e.date EXCEPT !["due_date"] = e.date["due_date"],
                                    !["invoice_date"] = e.date["invoice_date"]]
    BY <1>2, <1>4, <2>1, <2>3
  <2>5. QED
    BY <1>7, <1>8, <2>4
<1>10. Conversion!DatesWritten(after) = written
  <2>1. Conversion!DatesWritten(after) =
          [e.date EXCEPT ![preceding] =
             Conversion!If(Conversion!Given(inv.text[ref]), e.date[preceding])]
    BY <1>6, <1>8, <1>9 DEF Conversion!DatesWritten
  <2>2. Conversion!If(Conversion!Given(inv.text[ref]), e.date[preceding]) = e.date[preceding]
    BY <1>7, <1>8 DEF Conversion!If, Conversion!Dates
  <2>3. QED
    BY <1>7, <1>8, <2>1, <2>2, ZenonT(30)
<1>11. QED
  BY <1>6, <1>9, <1>10

LEMMA TextsKept ==
  ASSUME NEW d, Conversion!IsDocument(d), NEW s \in Conversion!Syntaxes,
         Conversion!IsDocument(Conversion!Build(Conversion!Parse(d), s))
  PROVE  LET inv == Conversion!Parse(d)
             after == Conversion!Parse(Conversion!Build(inv, s))
         IN /\ DOMAIN after.text = DOMAIN inv.text
            /\ \A f \in Kept(inv.text) : after.text[f] = inv.text[f]
<1> DEFINE inv == Conversion!Parse(d)
           e == Conversion!Build(inv, s)
           after == Conversion!Parse(e)
<1>1. PICK lost \in Lost : inv.text = Conversion!HeaderRead(d, lost)
  BY PartsRead
<1>2. PICK more \in Lost : after.text = Conversion!HeaderRead(e, more)
  BY PartsRead
<1>3. e.text = IF s = "CII" THEN [inv.text EXCEPT !["document_uuid"] = None] ELSE inv.text
  BY PartsWritten
<1>4. Conversion!IsText(d.text) /\ Conversion!IsText(e.text)
  BY DEF Conversion!IsDocument, Conversion!HasParts
<1>5. ASSUME NEW x, Conversion!IsText(x.text), NEW l \in Lost, NEW text,
             text = Conversion!HeaderRead(x, l)
      PROVE  /\ DOMAIN text = DOMAIN x.text
             /\ \A f \in Kept(text) : text[f] = TextRead(f, x.text[f])
  BY <1>5, TextsRead
<1>6. /\ DOMAIN inv.text = DOMAIN d.text
      /\ \A f \in Kept(inv.text) : inv.text[f] = TextRead(f, d.text[f])
  BY <1>1, <1>4, <1>5
<1>7. /\ DOMAIN after.text = DOMAIN e.text
      /\ \A f \in Kept(after.text) : after.text[f] = TextRead(f, e.text[f])
  BY <1>2, <1>4, <1>5
<1>8. \A f, v : TextRead(f, TextRead(f, v)) = TextRead(f, v)
  BY DEF TextRead, Conversion!OrElse
<1> HIDE DEF inv, e, after
<1>9. DOMAIN e.text = DOMAIN inv.text
  BY <1>3
<1>10. ASSUME NEW f \in Kept(inv.text) PROVE after.text[f] = inv.text[f]
  <2>1. f \in Kept(after.text)
    BY <1>7, <1>9 DEF Kept
  <2>2. e.text[f] = inv.text[f]
    BY <1>3 DEF Kept
  <2>3. QED
    BY <1>6, <1>7, <1>8, <2>1, <2>2
<1>11. QED
  BY <1>7, <1>9, <1>10 DEF inv, e, after

\* The totals of what is read again: those written, but for the rounding amount.
LEMMA TotalsKept ==
  ASSUME NEW d, Conversion!IsDocument(d), NEW s \in Conversion!Syntaxes,
         Conversion!IsDocument(Conversion!Build(Conversion!Parse(d), s))
  PROVE  LET inv == Conversion!Parse(d)
             e == Conversion!Build(inv, s)
             after == Conversion!Parse(e)
         IN [Conversion!TotalsWritten(after) EXCEPT !["rounding_amount"] = 0] =
            [Conversion!TotalsWritten(inv) EXCEPT !["rounding_amount"] = 0]
<1> DEFINE inv == Conversion!Parse(d)
           e == Conversion!Build(inv, s)
           after == Conversion!Parse(e)
           r == "rounding_amount"
<1>1. /\ inv.total \in [Conversion!TotalFields -> Int]
      /\ after.total \in [Conversion!TotalFields -> Int]
  BY InvoiceRead DEF Conversion!IsInvoice
<1>2. PICK lost \in {{}, {r}} : after.total = Conversion!TotalsRead(e, lost)
  BY PartsRead
<1>3. e.total = IF s = "CII" THEN [Conversion!TotalsWritten(inv) EXCEPT ![r] = None]
                ELSE Conversion!TotalsWritten(inv)
  BY PartsWritten
<1> HIDE DEF inv, e, after
<1>4. None \notin Int
  BY DataAssumption
<1>5. ASSUME NEW t \in Conversion!TotalFields, t # r
      PROVE  after.total[t] = Conversion!TotalsWritten(inv)[t]
  <2>1. /\ DOMAIN Conversion!TotalsWritten(inv) = Conversion!TotalFields
        /\ Conversion!TotalsWritten(inv)[t] \in Int
    BY <1>1, TotalsFormatted
  <2>2. DOMAIN e.total = Conversion!TotalFields /\ e.total[t] = Conversion!TotalsWritten(inv)[t]
    BY <1>3, <1>5, <2>1
  <2>3. t \notin lost /\ e.total[t] # None
    BY <1>2, <1>4, <1>5, <2>1, <2>2
  <2>4. QED
    BY <1>2, <2>2, <2>3 DEF Conversion!TotalsRead
<1>6. ASSUME NEW t \in Conversion!TotalFields, t # r
      PROVE  Conversion!TotalsWritten(after)[t] = Conversion!TotalsWritten(inv)[t]
  BY <1>1, <1>5, <1>6, FormattedOnce DEF Conversion!TotalsWritten
<1>7. /\ Conversion!TotalsWritten(after) =
           [t \in Conversion!TotalFields |-> Conversion!TotalsWritten(after)[t]]
      /\ Conversion!TotalsWritten(inv) =
           [t \in Conversion!TotalFields |-> Conversion!TotalsWritten(inv)[t]]
  BY <1>1 DEF Conversion!TotalsWritten
<1>8. [Conversion!TotalsWritten(after) EXCEPT ![r] = 0] =
        [Conversion!TotalsWritten(inv) EXCEPT ![r] = 0]
  BY <1>6, <1>7
<1>9. QED
  BY <1>8 DEF inv, e, after

\* What both syntaxes carry survives a conversion.
LEMMA CarriedOnce ==
  ASSUME NoneIsNoRecord, NEW d, Conversion!IsDocument(d), NEW s \in Conversion!Syntaxes
  PROVE  LET inv == Conversion!Parse(d)
             e == Conversion!Build(inv, s)
         IN /\ Conversion!IsDocument(e)
            /\ Conversion!Carried(Conversion!Parse(e)) = Conversion!Carried(inv)
<1> DEFINE inv == Conversion!Parse(d)
           e == Conversion!Build(inv, s)
           after == Conversion!Parse(e)
<1>1. Conversion!IsInvoice(inv) /\ Conversion!IsDocument(e)
  BY InvoiceRead, DocumentWritten
<1>2. /\ inv.type \notin {None, ""}
      /\ inv.seller = Conversion!ParseParty(d.seller)
      /\ inv.buyer = Conversion!ParseParty(d.buyer)
      /\ inv.charges = Conversion!Each(d.charges, Conversion!ParseCharge)
      /\ inv.taxes = Conversion!Each(d.taxes, Conversion!ParseTax)
      /\ inv.lines \in {Conversion!Each(d.lines, Conversion!ParseLine), <<>>}
  BY PartsRead
<1>3. /\ after.seller = Conversion!ParseParty(e.seller)
      /\ after.buyer = Conversion!ParseParty(e.buyer)
      /\ after.charges = Conversion!Each(e.charges, Conversion!ParseCharge)
      /\ after.taxes = Conversion!Each(e.taxes, Conversion!ParseTax)
  BY <1>1, PartsRead
<1>4. /\ e.type = inv.type
      /\ e.seller = Conversion!BuildPartyUbl(inv.seller)
      /\ e.buyer = Conversion!BuildPartyUbl(inv.buyer)
      /\ e.charges = Conversion!Each(inv.charges, Conversion!BuildCharge)
      /\ e.taxes = Conversion!Each(inv.taxes, Conversion!BuildTax)
      /\ e.lines = Conversion!Each(inv.lines, Conversion!BuildLine)
      /\ e.root = IF s = "CII" THEN "CrossIndustryInvoice" ELSE Conversion!UblRoot(inv)
      /\ s = "UBL" => e.line_tag = e.root
  <2> HIDE DEF inv
  <2>1. /\ e.type = inv.type
        /\ e.seller = Conversion!BuildPartyUbl(inv.seller)
        /\ e.buyer = Conversion!BuildPartyUbl(inv.buyer)
        /\ e.root = IF s = "CII" THEN "CrossIndustryInvoice" ELSE Conversion!UblRoot(inv)
    BY PartsWritten
  <2>2. /\ e.charges = Conversion!Each(inv.charges, Conversion!BuildCharge)
        /\ e.taxes = Conversion!Each(inv.taxes, Conversion!BuildTax)
        /\ e.lines = Conversion!Each(inv.lines, Conversion!BuildLine)
    BY PartsWritten
  <2>3. s = "UBL" => e.line_tag = e.root
    BY DEF Conversion!Build, Conversion!BuildUbl, Conversion!UblDocument
  <2>4. QED
    BY <2>1, <2>2, <2>3
<1>5. after.type = inv.type
  <2>1. \A default : Conversion!OrElse(e.type, default) = inv.type
    BY <1>2, <1>4 DEF Conversion!OrElse
  <2>2. CASE e.root = "CrossIndustryInvoice"
    BY <2>1, <2>2 DEF Conversion!Parse, Conversion!ParseCii
  <2>3. CASE e.root # "CrossIndustryInvoice"
    BY <2>1, <2>3 DEF Conversion!Parse, Conversion!ParseUbl
  <2>4. QED
    BY <2>2, <2>3
<1>6. after.lines = Conversion!Each(e.lines, Conversion!ParseLine)
  BY <1>4, ZenonT(30)
  DEF Conversion!Parse, Conversion!ParseCii, Conversion!ParseUbl, Conversion!Syntaxes,
     Conversion!ParseLineCii, Conversion!Each, Conversion!UblRoot
<1>7. /\ Conversion!DatesWritten(after) = Conversion!DatesWritten(inv)
      /\ DOMAIN after.text = DOMAIN inv.text
      /\ \A f \in Kept(inv.text) : after.text[f] = inv.text[f]
      /\ [Conversion!TotalsWritten(after) EXCEPT !["rounding_amount"] = 0] =
         [Conversion!TotalsWritten(inv) EXCEPT !["rounding_amount"] = 0]
  BY <1>1, DatesKept, TextsKept, TotalsKept
<1> HIDE DEF inv, e, after
<1>8. Conversion!IsParty(d.seller) /\ Conversion!IsParty(d.buyer) /\ Conversion!HasParts(d)
  BY DEF Conversion!IsDocument
<1>9. after.seller = inv.seller /\ after.buyer = inv.buyer
  BY <1>2, <1>3, <1>4, <1>8, PartyKept, ZenonT(30)
<1>10. Conversion!Each(after.taxes, Conversion!BuildTax) =
         Conversion!Each(inv.taxes, Conversion!BuildTax)
  <2>1. \A i \in DOMAIN d.taxes : Conversion!IsTax(d.taxes[i])
    BY <1>8 DEF Conversion!HasParts
  <2>2. Conversion!Each(e.taxes, Conversion!ParseTax) = e.taxes
    BY <1>2, <1>4, <2>1, TaxesKept
  <2>3. Conversion!Each(e.taxes, Conversion!BuildTax) = e.taxes
    BY <1>2, <1>4, <2>1, TaxesKept, ZenonT(30)
  <2>4. QED
    BY <1>3, <1>4, <2>2, <2>3
<1>11. Conversion!Each(after.charges, Conversion!BuildCharge) =
         Conversion!Each(inv.charges, Conversion!BuildCharge)
  <2>1. \A i \in DOMAIN d.charges : Conversion!IsCharge(d.charges[i])
    BY <1>8 DEF Conversion!HasParts
  <2>2. Conversion!Each(e.charges, Conversion!ParseCharge) = e.charges
    BY <1>2, <1>4, <2>1, ChargesKept
  <2>3. Conversion!Each(e.charges, Conversion!BuildCharge) = e.charges
    BY <1>2, <1>4, <2>1, ChargesKept, ZenonT(30)
  <2>4. QED
    BY <1>3, <1>4, <2>2, <2>3
<1>12. Conversion!Each(after.lines, Conversion!BuildLine) =
         Conversion!Each(inv.lines, Conversion!BuildLine)
  <2>1. PICK items : /\ inv.lines = Conversion!Each(items, Conversion!ParseLine)
                     /\ \A i \in DOMAIN items : Conversion!IsLine(items[i])
    <3>1. CASE inv.lines = <<>>
      <4>1. DOMAIN <<>> = {} /\ Conversion!Each(<<>>, Conversion!ParseLine) = <<>>
        BY DEF Conversion!Each
      <4>2. QED
        BY <3>1, <4>1
    <3>2. CASE inv.lines = Conversion!Each(d.lines, Conversion!ParseLine)
      BY <1>8, <3>2 DEF Conversion!HasParts
    <3>3. QED
      BY <1>2, <3>1, <3>2
  <2>2. Conversion!Each(e.lines, Conversion!ParseLine) = e.lines
    BY <1>4, <2>1, LinesKept
  <2>3. Conversion!Each(e.lines, Conversion!BuildLine) = e.lines
    BY <1>4, <2>1, LinesKept
  <2>4. QED
    BY <1>4, <1>6, <2>2, <2>3
<1>13. [f \in DOMAIN after.text \ {"document_uuid", "business_process"} |-> after.text[f]] =
       [f \in DOMAIN inv.text \ {"document_uuid", "business_process"} |-> inv.text[f]]
  BY <1>7 DEF Kept
<1>14. Conversion!Carried(after) = Conversion!Carried(inv)
  BY <1>5, <1>7, <1>9, <1>10, <1>11, <1>12, <1>13 DEF Conversion!Carried
<1>15. QED
  BY <1>1, <1>14 DEF inv, e, after

\* The account that is read again: the one written, if it has an IBAN.
AccountKept(before, after) ==
  before.means # None /\ before.means.iban \notin {None, "", Conversion!Blank} =>
    /\ after.means # None
    /\ after.means.iban = before.means.iban
    /\ after.means.account_name = before.means.account_name
    /\ after.means.bic = before.means.bic

LEMMA AccountOnce ==
  ASSUME NoneIsNoRecord, NEW inv, NEW s \in Conversion!Syntaxes
  PROVE  AccountKept(inv, Conversion!Parse(Conversion!Build(inv, s)))
<1> DEFINE e == Conversion!Build(inv, s)
           after == Conversion!Parse(e)
           pm == inv.means
<1> SUFFICES ASSUME pm # None, pm.iban \notin {None, "", Conversion!Blank}
             PROVE  /\ after.means # None
                    /\ after.means.iban = pm.iban
                    /\ after.means.account_name = pm.account_name
                    /\ after.means.bic = pm.bic
  BY DEF AccountKept
<1>1. /\ e.root = IF s = "CII" THEN "CrossIndustryInvoice" ELSE Conversion!UblRoot(inv)
      /\ e.means = IF s = "CII" THEN Conversion!BuildMeansCii(inv)
                   ELSE Conversion!BuildMeansUbl(inv)
  BY PartsWritten
<1>2. Conversion!Given(pm.iban) /\ Conversion!Stripped(pm.iban) = pm.iban
  BY DEF Conversion!Given, Conversion!Stripped
<1>3. CASE s = "CII"
  <2> DEFINE account == [id |-> pm.iban, name |-> pm.account_name]
             el == [code |-> pm.code, account |-> account, bic |-> pm.bic]
             read == [code |-> Conversion!OrElse(el.code, "30"), iban |-> pm.iban,
                      account_name |-> pm.account_name, bic |-> pm.bic, payment_id |-> None,
                      mandate |-> None, creditor |-> None]
  <2>1. e.means = el
    BY <1>1, <1>2, <1>3 DEF Conversion!BuildMeansCii, Conversion!If
  <2>2. account # None /\ el # None /\ read # None
    <3>1. /\ account = [x \in DOMAIN account |-> account[x]]
          /\ el = [x \in DOMAIN el |-> el[x]]
          /\ read = [x \in DOMAIN read |-> read[x]]
      OBVIOUS
    <3> HIDE DEF account, el, read
    <3>2. QED
      BY <3>1, RecordsAreGiven
  <2>3. after.means = Conversion!ParseMeansCii(el)
    BY <1>1, <1>3, <2>1 DEF Conversion!Parse, Conversion!ParseCii
  <2>4. Conversion!ParseMeansCii(el) = read
    BY <1>2, <2>2 DEF Conversion!ParseMeansCii, Conversion!If
  <2>5. /\ read.iban = pm.iban /\ read.account_name = pm.account_name
        /\ read.bic = pm.bic
    OBVIOUS
  <2> HIDE DEF read, el, after
  <2>6. QED
    BY <2>2, <2>3, <2>4, <2>5
<1>4. CASE s = "UBL"
  <2> DEFINE account == [id |-> pm.iban, name |-> pm.account_name, bic |-> pm.bic]
             mandate == Conversion!If(Conversion!Given(pm.mandate),
                                      [id |-> pm.mandate, creditor |-> pm.creditor])
             el == [code |-> pm.code, due |-> inv.date["due_date"], payment_id |-> pm.payment_id,
                    account |-> account, mandate |-> mandate]
             read == [code |-> Conversion!OrElse(el.code, "30"), payment_id |-> el.payment_id,
                      iban |-> pm.iban, bic |-> pm.bic, account_name |-> pm.account_name,
                      mandate |-> Conversion!If(mandate # None, mandate.id),
                      creditor |-> Conversion!If(mandate # None, mandate.creditor)]
  <2>1. e.means = el
    BY <1>1, <1>2, <1>4, Zenon DEF Conversion!BuildMeansUbl, Conversion!If
  <2>2. account # None /\ el # None /\ read # None
    <3>1. /\ account = [x \in DOMAIN account |-> account[x]]
          /\ el = [x \in DOMAIN el |-> el[x]]
          /\ read = [x \in DOMAIN read |-> read[x]]
      OBVIOUS
    <3> HIDE DEF account, el, read
    <3>2. QED
      BY <3>1, RecordsAreGiven
  <2>3. after.means = Conversion!ParseMeansUbl(el)
    BY <1>1, <1>4, <2>1 DEF Conversion!Parse, Conversion!ParseUbl, Conversion!UblRoot
  <2>4. Conversion!ParseMeansUbl(el) = read
    BY <1>2, <2>2 DEF Conversion!ParseMeansUbl, Conversion!If
  <2>5. /\ read.iban = pm.iban /\ read.account_name = pm.account_name
        /\ read.bic = pm.bic
    OBVIOUS
  <2> HIDE DEF read, el, after
  <2>6. QED
    BY <2>2, <2>3, <2>4, <2>5
<1>5. QED
  BY <1>3, <1>4 DEF Conversion!Syntaxes

\* A conversion changes the syntax.
LEMMA SyntaxChanges ==
  ASSUME NEW d, NEW s \in Conversion!Syntaxes, ~Conversion!ConversionRaises(d, s)
  PROVE  /\ s = "CII" <=> d.root # "CrossIndustryInvoice"
         /\ Conversion!Syntax(d) # s
BY DEF Conversion!ConversionRaises, Conversion!DetectSyntax, Conversion!Syntaxes,
   Conversion!Syntax

\* Every total but the rounding amount goes through a conversion, which drops that.
LEMMA AmountsKept ==
  ASSUME NEW d, Conversion!IsDocument(d), NEW s \in Conversion!Syntaxes,
         s = "CII" <=> d.root # "CrossIndustryInvoice"
  PROVE  LET e == Conversion!Build(Conversion!Parse(d), s)
         IN /\ Conversion!Amount(e, "rounding_amount") = 0
            /\ \A t \in Conversion!TotalFields \ {"rounding_amount"} :
                 Conversion!Amount(e, t) = Conversion!Amount(d, t)
<1> DEFINE inv == Conversion!Parse(d)
           e == Conversion!Build(inv, s)
           r == "rounding_amount"
<1>1. inv.total \in [Conversion!TotalFields -> Int]
  BY InvoiceRead DEF Conversion!IsInvoice
<1>2. PICK lost \in {{}, {r}} : inv.total = Conversion!TotalsRead(d, lost)
  BY PartsRead
<1>3. d.root = "CrossIndustryInvoice" => inv.total = Conversion!TotalsRead(d, {r})
  BY DEF Conversion!Parse, Conversion!ParseCii
<1>4. e.total = IF s = "CII" THEN [Conversion!TotalsWritten(inv) EXCEPT ![r] = None]
                ELSE Conversion!TotalsWritten(inv)
  BY PartsWritten
<1>5. /\ DOMAIN d.total = Conversion!TotalFields
      /\ \A t \in Conversion!TotalFields : Conversion!InCents(d.total[t])
  BY DEF Conversion!IsDocument
<1> HIDE DEF inv, e
<1>6. None \notin Int /\ 0 \in Int /\ 0 % 10 = 0
  BY DataAssumption
<1>7. \A n \in Int : n % 10 = 0 => Conversion!Fmt(n) = n /\ Conversion!FmtVat(n) = n
  BY CentsStay DEF Conversion!Fmt, Conversion!FmtVat
<1>8. ASSUME NEW t \in Conversion!TotalFields \ {r}
      PROVE  Conversion!Amount(e, t) = Conversion!Amount(d, t)
  <2>1. inv.total[t] = Conversion!Amount(d, t)
    BY <1>2, <1>5 DEF Conversion!TotalsRead, Conversion!Amount
  <2>2. inv.total[t] \in Int /\ inv.total[t] % 10 = 0
    BY <1>1, <1>5, <1>6, <2>1 DEF Conversion!Amount, Conversion!InCents
  <2>3. /\ Conversion!TotalsWritten(inv)[t] = inv.total[t]
        /\ DOMAIN Conversion!TotalsWritten(inv) = Conversion!TotalFields
    BY <1>1, <1>7, <2>2 DEF Conversion!TotalsWritten
  <2>4. e.total[t] = inv.total[t]
    BY <1>4, <2>3
  <2>5. QED
    BY <1>6, <2>1, <2>2, <2>4 DEF Conversion!Amount
<1>9. Conversion!Amount(e, r) = 0
  <2>1. /\ r \in Conversion!TotalFields
        /\ DOMAIN Conversion!TotalsWritten(inv) = Conversion!TotalFields
    BY <1>1 DEF Conversion!TotalFields, Conversion!TotalsWritten
  <2>2. CASE s = "CII"
    BY <1>4, <2>1, <2>2 DEF Conversion!Amount
  <2>3. CASE s # "CII"
    <3>1. inv.total[r] = 0
      BY <1>3, <1>5, <2>1, <2>3 DEF Conversion!TotalsRead
    <3>2. Conversion!TotalsWritten(inv)[r] = 0
      BY <1>1, <1>6, <1>7, <2>1, <3>1 DEF Conversion!TotalsWritten
    <3>3. QED
      BY <1>4, <2>3, <3>2 DEF Conversion!Amount
  <2>4. QED
    BY <2>2, <2>3
<1>10. QED
  BY <1>8, <1>9 DEF inv, e

\* A reference with a number goes through a conversion with its date.
LEMMA ReferenceKept ==
  ASSUME NoneIsNoRecord, NEW d, Conversion!IsDocument(d), NEW s \in Conversion!Syntaxes,
         Conversion!Given(d.text["preceding_invoice_reference"])
  PROVE  Conversion!Reference(Conversion!Build(Conversion!Parse(d), s)) = Conversion!Reference(d)
<1> DEFINE inv == Conversion!Parse(d)
           e == Conversion!Build(inv, s)
           ref == "preceding_invoice_reference"
           preceding == "preceding_invoice_date"
<1>1. Conversion!IsInvoice(inv) /\ Conversion!IsDocument(e)
  BY InvoiceRead, DocumentWritten
<1>2. inv.text[ref] = d.text[ref]
  BY <1>1, DatesKept
<1>3. inv.date = [d.date EXCEPT
        !["due_date"] = inv.date["due_date"],
        !["invoice_date"] = Conversion!OrElse(d.date["invoice_date"], Conversion!Today)]
  BY PartsRead
<1>4. /\ e.text = IF s = "CII" THEN [inv.text EXCEPT !["document_uuid"] = None] ELSE inv.text
      /\ e.date = Conversion!DatesWritten(inv)
  BY PartsWritten
<1> HIDE DEF inv, e
<1>5. e.text[ref] = inv.text[ref]
  BY <1>1, <1>4 DEF Conversion!IsInvoice, Conversion!HasParts, Conversion!IsText,
     Conversion!TextFields
<1>6. preceding \in DOMAIN d.date /\ preceding \in DOMAIN inv.date
  BY <1>1 DEF Conversion!IsInvoice, Conversion!IsDocument, Conversion!HasParts, Conversion!IsDate,
     Conversion!Dates
<1>7. e.date[preceding] = inv.date[preceding]
  BY <1>2, <1>4, <1>6 DEF Conversion!DatesWritten, Conversion!If
<1>8. inv.date[preceding] = d.date[preceding]
  BY <1>3, <1>6
<1>9. QED
  BY <1>2, <1>5, <1>7, <1>8 DEF Conversion!Reference, inv, e

-----------------------------------------------------------------------------
(* Payment means *)

MeansOf(code, iban, name, bic) ==
  [code |-> code, iban |-> iban, account_name |-> name, bic |-> bic,
   payment_id |-> None, mandate |-> None, creditor |-> None]

\* What is read of a CII document: a code, an account and a bank.
Bare(means) ==
  means = None \/ \E code, iban, name, bic :
    /\ means = MeansOf(code, iban, name, bic)
    /\ Conversion!OrElse(code, "30") = code
    /\ Conversion!Given(iban) => Conversion!Stripped(iban) = iban

\* What is left of it in a UBL document that is due on a day: a bank stands inside
\* the account.
InUbl(means, due) ==
  IF means = None THEN Conversion!If(due # None, MeansOf("1", None, None, None))
  ELSE IF Conversion!Given(means.iban) THEN means ELSE MeansOf(means.code, None, None, None)

LEMMA MeansAreGiven ==
  ASSUME NoneIsNoRecord, NEW code, NEW iban, NEW name, NEW bic
  PROVE  MeansOf(code, iban, name, bic) # None
<1> DEFINE m == MeansOf(code, iban, name, bic)
<1>1. m = [x \in DOMAIN m |-> m[x]]
  BY DEF MeansOf
<1> HIDE DEF m
<1>2. m # None
  BY <1>1, RecordsAreGiven
<1>3. QED
  BY <1>2 DEF m

LEMMA MeansReadFromCii ==
  ASSUME NEW el PROVE Bare(Conversion!ParseMeansCii(el))
<1> DEFINE code == Conversion!OrElse(el.code, "30")
           iban == Conversion!If(el.account # None, Conversion!Stripped(el.account.id))
           name == Conversion!If(el.account # None, el.account.name)
<1>1. CASE el = None
  BY <1>1 DEF Bare, Conversion!ParseMeansCii, Conversion!If
<1>2. CASE el # None
  <2>1. Conversion!ParseMeansCii(el) = MeansOf(code, iban, name, el.bic)
    BY <1>2 DEF Conversion!ParseMeansCii, Conversion!If, MeansOf
  <2>2. Conversion!OrElse(code, "30") = code
    BY DEF Conversion!OrElse
  <2>3. \A x : Conversion!Stripped(Conversion!Stripped(x)) = Conversion!Stripped(x)
    BY DEF Conversion!Stripped, Conversion!Blank
  <2>4. Conversion!Given(iban) => Conversion!Stripped(iban) = iban
    BY <2>3 DEF Conversion!If, Conversion!Given
  <2> HIDE DEF code, iban, name
  <2>5. QED
    BY <2>1, <2>2, <2>4 DEF Bare
<1>3. QED
  BY <1>1, <1>2

\* The means that are written and read.
LEMMA MeansThroughUbl ==
  ASSUME NoneIsNoRecord, NEW inv, Bare(inv.means)
  PROVE  Conversion!ParseMeansUbl(Conversion!BuildMeansUbl(inv)) =
           InUbl(inv.means, inv.date["due_date"])
<1> DEFINE due == inv.date["due_date"]
           Written(code, account) ==
             [code |-> code, due |-> due, payment_id |-> None, account |-> account,
              mandate |-> None]
           Inside(iban, name, bic) == [id |-> iban, name |-> name, bic |-> bic]
<1>1. \A code, account : Written(code, account) # None
  <2> TAKE code, account
  <2> DEFINE el == Written(code, account)
  <2>1. el = [x \in DOMAIN el |-> el[x]]
    OBVIOUS
  <2> HIDE DEF el
  <2>2. el # None
    BY <2>1, RecordsAreGiven
  <2>3. QED
    BY <2>2 DEF el
<1>2. \A iban, name, bic : Inside(iban, name, bic) # None
  <2> TAKE iban, name, bic
  <2> DEFINE el == Inside(iban, name, bic)
  <2>1. el = [x \in DOMAIN el |-> el[x]]
    OBVIOUS
  <2> HIDE DEF el
  <2>2. el # None
    BY <2>1, RecordsAreGiven
  <2>3. QED
    BY <2>2 DEF el
<1>3. CASE inv.means = None /\ due = None
  BY <1>3 DEF Conversion!BuildMeansUbl, Conversion!ParseMeansUbl, InUbl, Conversion!If
<1>4. CASE inv.means = None /\ due # None
  <2>1. Conversion!BuildMeansUbl(inv) = Written("1", None)
    BY <1>4 DEF Conversion!BuildMeansUbl, Conversion!If, Conversion!Given
  <2>2. Conversion!OrElse("1", "30") = "1"
    BY DataAssumption DEF Conversion!OrElse
  <2>3. Conversion!ParseMeansUbl(Written("1", None)) = MeansOf("1", None, None, None)
    BY <1>1, <2>2 DEF Conversion!ParseMeansUbl, Conversion!If, MeansOf
  <2>4. QED
    BY <1>4, <2>1, <2>3 DEF InUbl, Conversion!If
<1>5. CASE inv.means # None
  <2>1. PICK code, iban, name, bic :
          /\ inv.means = MeansOf(code, iban, name, bic)
          /\ Conversion!OrElse(code, "30") = code
          /\ Conversion!Given(iban) => Conversion!Stripped(iban) = iban
    BY <1>5 DEF Bare
  <2>2. /\ inv.means.code = code /\ inv.means.iban = iban /\ inv.means.account_name = name
        /\ inv.means.bic = bic /\ inv.means.payment_id = None /\ inv.means.mandate = None
    BY <2>1 DEF MeansOf
  <2>3. CASE Conversion!Given(iban)
    <3>1. Conversion!BuildMeansUbl(inv) = Written(code, Inside(iban, name, bic))
      BY <1>5, <2>2, <2>3 DEF Conversion!BuildMeansUbl, Conversion!If, Conversion!Given
    <3>2. Conversion!ParseMeansUbl(Written(code, Inside(iban, name, bic))) = inv.means
      <4>1. iban # None
        BY <2>3 DEF Conversion!Given
      <4>2. QED
        BY <1>1, <1>2, <2>1, <2>3, <4>1 DEF Conversion!ParseMeansUbl, Conversion!If, MeansOf
    <3>3. QED
      BY <1>5, <2>2, <2>3, <3>1, <3>2 DEF InUbl
  <2>4. CASE ~Conversion!Given(iban)
    <3>1. Conversion!BuildMeansUbl(inv) = Written(code, None)
      BY <1>5, <2>2, <2>4 DEF Conversion!BuildMeansUbl, Conversion!If, Conversion!Given
    <3>2. Conversion!ParseMeansUbl(Written(code, None)) = MeansOf(code, None, None, None)
      BY <1>1, <2>1 DEF Conversion!ParseMeansUbl, Conversion!If, MeansOf
    <3>3. QED
      BY <1>5, <2>2, <2>4, <3>1, <3>2 DEF InUbl
  <2>5. QED
    BY <2>3, <2>4
<1>6. QED
  BY <1>3, <1>4, <1>5

\* What is left in UBL is still bare, loses nothing more, and is written as before.
LEMMA MeansSettle ==
  ASSUME NoneIsNoRecord, NEW means, Bare(means), NEW due
  PROVE  LET left == InUbl(means, due)
         IN Bare(left) /\ InUbl(left, due) = left
<1> DEFINE left == InUbl(means, due)
<1>1. CASE means = None /\ due = None
  BY <1>1 DEF InUbl, Bare, Conversion!If
<1>2. CASE means = None /\ due # None
  <2>1. left = MeansOf("1", None, None, None)
    BY <1>2 DEF InUbl, Conversion!If
  <2>2. Conversion!OrElse("1", "30") = "1"
    BY DataAssumption DEF Conversion!OrElse
  <2>3. Bare(left)
    BY <2>1, <2>2 DEF Bare, Conversion!Given
  <2>4. left # None /\ left.code = "1" /\ left.iban = None
    BY <2>1, MeansAreGiven DEF MeansOf
  <2>5. QED
    BY <2>1, <2>3, <2>4 DEF InUbl, Conversion!Given
<1>3. CASE means # None
  <2>1. PICK code, iban, name, bic :
          /\ means = MeansOf(code, iban, name, bic)
          /\ Conversion!OrElse(code, "30") = code
          /\ Conversion!Given(iban) => Conversion!Stripped(iban) = iban
    BY <1>3 DEF Bare
  <2>2. means.code = code /\ means.iban = iban
    BY <2>1 DEF MeansOf
  <2>3. CASE Conversion!Given(iban)
    BY <1>3, <2>2, <2>3 DEF InUbl
  <2>4. CASE ~Conversion!Given(iban)
    <3>1. left = MeansOf(code, None, None, None)
      BY <1>3, <2>2, <2>4 DEF InUbl
    <3>2. Bare(left)
      BY <2>1, <3>1 DEF Bare, Conversion!Given
    <3>3. left # None /\ left.code = code /\ left.iban = None
      BY <3>1, MeansAreGiven DEF MeansOf
    <3>4. QED
      BY <3>1, <3>2, <3>3 DEF InUbl, Conversion!Given
  <2>5. QED
    BY <2>3, <2>4
<1>4. QED
  BY <1>1, <1>2, <1>3

\* Written in CII, what was left in UBL is read as it was.
LEMMA MeansThroughCii ==
  ASSUME NoneIsNoRecord, NEW means, Bare(means), NEW due,
         NEW inv, inv.means = InUbl(means, due)
  PROVE  Conversion!ParseMeansCii(Conversion!BuildMeansCii(inv)) = inv.means
<1> DEFINE Written(code, account, bic) == [code |-> code, account |-> account, bic |-> bic]
           Inside(iban, name) == [id |-> iban, name |-> name]
<1>1. \A code, account, bic : Written(code, account, bic) # None
  <2> TAKE code, account, bic
  <2> DEFINE el == Written(code, account, bic)
  <2>1. el = [x \in DOMAIN el |-> el[x]]
    OBVIOUS
  <2> HIDE DEF el
  <2>2. el # None
    BY <2>1, RecordsAreGiven
  <2>3. QED
    BY <2>2 DEF el
<1>2. \A iban, name : Inside(iban, name) # None
  <2> TAKE iban, name
  <2> DEFINE el == Inside(iban, name)
  <2>1. el = [x \in DOMAIN el |-> el[x]]
    OBVIOUS
  <2> HIDE DEF el
  <2>2. el # None
    BY <2>1, RecordsAreGiven
  <2>3. QED
    BY <2>2 DEF el
<1>3. CASE inv.means = None
  BY <1>3 DEF Conversion!BuildMeansCii, Conversion!ParseMeansCii, Conversion!If
<1>4. CASE inv.means # None
  <2>1. PICK code, iban, name, bic :
          /\ inv.means = MeansOf(code, iban, name, bic)
          /\ Conversion!OrElse(code, "30") = code
          /\ Conversion!Given(iban) => Conversion!Stripped(iban) = iban
    BY <1>4, MeansSettle DEF Bare
  <2>2. /\ inv.means.code = code /\ inv.means.iban = iban /\ inv.means.account_name = name
        /\ inv.means.bic = bic
    BY <2>1 DEF MeansOf
  <2>3. CASE Conversion!Given(iban)
    <3>1. Conversion!BuildMeansCii(inv) = Written(code, Inside(iban, name), bic)
      BY <1>4, <2>2, <2>3 DEF Conversion!BuildMeansCii, Conversion!If
    <3>2. QED
      BY <1>1, <1>2, <2>1, <2>3, <3>1 DEF Conversion!ParseMeansCii, Conversion!If, MeansOf
  <2>4. CASE ~Conversion!Given(iban)
    <3>1. \E c : inv.means = MeansOf(c, None, None, None)
      <4>1. CASE means = None
        BY <1>4, <4>1 DEF InUbl, Conversion!If
      <4>2. CASE means # None
        <5>1. ~Conversion!Given(means.iban)
          BY <2>2, <2>4, <4>2 DEF InUbl
        <5>2. QED
          BY <4>2, <5>1 DEF InUbl
      <4>3. QED
        BY <4>1, <4>2
    <3>2. iban = None /\ name = None
      BY <2>2, <3>1 DEF MeansOf
    <3>3. Conversion!BuildMeansCii(inv) = Written(code, None, bic)
      BY <1>4, <2>2, <2>4 DEF Conversion!BuildMeansCii, Conversion!If
    <3>4. QED
      BY <1>1, <2>1, <3>2, <3>3 DEF Conversion!ParseMeansCii, Conversion!If, MeansOf
  <2>5. QED
    BY <2>3, <2>4
<1>5. QED
  BY <1>3, <1>4

\* A bank without account is not written in UBL.
LEMMA MeansWrittenAlike ==
  ASSUME NoneIsNoRecord, NEW a, NEW b, Bare(a.means), b.date["due_date"] = a.date["due_date"],
         b.means = InUbl(a.means, a.date["due_date"])
  PROVE  Conversion!BuildMeansUbl(b) = Conversion!BuildMeansUbl(a)
<1> DEFINE due == a.date["due_date"]
<1>1. CASE a.means = None /\ due = None
  BY <1>1 DEF InUbl, Conversion!BuildMeansUbl, Conversion!If
<1>2. CASE a.means = None /\ due # None
  <2>1. b.means = MeansOf("1", None, None, None) /\ b.means # None
    BY <1>2, MeansAreGiven DEF InUbl, Conversion!If
  <2>2. QED
    BY <1>2, <2>1 DEF Conversion!BuildMeansUbl, Conversion!If, Conversion!Given, MeansOf
<1>3. CASE a.means # None /\ Conversion!Given(a.means.iban)
  BY <1>3 DEF InUbl, Conversion!BuildMeansUbl
<1>4. CASE a.means # None /\ ~Conversion!Given(a.means.iban)
  <2>1. b.means = MeansOf(a.means.code, None, None, None) /\ b.means # None
    BY <1>4, MeansAreGiven DEF InUbl
  <2>2. PICK code, iban, name, bic : a.means = MeansOf(code, iban, name, bic)
    BY <1>4 DEF Bare
  <2>3. a.means.payment_id = None /\ a.means.mandate = None
    BY <2>2 DEF MeansOf
  <2> DEFINE written == [code |-> a.means.code, due |-> due, payment_id |-> None,
                         account |-> None, mandate |-> None]
  <2>4. Conversion!BuildMeansUbl(a) = written
    BY <1>4, <2>3 DEF Conversion!BuildMeansUbl, Conversion!If, Conversion!Given
  <2>5. /\ b.means.code = a.means.code /\ b.means.iban = None /\ b.means.mandate = None
        /\ b.means.payment_id = None
    BY <2>1 DEF MeansOf
  <2>6. Conversion!BuildMeansUbl(b) = written
    BY <2>1, <2>5 DEF Conversion!BuildMeansUbl, Conversion!If, Conversion!Given
  <2>7. QED
    BY <2>4, <2>6
<1>5. QED
  BY <1>1, <1>2, <1>3, <1>4

-----------------------------------------------------------------------------
(* Two round trips *)

\* What is carried, part by part.
LEMMA CarriedParts ==
  ASSUME NEW a, NEW b, Conversion!Carried(a) = Conversion!Carried(b)
  PROVE  /\ a.type = b.type /\ a.seller = b.seller /\ a.buyer = b.buyer
         /\ [f \in Kept(a.text) |-> a.text[f]] = [f \in Kept(b.text) |-> b.text[f]]
         /\ Conversion!DatesWritten(a) = Conversion!DatesWritten(b)
         /\ Conversion!Each(a.taxes, Conversion!BuildTax) =
              Conversion!Each(b.taxes, Conversion!BuildTax)
         /\ Conversion!Each(a.charges, Conversion!BuildCharge) =
              Conversion!Each(b.charges, Conversion!BuildCharge)
         /\ Conversion!Each(a.lines, Conversion!BuildLine) =
              Conversion!Each(b.lines, Conversion!BuildLine)
         /\ [Conversion!TotalsWritten(a) EXCEPT !["rounding_amount"] = 0] =
              [Conversion!TotalsWritten(b) EXCEPT !["rounding_amount"] = 0]
<1> DEFINE Part(inv, part) == Conversion!Carried(inv)[part]
<1>1. \A part : Part(a, part) = Part(b, part)
  OBVIOUS
<1>2. ASSUME NEW inv
      PROVE  /\ Part(inv, "type") = inv.type
             /\ Part(inv, "seller") = inv.seller /\ Part(inv, "buyer") = inv.buyer
             /\ Part(inv, "text") = [f \in Kept(inv.text) |-> inv.text[f]]
             /\ Part(inv, "date") = Conversion!DatesWritten(inv)
             /\ Part(inv, "taxes") = Conversion!Each(inv.taxes, Conversion!BuildTax)
             /\ Part(inv, "charges") = Conversion!Each(inv.charges, Conversion!BuildCharge)
             /\ Part(inv, "lines") = Conversion!Each(inv.lines, Conversion!BuildLine)
             /\ Part(inv, "total") =
                  [Conversion!TotalsWritten(inv) EXCEPT !["rounding_amount"] = 0]
  BY DEF Conversion!Carried, Kept
<1> HIDE DEF Part
<1>3. a.type = b.type /\ a.seller = b.seller /\ a.buyer = b.buyer
  BY <1>1, <1>2, ZenonT(30)
<1>4. [f \in Kept(a.text) |-> a.text[f]] = [f \in Kept(b.text) |-> b.text[f]]
  <2>1. /\ Part(a, "text") = [f \in Kept(a.text) |-> a.text[f]]
        /\ Part(b, "text") = [f \in Kept(b.text) |-> b.text[f]]
    BY <1>2
  <2>2. QED
    BY <1>1, <2>1
<1>5. Conversion!DatesWritten(a) = Conversion!DatesWritten(b)
  BY <1>1, <1>2
<1>6. Conversion!Each(a.taxes, Conversion!BuildTax) =
        Conversion!Each(b.taxes, Conversion!BuildTax)
  <2>1. /\ Part(a, "taxes") = Conversion!Each(a.taxes, Conversion!BuildTax)
        /\ Part(b, "taxes") = Conversion!Each(b.taxes, Conversion!BuildTax)
    BY <1>2
  <2>2. QED
    BY <1>1, <2>1
<1>7. Conversion!Each(a.charges, Conversion!BuildCharge) =
        Conversion!Each(b.charges, Conversion!BuildCharge)
  <2>1. /\ Part(a, "charges") = Conversion!Each(a.charges, Conversion!BuildCharge)
        /\ Part(b, "charges") = Conversion!Each(b.charges, Conversion!BuildCharge)
    BY <1>2
  <2>2. QED
    BY <1>1, <2>1
<1>8. Conversion!Each(a.lines, Conversion!BuildLine) =
        Conversion!Each(b.lines, Conversion!BuildLine)
  <2>1. /\ Part(a, "lines") = Conversion!Each(a.lines, Conversion!BuildLine)
        /\ Part(b, "lines") = Conversion!Each(b.lines, Conversion!BuildLine)
    BY <1>2
  <2>2. QED
    BY <1>1, <2>1
<1>9. [Conversion!TotalsWritten(a) EXCEPT !["rounding_amount"] = 0] =
        [Conversion!TotalsWritten(b) EXCEPT !["rounding_amount"] = 0]
  <2>1. /\ Part(a, "total") = [Conversion!TotalsWritten(a) EXCEPT !["rounding_amount"] = 0]
        /\ Part(b, "total") = [Conversion!TotalsWritten(b) EXCEPT !["rounding_amount"] = 0]
    BY <1>2
  <2>2. QED
    BY <1>1, <2>1
<1>10. QED
  BY <1>3, <1>4, <1>5, <1>6, <1>7, <1>8, <1>9

\* Invoices that are alike are written alike.
LEMMA WrittenAlike ==
  ASSUME NEW a, NEW b, Conversion!IsInvoice(a), Conversion!IsInvoice(b),
         Conversion!Carried(a) = Conversion!Carried(b), a.text = b.text,
         NEW s \in Conversion!Syntaxes, s = "CII" => a.means = b.means,
         s = "UBL" => /\ a.total["rounding_amount"] = b.total["rounding_amount"]
                      /\ Conversion!BuildMeansUbl(a) = Conversion!BuildMeansUbl(b)
  PROVE  Conversion!Build(a, s) = Conversion!Build(b, s)
<1> DEFINE r == "rounding_amount"
<1>1. /\ a.type = b.type /\ a.seller = b.seller /\ a.buyer = b.buyer
      /\ Conversion!DatesWritten(a) = Conversion!DatesWritten(b)
      /\ Conversion!Each(a.taxes, Conversion!BuildTax) =
           Conversion!Each(b.taxes, Conversion!BuildTax)
      /\ Conversion!Each(a.charges, Conversion!BuildCharge) =
           Conversion!Each(b.charges, Conversion!BuildCharge)
      /\ Conversion!Each(a.lines, Conversion!BuildLine) =
           Conversion!Each(b.lines, Conversion!BuildLine)
      /\ [Conversion!TotalsWritten(a) EXCEPT ![r] = 0] =
           [Conversion!TotalsWritten(b) EXCEPT ![r] = 0]
  BY CarriedParts
<1>2. /\ Conversion!CiiTotals(a) = Conversion!CiiTotals(b)
      /\ a.total[r] = b.total[r] => Conversion!TotalsWritten(a) = Conversion!TotalsWritten(b)
  <2> DEFINE ta == Conversion!TotalsWritten(a)
             tb == Conversion!TotalsWritten(b)
  <2>1. /\ ta = [t \in Conversion!TotalFields |-> ta[t]]
        /\ tb = [t \in Conversion!TotalFields |-> tb[t]]
    BY DEF Conversion!TotalsWritten, Conversion!IsInvoice
  <2>2. a.total[r] = b.total[r] => ta[r] = tb[r]
    BY DEF Conversion!TotalsWritten, Conversion!IsInvoice, Conversion!TotalFields
  <2> HIDE DEF ta, tb
  <2>3. [ta EXCEPT ![r] = 0] = [tb EXCEPT ![r] = 0]
    BY <1>1 DEF ta, tb
  <2>4. \A t \in Conversion!TotalFields \ {r} : ta[t] = tb[t]
    <3> TAKE t \in Conversion!TotalFields \ {r}
    <3>1. [ta EXCEPT ![r] = 0][t] = ta[t] /\ [tb EXCEPT ![r] = 0][t] = tb[t]
      BY <2>1
    <3>2. QED
      BY <2>3, <3>1
  <2>5. [ta EXCEPT ![r] = None] = [tb EXCEPT ![r] = None]
    BY <2>1, <2>4
  <2>6. ta[r] = tb[r] => ta = tb
    BY <2>1, <2>4
  <2>7. QED
    BY <2>2, <2>5, <2>6 DEF ta, tb, Conversion!CiiTotals
<1>3. CASE s = "CII"
  <2>1. Conversion!BuildMeansCii(a) = Conversion!BuildMeansCii(b)
    BY <1>3 DEF Conversion!BuildMeansCii
  <2>2. Conversion!BuildCii(a) = Conversion!BuildCii(b)
    BY <1>1, <1>2, <1>3, <2>1 DEF Conversion!BuildCii,
       Conversion!BuildPartyCii, Conversion!BuildTaxCii, Conversion!BuildChargeCii,
       Conversion!BuildLineCii, Conversion!Each
  <2>3. QED
    BY <1>3, <2>2 DEF Conversion!Build
<1>4. CASE s = "UBL"
  <2>1. Conversion!UblRoot(a) = Conversion!UblRoot(b)
    BY <1>1 DEF Conversion!UblRoot
  <2>2. Conversion!BuildUbl(a) = Conversion!BuildUbl(b)
    BY <1>1, <1>2, <1>4, <2>1 DEF Conversion!BuildUbl, Conversion!UblDocument
  <2>3. QED
    BY <1>4, <2>2 DEF Conversion!Build
<1>5. QED
  BY <1>3, <1>4 DEF Conversion!Syntaxes

\* One conversion.
Converts(a, b) ==
  /\ Conversion!IsDocument(a) /\ Conversion!IsDocument(b)
  /\ Conversion!Syntax(b) # Conversion!Syntax(a)
  /\ b = Conversion!Build(Conversion!Parse(a), Conversion!Syntax(b))

LEMMA ConversionsCarry ==
  ASSUME NoneIsNoRecord, NEW a, NEW b, Converts(a, b)
  PROVE  /\ Conversion!IsInvoice(Conversion!Parse(a)) /\ Conversion!IsInvoice(Conversion!Parse(b))
         /\ Conversion!Carried(Conversion!Parse(b)) = Conversion!Carried(Conversion!Parse(a))
         /\ DOMAIN Conversion!Parse(b).text = DOMAIN Conversion!Parse(a).text
<1>1. Conversion!Syntax(b) \in Conversion!Syntaxes
  BY DEF Conversion!Syntax, Conversion!Syntaxes
<1>2. QED
  BY <1>1, CarriedOnce, InvoiceRead, TextsKept DEF Converts

\* The UUID and the business process are lost in the first conversion or the next
\* reading.
LEMMA HeadersSettle ==
  ASSUME NEW a, NEW b, Converts(a, b)
  PROVE  /\ Conversion!Parse(b).text["document_uuid"] = None
         /\ Conversion!Parse(b).text["business_process"] = None
<1> DEFINE inv == Conversion!Parse(a)
           after == Conversion!Parse(b)
           uuid == "document_uuid"
           process == "business_process"
<1>1. Conversion!TextFields \subseteq DOMAIN a.text /\ Conversion!TextFields \subseteq DOMAIN b.text
  <2>1. Conversion!IsText(a.text) /\ Conversion!IsText(b.text)
    BY DEF Converts, Conversion!IsDocument, Conversion!HasParts
  <2>2. QED
    BY <2>1 DEF Conversion!IsText
<1>2. uuid \in Conversion!TextFields /\ process \in Conversion!TextFields
  BY DEF Conversion!TextFields
<1>3. CASE Conversion!Syntax(b) = "CII"
  <2>1. after.text = Conversion!HeaderRead(b, {uuid, process})
    BY <1>3 DEF Conversion!Parse, Conversion!ParseCii, Conversion!Syntax
  <2>2. QED
    BY <1>1, <1>2, <2>1 DEF Conversion!HeaderRead
<1>4. CASE Conversion!Syntax(b) # "CII"
  <2>1. after.text = Conversion!HeaderRead(b, {uuid})
    BY <1>4 DEF Conversion!Parse, Conversion!ParseUbl, Conversion!Syntax
  <2>2. inv.text = Conversion!HeaderRead(a, {uuid, process})
    BY <1>4 DEF Conversion!Parse, Conversion!ParseCii, Conversion!Syntax, Converts
  <2>3. inv.text[process] = None
    BY <1>1, <1>2, <2>2 DEF Conversion!HeaderRead
  <2>4. b.text = inv.text
    BY <1>4, PartsWritten, ZenonT(30) DEF Converts, Conversion!Syntax, Conversion!Syntaxes
  <2>5. QED
    BY <1>1, <1>2, <2>1, <2>3, <2>4 DEF Conversion!HeaderRead
<1>5. QED
  BY <1>3, <1>4

\* The rounding amount and the account of a document that was read.
LEMMA RoundingSettles ==
  ASSUME NoneIsNoRecord, NEW d, Conversion!IsDocument(d)
  PROVE  d.root = "CrossIndustryInvoice" =>
           /\ Conversion!Parse(d).total["rounding_amount"] = 0
           /\ Bare(Conversion!Parse(d).means)
<1> SUFFICES ASSUME d.root = "CrossIndustryInvoice"
             PROVE  /\ Conversion!Parse(d).total["rounding_amount"] = 0
                    /\ Bare(Conversion!Parse(d).means)
  OBVIOUS
<1>1. /\ Conversion!Parse(d).total = Conversion!TotalsRead(d, {"rounding_amount"})
      /\ Conversion!Parse(d).means = Conversion!ParseMeansCii(d.means)
  BY DEF Conversion!Parse, Conversion!ParseCii
<1>2. DOMAIN d.total = Conversion!TotalFields /\ "rounding_amount" \in Conversion!TotalFields
  BY DEF Conversion!IsDocument, Conversion!TotalFields
<1>3. QED
  BY <1>1, <1>2, MeansReadFromCii DEF Conversion!TotalsRead

\* Means written and read in one conversion.
LEMMA MeansConverted ==
  ASSUME NEW a, NEW b, Converts(a, b)
  PROVE  LET inv == Conversion!Parse(a)
             after == Conversion!Parse(b)
         IN after.means = IF b.root = "CrossIndustryInvoice"
                          THEN Conversion!ParseMeansCii(Conversion!BuildMeansCii(inv))
                          ELSE Conversion!ParseMeansUbl(Conversion!BuildMeansUbl(inv))
<1>1. Conversion!Syntax(b) \in Conversion!Syntaxes
  BY DEF Conversion!Syntax, Conversion!Syntaxes
<1>2. b.means = IF Conversion!Syntax(b) = "CII"
                THEN Conversion!BuildMeansCii(Conversion!Parse(a))
                ELSE Conversion!BuildMeansUbl(Conversion!Parse(a))
  <2>1. PICK s \in Conversion!Syntaxes : s = Conversion!Syntax(b)
    BY <1>1
  <2>2. b = Conversion!Build(Conversion!Parse(a), s)
    BY <2>1 DEF Converts
  <2>3. b.means = IF s = "CII" THEN Conversion!BuildMeansCii(Conversion!Parse(a))
                  ELSE Conversion!BuildMeansUbl(Conversion!Parse(a))
    BY <2>2, PartsWritten
  <2>4. QED
    BY <2>1, <2>3
<1>3. CASE b.root = "CrossIndustryInvoice"
  BY <1>2, <1>3 DEF Conversion!Syntax, Conversion!Parse, Conversion!ParseCii
<1>4. CASE b.root # "CrossIndustryInvoice"
  BY <1>2, <1>4 DEF Conversion!Syntax, Conversion!Parse, Conversion!ParseUbl
<1>5. QED
  BY <1>3, <1>4

\* What is carried has one due date.
LEMMA DueDateCarried ==
  ASSUME NEW a, NEW b, Conversion!IsInvoice(a), Conversion!IsInvoice(b),
         Conversion!Carried(a) = Conversion!Carried(b)
  PROVE  a.date["due_date"] = b.date["due_date"]
<1>1. Conversion!DatesWritten(a) = Conversion!DatesWritten(b)
  BY CarriedParts
<1>2. "due_date" \in DOMAIN a.date /\ "due_date" \in DOMAIN b.date
  BY DEF Conversion!IsInvoice, Conversion!HasParts, Conversion!IsDate, Conversion!Dates
<1>3. /\ Conversion!DatesWritten(a)["due_date"] = a.date["due_date"]
      /\ Conversion!DatesWritten(b)["due_date"] = b.date["due_date"]
  BY <1>2 DEF Conversion!DatesWritten
<1>4. QED
  BY <1>1, <1>3

\* Of conversions in a row, the fourth gives the document that the second gave.
LEMMA SecondRoundTrip ==
  ASSUME NoneIsNoRecord, NEW c, NEW d, NEW e, NEW f, NEW g,
         Converts(c, d), Converts(d, e), Converts(e, f), Converts(f, g)
  PROVE  g = e
<1> DEFINE C == Conversion!Parse(c)
           D == Conversion!Parse(d)
           E == Conversion!Parse(e)
           F == Conversion!Parse(f)
           r == "rounding_amount"
           due == D.date["due_date"]
<1>1. /\ Conversion!IsInvoice(C) /\ Conversion!IsInvoice(D) /\ Conversion!IsInvoice(E)
      /\ Conversion!IsInvoice(F) /\ Conversion!Carried(D) = Conversion!Carried(C)
      /\ Conversion!Carried(E) = Conversion!Carried(D)
      /\ Conversion!Carried(F) = Conversion!Carried(E)
      /\ DOMAIN F.text = DOMAIN E.text /\ DOMAIN E.text = DOMAIN D.text
  BY ConversionsCarry
<1>2. C.date["due_date"] = due /\ E.date["due_date"] = due /\ F.date["due_date"] = due
  BY <1>1, DueDateCarried
<1>3. /\ c.root = "CrossIndustryInvoice" <=> d.root # "CrossIndustryInvoice"
      /\ e.root = "CrossIndustryInvoice" <=> d.root # "CrossIndustryInvoice"
      /\ f.root = "CrossIndustryInvoice" <=> d.root = "CrossIndustryInvoice"
      /\ g.root = "CrossIndustryInvoice" <=> d.root # "CrossIndustryInvoice"
  BY DEF Converts, Conversion!Syntax
<1>4. /\ D.text["document_uuid"] = None /\ D.text["business_process"] = None
      /\ F.text["document_uuid"] = None /\ F.text["business_process"] = None
  BY HeadersSettle
<1>5. /\ e = Conversion!Build(D, Conversion!Syntax(e))
      /\ g = Conversion!Build(F, Conversion!Syntax(e))
      /\ Conversion!Syntax(e) \in Conversion!Syntaxes
  BY <1>3 DEF Converts, Conversion!Syntax, Conversion!Syntaxes
<1>6. /\ Conversion!IsDocument(c) /\ Conversion!IsDocument(d) /\ Conversion!IsDocument(e)
      /\ Conversion!IsDocument(f)
  BY DEF Converts
<1>7. F.text = D.text
  <2>1. Conversion!Carried(F) = Conversion!Carried(D)
    BY <1>1
  <2>2. /\ F.text = [x \in DOMAIN F.text |-> F.text[x]]
        /\ D.text = [x \in DOMAIN D.text |-> D.text[x]]
    BY <1>1 DEF Conversion!IsInvoice, Conversion!HasParts, Conversion!IsText
  <2> HIDE DEF D, E, F
  <2>3. [x \in Kept(F.text) |-> F.text[x]] = [x \in Kept(D.text) |-> D.text[x]]
    BY <2>1, CarriedParts, ZenonT(30)
  <2>4. Kept(F.text) = Kept(D.text)
    BY <1>1 DEF Kept
  <2>5. \A x \in Kept(D.text) : F.text[x] = D.text[x]
    BY <2>3, <2>4
  <2>6. \A x \in DOMAIN D.text : F.text[x] = D.text[x]
    BY <1>4, <2>5 DEF Kept
  <2>7. QED
    BY <1>1, <2>2, <2>6
<1>8. CASE d.root = "CrossIndustryInvoice"
  <2>1. Bare(D.means) /\ D.total[r] = 0 /\ F.total[r] = 0
    BY <1>3, <1>6, <1>8, RoundingSettles
  <2>2. E.means = Conversion!ParseMeansUbl(Conversion!BuildMeansUbl(D))
    BY <1>3, <1>8, MeansConverted
  <2>3. F.means = Conversion!ParseMeansCii(Conversion!BuildMeansCii(E))
    BY <1>3, <1>8, MeansConverted
  <2> HIDE DEF D, E, F
  <2>4. E.means = InUbl(D.means, due)
    BY <2>1, <2>2, MeansThroughUbl
  <2>5. F.means = InUbl(D.means, due)
    BY <2>1, <2>3, <2>4, MeansThroughCii
  <2>6. Conversion!BuildMeansUbl(F) = Conversion!BuildMeansUbl(D)
    BY <1>2, <2>1, <2>5, MeansWrittenAlike
  <2>7. Conversion!Syntax(e) = "UBL"
    BY <1>3, <1>8 DEF Conversion!Syntax
  <2>8. Conversion!Build(F, "UBL") = Conversion!Build(D, "UBL")
    BY <1>1, <1>7, <2>1, <2>6, WrittenAlike DEF Conversion!Syntaxes
  <2>9. QED
    BY <1>5, <2>7, <2>8
<1>9. CASE d.root # "CrossIndustryInvoice"
  <2>1. Bare(C.means)
    BY <1>3, <1>6, <1>9, RoundingSettles
  <2>2. D.means = Conversion!ParseMeansUbl(Conversion!BuildMeansUbl(C))
    BY <1>9, MeansConverted
  <2>3. E.means = Conversion!ParseMeansCii(Conversion!BuildMeansCii(D))
    BY <1>3, <1>9, MeansConverted
  <2>4. F.means = Conversion!ParseMeansUbl(Conversion!BuildMeansUbl(E))
    BY <1>3, <1>9, MeansConverted
  <2> HIDE DEF C, D, E, F
  <2>5. D.means = InUbl(C.means, due)
    BY <1>2, <2>1, <2>2, MeansThroughUbl
  <2>6. E.means = D.means
    BY <2>1, <2>3, <2>5, MeansThroughCii
  <2>7. Bare(D.means) /\ InUbl(D.means, due) = D.means
    BY <2>1, <2>5, MeansSettle
  <2>8. F.means = D.means
    BY <1>2, <2>4, <2>6, <2>7, MeansThroughUbl
  <2>9. Conversion!Syntax(e) = "CII"
    BY <1>3, <1>9 DEF Conversion!Syntax
  <2>10. Conversion!Build(F, "CII") = Conversion!Build(D, "CII")
    BY <1>1, <1>7, <2>8, <2>9, WrittenAlike DEF Conversion!Syntaxes
  <2>11. QED
    BY <1>5, <2>9, <2>10
<1>10. QED
  BY <1>8, <1>9

-----------------------------------------------------------------------------
(* Documents on their way *)

OnItsWay ==
  /\ Conversion!IsDocument(source) /\ Conversion!IsDocument(converted)
  /\ Conversion!Carried(Conversion!Parse(converted)) =
       Conversion!Carried(Conversion!Parse(source))
  /\ AccountKept(Conversion!Parse(source), Conversion!Parse(converted))
  /\ dropped \in Int
  /\ Conversion!TotalsReconcile
  /\ Conversion!CreditRefersHome

WayInv == kind = "conversion" => OnItsWay

\* A document that has just been issued is on its way.
LEMMA FirstIsOnItsWay ==
  ASSUME Conversion!IsDocument(source), converted = source, dropped = 0,
         Conversion!CreditRefersHome
  PROVE  OnItsWay
<1>1. AccountKept(Conversion!Parse(source), Conversion!Parse(converted))
  BY DEF AccountKept
<1>2. \A t \in Conversion!TotalFields : Conversion!Amount(source, t) \in Int
  BY DEF Conversion!Amount, Conversion!IsDocument, Conversion!InCents
<1>3. Conversion!TotalsReconcile
  BY <1>2 DEF Conversion!TotalsReconcile, Conversion!WithVat, Conversion!ToPay,
     Conversion!TotalFields
<1>4. QED
  BY <1>1, <1>3 DEF OnItsWay

LEMMA WayInit == ASSUME NoneIsNoRecord PROVE DataInit => WayInv
<1> SUFFICES ASSUME DataInit, kind = "conversion" PROVE OnItsWay
  BY DEF WayInv
<1>1. Conversion!Init
  BY DEF DataInit
<1>2. Conversion!IsDocument(source)
  <2>1. CASE source \in Foreign
    BY <2>1, DataAssumption
  <2>2. CASE \E inv \in Invoices, s \in Conversion!Syntaxes : source = Conversion!Build(inv, s)
    BY <2>2, DataAssumption, DocumentWritten
  <2>3. QED
    BY <1>1, <2>1, <2>2 DEF Conversion!Init
<1>3. QED
  BY <1>1, <1>2, FirstIsOnItsWay DEF Conversion!Init, Conversion!CreditRefersHome

LEMMA ConvertKeeps ==
  ASSUME NoneIsNoRecord, OnItsWay, NEW s \in Conversion!Syntaxes, Conversion!Convert(s)
  PROVE  OnItsWay'
<1> DEFINE d == converted
           e == Conversion!Build(Conversion!Parse(d), s)
<1>1. /\ converted' = e /\ source' = source /\ billing' = billing
      /\ dropped' = dropped + Conversion!Amount(d, "rounding_amount")
      /\ ~Conversion!ConversionRaises(d, s)
  BY DEF Conversion!Convert, Conversion!ConvertWireFormat
<1>2. Conversion!IsDocument(d) /\ Conversion!IsDocument(source)
  BY DEF OnItsWay
<1>3. /\ Conversion!IsDocument(e)
      /\ Conversion!Carried(Conversion!Parse(e)) = Conversion!Carried(Conversion!Parse(d))
  BY <1>2, CarriedOnce
<1>4. AccountKept(Conversion!Parse(d), Conversion!Parse(e))
  BY AccountOnce
<1>5. /\ Conversion!Amount(e, "rounding_amount") = 0
      /\ \A t \in Conversion!TotalFields \ {"rounding_amount"} :
           Conversion!Amount(e, t) = Conversion!Amount(d, t)
  BY <1>1, <1>2, SyntaxChanges, AmountsKept
<1>6. Conversion!Given(d.text["preceding_invoice_reference"]) =>
        Conversion!Reference(e) = Conversion!Reference(d)
  BY <1>2, ReferenceKept
<1> HIDE DEF e
<1>7. AccountKept(Conversion!Parse(source), Conversion!Parse(e))
  BY <1>4 DEF OnItsWay, AccountKept
<1>8. \A t \in Conversion!TotalFields :
        Conversion!Amount(d, t) \in Int /\ Conversion!Amount(source, t) \in Int
  BY <1>2 DEF Conversion!Amount, Conversion!IsDocument, Conversion!InCents
<1>9. dropped' \in Int
  BY <1>1, <1>8 DEF OnItsWay, Conversion!TotalFields
<1>10. Conversion!TotalsReconcile'
  <2>1. /\ Conversion!WithVat(d) = Conversion!WithVat(source)
        /\ Conversion!ToPay(d) = Conversion!ToPay(source) + dropped
    BY DEF OnItsWay, Conversion!TotalsReconcile
  <2>2. Conversion!WithVat(e) = Conversion!WithVat(d)
    BY <1>5 DEF Conversion!WithVat, Conversion!TotalFields
  <2>3. Conversion!ToPay(e) = Conversion!ToPay(d) + Conversion!Amount(d, "rounding_amount")
    BY <1>5, <1>8 DEF Conversion!ToPay, Conversion!TotalFields
  <2>4. Conversion!ToPay(source) \in Int /\ Conversion!Amount(d, "rounding_amount") \in Int
    BY <1>8 DEF Conversion!ToPay, Conversion!TotalFields
  <2>5. Conversion!ToPay(e) = Conversion!ToPay(source) + dropped'
    BY <1>1, <2>1, <2>3, <2>4 DEF OnItsWay
  <2>6. QED
    BY <1>1, <2>1, <2>2, <2>5 DEF Conversion!TotalsReconcile
<1>11. Conversion!CreditRefersHome'
  <2>1. SUFFICES ASSUME billing # None, billing.precedes = None, Conversion!Given(billing.number)
                 PROVE  Conversion!Reference(e) = <<billing.number, billing.date>>
    BY <1>1 DEF Conversion!CreditRefersHome
  <2>2. Conversion!Reference(d) = <<billing.number, billing.date>>
    BY <2>1 DEF OnItsWay, Conversion!CreditRefersHome
  <2>3. d.text["preceding_invoice_reference"] = billing.number
    BY <2>2 DEF Conversion!Reference
  <2>4. QED
    BY <1>6, <2>1, <2>2, <2>3
<1>12. QED
  BY <1>1, <1>2, <1>3, <1>7, <1>9, <1>10, <1>11 DEF OnItsWay

\* A credit note is an invoice with a number of its own and a reference.
LEMMA CreditNoteMade ==
  ASSUME NEW inv, Conversion!IsInvoice(inv), NEW code_of, NEW number, NEW credited
  PROVE  LET note == Conversion!CreditNote(inv, code_of, number, credited)
             ref == "preceding_invoice_reference"
             preceding == "preceding_invoice_date"
         IN /\ Conversion!IsInvoice(note)
            /\ note.text[ref] = IF inv.text[ref] = None THEN credited.number ELSE inv.text[ref]
            /\ note.date[preceding] = IF inv.date[preceding] = None THEN credited.date
                                      ELSE inv.date[preceding]
<1> DEFINE ref == "preceding_invoice_reference"
           preceding == "preceding_invoice_date"
           home == IF inv.text[ref] = None THEN credited.number ELSE inv.text[ref]
           since == IF inv.date[preceding] = None THEN credited.date ELSE inv.date[preceding]
           text == [inv.text EXCEPT !["invoice_number"] = number, ![ref] = home]
           date == [inv.date EXCEPT ![preceding] = since]
           note == Conversion!CreditNote(inv, code_of, number, credited)
<1>1. /\ inv = [type |-> inv.type, text |-> inv.text, date |-> inv.date, seller |-> inv.seller,
                buyer |-> inv.buyer, means |-> inv.means, charges |-> inv.charges,
                total |-> inv.total, taxes |-> inv.taxes, lines |-> inv.lines]
      /\ Conversion!HasParts(inv) /\ inv.total \in [Conversion!TotalFields -> Int]
  BY DEF Conversion!IsInvoice
<1>2. Conversion!IsText(inv.text) /\ Conversion!IsDate(inv.date)
  BY <1>1 DEF Conversion!HasParts
<1>3. note = [inv EXCEPT !.type = code_of, !.text = text, !.date = date]
  BY <1>1, <1>2 DEF Conversion!CreditNote, Conversion!IsText, Conversion!TextFields
<1>4. /\ Conversion!IsText(text) /\ Conversion!IsDate(date)
      /\ text[ref] = home /\ date[preceding] = since
  BY <1>2 DEF Conversion!IsText, Conversion!TextFields, Conversion!IsDate, Conversion!Dates
<1> HIDE DEF text, date, note
<1>5. note \in [type : {code_of}, text : {text}, date : {date}, seller : {inv.seller},
                buyer : {inv.buyer}, means : {inv.means}, charges : {inv.charges},
                total : {inv.total}, taxes : {inv.taxes}, lines : {inv.lines}]
  BY <1>1, <1>3
<1>6. /\ note = [type |-> note.type, text |-> note.text, date |-> note.date,
                 seller |-> note.seller, buyer |-> note.buyer, means |-> note.means,
                 charges |-> note.charges, total |-> note.total, taxes |-> note.taxes,
                 lines |-> note.lines]
      /\ note.text = text /\ note.date = date /\ note.charges = inv.charges
      /\ note.taxes = inv.taxes /\ note.lines = inv.lines /\ note.total = inv.total
  BY <1>5
<1>7. Conversion!IsInvoice(note)
  BY <1>1, <1>4, <1>6 DEF Conversion!IsInvoice, Conversion!HasParts
<1>8. QED
  BY <1>4, <1>6, <1>7 DEF note

LEMMA CreditKeeps ==
  ASSUME NoneIsNoRecord, OnItsWay, NEW code_of, NEW s \in Conversion!Syntaxes,
         Conversion!Credit(code_of, s)
  PROVE  OnItsWay'
<1> DEFINE d == converted
           inv == Conversion!Parse(d)
           ref == "preceding_invoice_reference"
           preceding == "preceding_invoice_date"
           credited == [number |-> inv.text["invoice_number"], date |-> inv.date["invoice_date"],
                        precedes |-> inv.text[ref]]
           note == Conversion!CreditNote(inv, code_of, "CN", credited)
           e == Conversion!Build(note, s)
<1>1. source' = e /\ converted' = e /\ dropped' = 0 /\ billing' = credited
  BY DEF Conversion!Credit, Conversion!Becomes
<1>2. Conversion!IsDocument(d) /\ Conversion!IsInvoice(inv)
  BY InvoiceRead DEF OnItsWay
<1>3. /\ inv.text[ref] = d.text[ref]
      /\ inv.date = [d.date EXCEPT
           !["due_date"] = inv.date["due_date"],
           !["invoice_date"] = Conversion!OrElse(d.date["invoice_date"], Conversion!Today)]
  BY <1>2, PartsRead, DatesKept, DocumentWritten
<1> HIDE DEF inv
<1>4. /\ credited.number = inv.text["invoice_number"]
      /\ credited.date = inv.date["invoice_date"] /\ credited.precedes = inv.text[ref]
  OBVIOUS
<1> HIDE DEF credited
<1>5. /\ Conversion!IsInvoice(note)
      /\ note.text[ref] = IF inv.text[ref] = None THEN credited.number ELSE inv.text[ref]
      /\ note.date[preceding] = IF inv.date[preceding] = None THEN credited.date
                                ELSE inv.date[preceding]
  BY <1>2, CreditNoteMade
<1>6. /\ e.text = IF s = "CII" THEN [note.text EXCEPT !["document_uuid"] = None] ELSE note.text
      /\ e.date = Conversion!DatesWritten(note)
  BY PartsWritten
<1> HIDE DEF note
<1>7. Conversion!IsDocument(e)
  BY <1>5, DocumentWritten
<1> HIDE DEF e
<1>8. ASSUME credited.precedes = None, Conversion!Given(credited.number)
      PROVE  Conversion!Reference(e) = <<credited.number, credited.date>>
  <2>1. d.date[preceding] = None
    BY <1>2, <1>3, <1>4, <1>8 DEF Conversion!IsDocument, Conversion!Given
  <2>2. inv.date[preceding] = None
    BY <1>2, <1>3, <2>1 DEF Conversion!IsDocument, Conversion!HasParts, Conversion!IsDate,
       Conversion!Dates
  <2>3. note.text[ref] = credited.number /\ note.date[preceding] = credited.date
    BY <1>4, <1>5, <1>8, <2>2
  <2>4. e.text[ref] = credited.number
    BY <1>5, <1>6, <2>3 DEF Conversion!IsInvoice, Conversion!HasParts, Conversion!IsText,
       Conversion!TextFields
  <2>5. e.date[preceding] = credited.date
    BY <1>5, <1>6, <1>8, <2>3 DEF Conversion!DatesWritten, Conversion!If, Conversion!IsInvoice,
       Conversion!HasParts, Conversion!IsDate, Conversion!Dates
  <2>6. QED
    BY <2>4, <2>5 DEF Conversion!Reference
<1>9. (/\ Conversion!IsDocument(source) /\ converted = source /\ dropped = 0
       /\ Conversion!CreditRefersHome)'
  BY <1>1, <1>7, <1>8 DEF Conversion!CreditRefersHome
<1>10. \A x, y : y = x => AccountKept(Conversion!Parse(x), Conversion!Parse(y))
  BY DEF AccountKept
<1>11. \A t \in Conversion!TotalFields : Conversion!Amount(e, t) \in Int
  BY <1>7 DEF Conversion!Amount, Conversion!IsDocument, Conversion!InCents
<1>12. Conversion!TotalsReconcile'
  BY <1>1, <1>11 DEF Conversion!TotalsReconcile, Conversion!WithVat, Conversion!ToPay,
     Conversion!TotalFields
<1>13. QED
  BY <1>1, <1>9, <1>10, <1>12 DEF OnItsWay

LEMMA WayNext ==
  ASSUME NoneIsNoRecord, WayInv, [DataNext]_data_vars PROVE WayInv'
<1> SUFFICES ASSUME kind' = "conversion" PROVE OnItsWay'
  BY DEF WayInv
<1>1. kind = "conversion" /\ OnItsWay
  BY DEF WayInv, DataNext, data_vars
<1>2. CASE UNCHANGED conversion_vars
  BY <1>1, <1>2 DEF conversion_vars, OnItsWay, Conversion!TotalsReconcile,
     Conversion!CreditRefersHome, AccountKept
<1>3. CASE Conversion!Next
  BY <1>1, <1>3, ConvertKeeps, CreditKeeps DEF Conversion!Next
<1>4. QED
  BY <1>1, <1>2, <1>3 DEF DataNext, data_vars

LEMMA WayAlways == ASSUME NoneIsNoRecord PROVE DataSpec => []WayInv
<1>1. DataInit => WayInv
  BY WayInit
<1>2. WayInv /\ [DataNext]_data_vars => WayInv'
  BY WayNext
<1>3. QED
  BY <1>1, <1>2, PTL DEF DataSpec

\* What both syntaxes carry reaches the end of any chain of conversions and credit
\* notes, and so does an account with an IBAN (convert_wire_format).
THEOREM CarriedFieldsReachTheEnd == ASSUME NoneIsNoRecord PROVE DataSpec => []CarriedFieldsKept
<1>1. WayInv => CarriedFieldsKept
  <2> SUFFICES ASSUME kind = "conversion", OnItsWay PROVE Conversion!CarriedFieldsKept
    BY DEF WayInv, CarriedFieldsKept
  <2> DEFINE before == Conversion!Parse(source)
             after == Conversion!Parse(converted)
  <2>1. Conversion!Carried(after) = Conversion!Carried(before) /\ AccountKept(before, after)
    BY DEF OnItsWay
  <2> HIDE DEF before, after
  <2>2. before.means # None /\ before.means.iban \notin {None, "", Conversion!Blank} =>
          Conversion!Account(after.means) = Conversion!Account(before.means)
    BY <2>1 DEF AccountKept, Conversion!Account, Conversion!If
  <2>3. QED
    BY <2>1, <2>2 DEF Conversion!CarriedFieldsKept, before, after
<1>2. QED
  BY <1>1, WayAlways, PTL

\* Totals that add up to the cent still do after any conversions, but for rounding
\* amounts that CII documents dropped (_build_monetary_summary).
THEOREM TotalsStayReconciled == ASSUME NoneIsNoRecord PROVE DataSpec => []TotalsReconcile
<1>1. WayInv => TotalsReconcile
  BY DEF WayInv, OnItsWay, TotalsReconcile
<1>2. QED
  BY <1>1, WayAlways, PTL

\* A credit note, converted or not, refers to the invoice it was made out for, by
\* number and date, unless that has no number or refers to an earlier one itself
\* (EN16931CreditNote).
THEOREM CreditsReferHome == ASSUME NoneIsNoRecord PROVE DataSpec => []CreditRefersHome
<1>1. WayInv => CreditRefersHome
  BY DEF WayInv, OnItsWay, CreditRefersHome
<1>2. QED
  BY <1>1, WayAlways, PTL

-----------------------------------------------------------------------------
(* Losses *)

\* The last conversions, one after the other, and one before them.
Trail ==
  LET here == Conversion!Syntax(converted)
      there == IF here = "CII" THEN "UBL" ELSE "CII"
  IN /\ hops \in Nat /\ DOMAIN past = Conversion!Syntaxes
     /\ hops >= 1 => Converts(past[there], converted)
     /\ hops >= 2 => Converts(past[here], past[there])
     /\ hops >= 3 => \E first : Converts(first, past[here])

TrailInv == WayInv /\ (kind = "conversion" => Trail)

LEMMA OneMore ==
  ASSUME NoneIsNoRecord, OnItsWay, Trail, NEW s \in Conversion!Syntaxes, Conversion!Convert(s)
  PROVE  /\ Converts(converted, converted') /\ hops' = hops + 1
         /\ past' = [past EXCEPT ![Conversion!Syntax(converted)] = converted]
         /\ Conversion!Syntax(converted') = s /\ Conversion!Syntax(converted) # s
<1> DEFINE d == converted
           e == Conversion!Build(Conversion!Parse(d), s)
<1>1. /\ converted' = e /\ hops' = hops + 1 /\ ~Conversion!ConversionRaises(d, s)
      /\ past' = [past EXCEPT ![Conversion!Syntax(d)] = d]
  BY DEF Conversion!Convert, Conversion!ConvertWireFormat
<1>2. Conversion!IsDocument(d)
  BY DEF OnItsWay
<1>3. Conversion!IsDocument(e)
  BY <1>2, CarriedOnce
<1>4. Conversion!Syntax(d) # s
  BY <1>1, SyntaxChanges
<1>5. e.root = IF s = "CII" THEN "CrossIndustryInvoice" ELSE Conversion!UblRoot(Conversion!Parse(d))
  BY PartsWritten
<1>6. Conversion!Syntax(e) = s
  BY <1>5 DEF Conversion!Syntax, Conversion!UblRoot, Conversion!Syntaxes
<1>7. Converts(d, e)
  BY <1>2, <1>3, <1>4, <1>6 DEF Converts
<1> HIDE DEF e
<1>8. QED
  BY <1>1, <1>4, <1>6, <1>7

LEMMA TrailKept ==
  ASSUME NoneIsNoRecord, OnItsWay, Trail, NEW s \in Conversion!Syntaxes, Conversion!Convert(s)
  PROVE  Trail' /\ Conversion!Settles
<1> DEFINE here == Conversion!Syntax(converted)
           there == IF here = "CII" THEN "UBL" ELSE "CII"
<1>1. /\ Converts(converted, converted') /\ hops' = hops + 1
      /\ past' = [past EXCEPT ![here] = converted]
      /\ Conversion!Syntax(converted') = s /\ here # s
  BY OneMore
<1>2. here \in Conversion!Syntaxes /\ there = s /\ (IF s = "CII" THEN "UBL" ELSE "CII") = here
  BY <1>1 DEF Conversion!Syntax, Conversion!Syntaxes
<1> HIDE DEF here
<1>3. /\ hops \in Nat /\ DOMAIN past = Conversion!Syntaxes
      /\ hops >= 1 => Converts(past[s], converted)
      /\ hops >= 2 => Converts(past[here], past[s])
      /\ hops >= 3 => \E first : Converts(first, past[here])
  BY <1>2 DEF Trail, here
<1>4. past'[here] = converted /\ past'[s] = past[s] /\ DOMAIN past' = Conversion!Syntaxes
  BY <1>1, <1>2, <1>3
<1>5. Trail'
  <2>1. hops' \in Nat /\ (hops' >= 2 => hops >= 1) /\ (hops' >= 3 => hops >= 2)
    BY <1>1, <1>3
  <2>2. hops' >= 1 => Converts(past'[here], converted')
    BY <1>1, <1>4
  <2>3. hops' >= 2 => Converts(past'[s], past'[here])
    BY <1>3, <1>4, <2>1
  <2>4. hops' >= 3 => \E first : Converts(first, past'[s])
    BY <1>3, <1>4, <2>1
  <2>5. QED
    BY <1>1, <1>2, <1>4, <2>1, <2>2, <2>3, <2>4 DEF Trail
<1>6. Conversion!Settles
  <2> SUFFICES ASSUME hops >= 3 PROVE converted' = past'[s]
    BY <1>1 DEF Conversion!Settles
  <2>1. PICK first : Converts(first, past[here])
    BY <1>3
  <2>2. /\ Converts(past[here], past[s]) /\ Converts(past[s], converted)
        /\ Converts(converted, converted')
    BY <1>1, <1>3
  <2>3. converted' = past[s]
    BY <2>1, <2>2, SecondRoundTrip
  <2>4. QED
    BY <1>4, <2>3
<1>7. QED
  BY <1>5, <1>6

LEMMA TrailInit == ASSUME NoneIsNoRecord PROVE DataInit => TrailInv
BY WayInit DEF TrailInv, DataInit, Trail, Conversion!Init

LEMMA TrailNext ==
  ASSUME NoneIsNoRecord, TrailInv, [DataNext]_data_vars
  PROVE  TrailInv' /\ (kind = "conversion" => Conversion!Settles)
<1>1. WayInv'
  BY WayNext DEF TrailInv
<1>2. kind' = kind
  BY DEF DataNext, data_vars
<1>3. ASSUME kind = "conversion" PROVE Trail' /\ Conversion!Settles
  <2>1. OnItsWay /\ Trail
    BY <1>3 DEF TrailInv, WayInv
  <2>2. CASE UNCHANGED conversion_vars
    BY <2>1, <2>2 DEF conversion_vars, Trail, Conversion!Settles
  <2>3. CASE \E s \in Conversion!Syntaxes : Conversion!Convert(s)
    BY <2>1, <2>3, TrailKept
  <2>4. CASE \E code \in {"381", "384"}, s \in Conversion!Syntaxes : Conversion!Credit(code, s)
    <3>1. hops' = 0 /\ DOMAIN past' = Conversion!Syntaxes
      BY <2>4 DEF Conversion!Credit, Conversion!Becomes
    <3>2. hops \in Nat
      BY <2>1 DEF Trail
    <3>3. QED
      BY <3>1, <3>2 DEF Trail, Conversion!Settles
  <2>5. QED
    BY <1>3, <2>2, <2>3, <2>4 DEF DataNext, data_vars, Conversion!Next
<1>4. QED
  BY <1>1, <1>2, <1>3 DEF TrailInv

\* What conversions lose is lost in the first round trip: from the fourth on, each
\* gives the document of two conversions before again (convert_wire_format).
THEOREM LossesSettle == ASSUME NoneIsNoRecord PROVE DataSpec => ConversionSettles
<1>1. DataInit => TrailInv
  BY TrailInit
<1>2. TrailInv /\ [DataNext]_data_vars => TrailInv'
  BY TrailNext
<1>3. TrailInv /\ [DataNext]_data_vars => [kind = "conversion" => Conversion!Settles]_data_vars
  BY TrailNext
<1>4. QED
  BY <1>1, <1>2, <1>3, PTL DEF DataSpec, ConversionSettles
-----------------------------------------------------------------------------
(* Recursion along a text *)

Smaller == {ss \in Nat \X Nat : ss[1] < ss[2]}

\* A set that holds 0 and with each number the next one holds them all.
LEMMA Reaches ==
  ASSUME NEW n \in Nat, NEW S, 0 \in S, \A i \in 1..n : i - 1 \in S => i \in S
  PROVE  0..n \subseteq S
<1> SUFFICES ASSUME (0..n) \ S # {} PROVE FALSE
  OBVIOUS
<1>1. IsWellFoundedOn(Smaller, Nat)
  BY NatLessThanWellFounded DEF OpToRel, Smaller
<1>2. (0..n) \ S \subseteq Nat
  OBVIOUS
<1>3. PICK m \in (0..n) \ S : \A k \in (0..n) \ S : ~(<<k, m>> \in Smaller)
  BY <1>1, <1>2, WFMin
<1>4. m \in 1..n /\ m - 1 \in 0..n /\ <<m - 1, m>> \in Smaller
  BY <1>3 DEF Smaller
<1>5. QED
  BY <1>3, <1>4

\* The functions on 0..n that begin with base and go on step by step.
Runs(n, V, base, step) ==
  {g \in [0..n -> V] : g[0] = base /\ \A i \in 1..n : g[i] = step[i][g[i - 1]]}

\* There is one.
LEMMA Recursion ==
  ASSUME NEW n \in Nat, NEW V, NEW base \in V, NEW step \in [1..n -> [V -> V]]
  PROVE  Runs(n, V, base, step) # {}
<1> DEFINE S == {k \in 0..n : Runs(k, V, base, step) # {}}
<1>1. 0 \in S
  <2>1. [i \in 0..0 |-> base] \in Runs(0, V, base, step)
    BY DEF Runs
  <2>2. QED
    BY <2>1
<1>2. ASSUME NEW k \in 1..n, k - 1 \in S PROVE k \in S
  <2>1. PICK g : g \in Runs(k - 1, V, base, step)
    BY <1>2
  <2> DEFINE next == step[k][g[k - 1]]
  <2> DEFINE h == [i \in 0..k |-> IF i = k THEN next ELSE g[i]]
  <2>2. next \in V
    BY <2>1 DEF Runs
  <2>3. h \in [0..k -> V]
    BY <2>1, <2>2 DEF Runs
  <2>4. h[0] = base
    BY <2>1 DEF Runs
  <2>5. ASSUME NEW i \in 1..k PROVE h[i] = step[i][h[i - 1]]
    <3>1. h[i - 1] = g[i - 1]
      OBVIOUS
    <3>2. CASE i = k
      <4>1. h[i] = next
        BY <3>2
      <4>2. QED
        BY <3>1, <3>2, <4>1
    <3>3. CASE i # k
      <4>1. i \in 1..(k - 1) /\ h[i] = g[i]
        BY <3>3
      <4>2. QED
        BY <2>1, <3>1, <4>1 DEF Runs
    <3>4. QED
      BY <3>2, <3>3
  <2>6. h \in Runs(k, V, base, step)
    <3> HIDE DEF h
    <3>1. QED
      BY <2>3, <2>4, <2>5 DEF Runs
  <2>7. QED
    BY <2>6
<1>3. n \in S
  <2> HIDE DEF S
  <2>1. 0..n \subseteq S
    BY <1>1, <1>2, Reaches
  <2>2. QED
    BY <2>1
<1>4. QED
  BY <1>3

\* So a recursive function that is defined by the same step is such a run.
LEMMA RecursiveRun ==
  ASSUME NEW n \in Nat, NEW V, NEW base \in V, NEW step \in [1..n -> [V -> V]], NEW run,
         DOMAIN run = 0..n, run[0] = base,
         \A i \in 1..n : run[i - 1] \in V => run[i] = step[i][run[i - 1]],
         run = [i \in 0..n |-> run[i]]
  PROVE  run \in Runs(n, V, base, step)
<1> DEFINE S == {i \in 0..n : run[i] \in V}
<1>1. 0 \in S
  OBVIOUS
<1>2. ASSUME NEW i \in 1..n, i - 1 \in S PROVE i \in S
  <2>1. run[i - 1] \in V /\ step[i] \in [V -> V]
    BY <1>2
  <2>2. step[i][run[i - 1]] \in V
    BY <2>1
  <2>3. run[i] \in V
    BY <1>2, <2>1, <2>2
  <2>4. QED
    BY <2>3
<1>3. 0..n \subseteq S
  <2> HIDE DEF S
  <2>1. QED
    BY <1>1, <1>2, Reaches
<1>4. run \in [0..n -> V]
  BY <1>3
<1>5. QED
  BY <1>3, <1>4 DEF Runs

Moduli == {97, 23}

\* One more digit, or letter, of a number modulo m.
Joined(r, c, m) == (r * (IF Entry!IsDigit(c) THEN 10 ELSE 100) + c) % m

LEMMA JoinedType ==
  ASSUME NEW m \in Moduli, NEW r \in 0..(m - 1), NEW c \in Int PROVE Joined(r, c, m) \in 0..(m - 1)
BY DEF Joined, Moduli

\* What sum() adds up, number by number.
LEMMA SumRun ==
  ASSUME NEW n \in Nat, NEW f, \A i \in 1..n : f[i] \in Int
  PROVE  \E s \in [0..n -> Int] :
           s[0] = 0 /\ (\A i \in 1..n : s[i] = s[i - 1] + f[i])
           /\ Entry!Sum(f, n) = s[n]
<1> DEFINE Extended(s) == [i \in 0..n |-> IF i = 0 THEN 0 ELSE s[i - 1] + f[i]]
<1> DEFINE step == [i \in 1..n |-> [v \in Int |-> v + f[i]]]
<1> DEFINE run == CHOOSE s : s = Extended(s)
<1>1. n \in Nat /\ 0 \in Int
  OBVIOUS
<1>2. step \in [1..n -> [Int -> Int]]
  OBVIOUS
<1>3. PICK g : g \in Runs(n, Int, 0, step)
  <2> HIDE DEF step
  <2>1. Runs(n, Int, 0, step) # {}
    BY <1>1, <1>2, Recursion, Zenon
  <2>2. QED
    BY <2>1
<1>4. /\ g \in [0..n -> Int] /\ g[0] = 0
      /\ \A i \in 1..n : g[i] = g[i - 1] + f[i]
  <2>1. /\ g \in [0..n -> Int] /\ g[0] = 0
        /\ \A i \in 1..n : g[i] = step[i][g[i - 1]]
    BY <1>3 DEF Runs
  <2>2. ASSUME NEW i \in 1..n PROVE g[i] = g[i - 1] + f[i]
    <3>1. g[i - 1] \in Int /\ step[i] = [v \in Int |-> v + f[i]]
      BY <1>1, <2>1
    <3>2. QED
      BY <2>1, <3>1
  <2>3. QED
    BY <2>1, <2>2
<1>5. g = Extended(g)
  <2>1. \A i \in 0..n : g[i] = Extended(g)[i]
    BY <1>1, <1>4
  <2>2. QED
    BY <1>4, <2>1
<1>6. run = Extended(run)
  BY <1>5
<1>7. /\ DOMAIN run = 0..n /\ run[0] = 0
      /\ \A i \in 1..n : run[i] = run[i - 1] + f[i]
  <2> HIDE DEF run
  <2>1. /\ DOMAIN Extended(run) = 0..n /\ Extended(run)[0] = 0
        /\ \A i \in 1..n : Extended(run)[i] = run[i - 1] + f[i]
    BY <1>1
  <2>2. QED
    BY ONLY <1>6, <2>1
<1>8. run \in Runs(n, Int, 0, step)
  <2> HIDE DEF run
  <2>1. run = [i \in 0..n |-> run[i]]
    BY <1>6
  <2>2. \A i \in 1..n : run[i - 1] \in Int => run[i] = step[i][run[i - 1]]
    BY <1>7
  <2>3. QED
    <3> HIDE DEF step
    <3>1. QED
      BY <1>1, <1>2, <1>7, <2>1, <2>2, RecursiveRun, Zenon
<1>9. Entry!Sum(f, n) = run[n]
  BY DEF Entry!Sum
<1>10. QED
  <2> HIDE DEF run
  <2>1. QED
    BY <1>7, <1>8, <1>9 DEF Runs

\* A number modulo 97 or 23, digit by digit.
LEMMA ModuloRun ==
  ASSUME NEW m \in Moduli, NEW x, Len(x) \in Nat, \A i \in 1..Len(x) : x[i] \in Int
  PROVE  \E s \in [0..Len(x) -> (0..(m - 1))] :
           s[0] = 0 /\ (\A i \in 1..Len(x) : s[i] = Joined(s[i - 1], x[i], m))
           /\ Entry!Modulo(x, m) = s[Len(x)]
<1> DEFINE Extended(s) ==
             [i \in 0..Len(x) |->
                IF i = 0 THEN 0
                ELSE (s[i - 1] * (IF Entry!IsDigit(x[i]) THEN 10 ELSE 100) + x[i]) % m]
<1> DEFINE step == [i \in 1..Len(x) |-> [v \in (0..(m - 1)) |-> Joined(v, x[i], m)]]
<1> DEFINE run == CHOOSE s : s = Extended(s)
<1>1. Len(x) \in Nat /\ 0 \in (0..(m - 1))
  BY DEF Moduli
<1>2. step \in [1..Len(x) -> [(0..(m - 1)) -> (0..(m - 1))]]
  <2>1. ASSUME NEW i \in 1..Len(x), NEW v \in 0..(m - 1) PROVE Joined(v, x[i], m) \in 0..(m - 1)
    <3>1. x[i] \in Int
      OBVIOUS
    <3>2. QED
      BY <3>1, JoinedType
  <2>2. QED
    BY <2>1
<1>3. PICK g : g \in Runs(Len(x), (0..(m - 1)), 0, step)
  <2> HIDE DEF step
  <2>1. Runs(Len(x), (0..(m - 1)), 0, step) # {}
    BY <1>1, <1>2, Recursion, Zenon
  <2>2. QED
    BY <2>1
<1>4. /\ g \in [0..Len(x) -> (0..(m - 1))] /\ g[0] = 0
      /\ \A i \in 1..Len(x) : g[i] = Joined(g[i - 1], x[i], m)
  <2>1. /\ g \in [0..Len(x) -> (0..(m - 1))] /\ g[0] = 0
        /\ \A i \in 1..Len(x) : g[i] = step[i][g[i - 1]]
    BY <1>3 DEF Runs
  <2>2. ASSUME NEW i \in 1..Len(x) PROVE g[i] = Joined(g[i - 1], x[i], m)
    <3>1. g[i - 1] \in (0..(m - 1)) /\ step[i] = [v \in (0..(m - 1)) |-> Joined(v, x[i], m)]
      BY <1>1, <2>1
    <3>2. QED
      BY <2>1, <3>1
  <2>3. QED
    BY <2>1, <2>2
<1>5. g = Extended(g)
  <2>1. \A i \in 0..Len(x) : g[i] = Extended(g)[i]
    BY <1>1, <1>4 DEF Joined
  <2>2. QED
    BY <1>4, <2>1
<1>6. run = Extended(run)
  BY <1>5
<1>7. /\ DOMAIN run = 0..Len(x) /\ run[0] = 0
      /\ \A i \in 1..Len(x) : run[i] = Joined(run[i - 1], x[i], m)
  <2> HIDE DEF run
  <2>1. /\ DOMAIN Extended(run) = 0..Len(x) /\ Extended(run)[0] = 0
        /\ \A i \in 1..Len(x) : Extended(run)[i] = Joined(run[i - 1], x[i], m)
    BY <1>1 DEF Joined
  <2>2. QED
    BY ONLY <1>6, <2>1
<1>8. run \in Runs(Len(x), (0..(m - 1)), 0, step)
  <2> HIDE DEF run
  <2>1. run = [i \in 0..Len(x) |-> run[i]]
    BY <1>6
  <2>2. \A i \in 1..Len(x) : run[i - 1] \in (0..(m - 1)) => run[i] = step[i][run[i - 1]]
    BY <1>7
  <2>3. QED
    <3> HIDE DEF step
    <3>1. QED
      BY <1>1, <1>2, <1>7, <2>1, <2>2, RecursiveRun, Zenon
<1>9. Entry!Modulo(x, m) = run[Len(x)]
  BY DEF Entry!Modulo, Joined
<1>10. QED
  <2> HIDE DEF run
  <2>1. QED
    BY <1>7, <1>8, <1>9 DEF Runs

\* A number, digit by digit.
LEMMA ValueRun ==
  ASSUME NEW x, Len(x) \in Nat, \A i \in 1..Len(x) : x[i] \in Int
  PROVE  \E s \in [0..Len(x) -> Int] :
           s[0] = 0 /\ (\A i \in 1..Len(x) : s[i] = s[i - 1] * 10 + x[i])
           /\ Entry!Value(x) = s[Len(x)]
<1> DEFINE Extended(s) == [i \in 0..Len(x) |-> IF i = 0 THEN 0 ELSE s[i - 1] * 10 + x[i]]
<1> DEFINE step == [i \in 1..Len(x) |-> [v \in Int |-> v * 10 + x[i]]]
<1> DEFINE run == CHOOSE s : s = Extended(s)
<1>1. Len(x) \in Nat /\ 0 \in Int
  OBVIOUS
<1>2. step \in [1..Len(x) -> [Int -> Int]]
  OBVIOUS
<1>3. PICK g : g \in Runs(Len(x), Int, 0, step)
  <2> HIDE DEF step
  <2>1. Runs(Len(x), Int, 0, step) # {}
    BY <1>1, <1>2, Recursion, Zenon
  <2>2. QED
    BY <2>1
<1>4. /\ g \in [0..Len(x) -> Int] /\ g[0] = 0
      /\ \A i \in 1..Len(x) : g[i] = g[i - 1] * 10 + x[i]
  <2>1. /\ g \in [0..Len(x) -> Int] /\ g[0] = 0
        /\ \A i \in 1..Len(x) : g[i] = step[i][g[i - 1]]
    BY <1>3 DEF Runs
  <2>2. ASSUME NEW i \in 1..Len(x) PROVE g[i] = g[i - 1] * 10 + x[i]
    <3>1. g[i - 1] \in Int /\ step[i] = [v \in Int |-> v * 10 + x[i]]
      BY <1>1, <2>1
    <3>2. QED
      BY <2>1, <3>1
  <2>3. QED
    BY <2>1, <2>2
<1>5. g = Extended(g)
  <2>1. \A i \in 0..Len(x) : g[i] = Extended(g)[i]
    BY <1>1, <1>4
  <2>2. QED
    BY <1>4, <2>1
<1>6. run = Extended(run)
  BY <1>5
<1>7. /\ DOMAIN run = 0..Len(x) /\ run[0] = 0
      /\ \A i \in 1..Len(x) : run[i] = run[i - 1] * 10 + x[i]
  <2> HIDE DEF run
  <2>1. /\ DOMAIN Extended(run) = 0..Len(x) /\ Extended(run)[0] = 0
        /\ \A i \in 1..Len(x) : Extended(run)[i] = run[i - 1] * 10 + x[i]
    BY <1>1
  <2>2. QED
    BY ONLY <1>6, <2>1
<1>8. run \in Runs(Len(x), Int, 0, step)
  <2> HIDE DEF run
  <2>1. run = [i \in 0..Len(x) |-> run[i]]
    BY <1>6
  <2>2. \A i \in 1..Len(x) : run[i - 1] \in Int => run[i] = step[i][run[i - 1]]
    BY <1>7
  <2>3. QED
    <3> HIDE DEF step
    <3>1. QED
      BY <1>1, <1>2, <1>7, <2>1, <2>2, RecursiveRun, Zenon
<1>9. Entry!Value(x) = run[Len(x)]
  BY DEF Entry!Value
<1>10. QED
  <2> HIDE DEF run
  <2>1. QED
    BY <1>7, <1>8, <1>9 DEF Runs

Texts == Seq(0..40)

LEMMA TextType ==
  ASSUME NEW x \in Texts
  PROVE  /\ x \in Seq(0..40) /\ Len(x) \in Nat
         /\ \A i \in 1..Len(x) : x[i] \in 0..40 /\ x[i] \in Int
<1>1. x \in Seq(0..40)
  BY DEF Texts
<1>2. \A T : x \in Seq(T) => \A i \in 1..Len(x) : x[i] \in T
  OBVIOUS
<1>3. Len(x) \in Nat /\ 0..40 \subseteq Int
  BY ONLY <1>1
<1>4. QED
  BY <1>1, <1>2, <1>3, Zenon

LEMMA SameText ==
  ASSUME NEW T, NEW x \in Seq(T), NEW y \in Seq(T), Len(x) = Len(y),
         \A i \in 1..Len(x) : x[i] = y[i]
  PROVE  x = y
OBVIOUS

KeepSteps(k, x, characters) ==
  /\ k \in [0..Len(x) -> Texts]
  /\ k[0] = <<>>
  /\ \A i \in 1..Len(x) :
       k[i] = IF x[i] \in characters THEN Append(k[i - 1], x[i]) ELSE k[i - 1]

\* The characters that are kept, one after the other.
LEMMA KeptRun ==
  ASSUME NEW x \in Texts, NEW characters
  PROVE  \E k : KeepSteps(k, x, characters) /\ Entry!Kept(x, characters) = k[Len(x)]
<1> DEFINE Extended(s) ==
             [i \in 0..Len(x) |->
                IF i = 0 THEN <<>>
                ELSE IF x[i] \in characters THEN Append(s[i - 1], x[i]) ELSE s[i - 1]]
<1> DEFINE step ==
             [i \in 1..Len(x) |->
                [v \in Texts |-> IF x[i] \in characters THEN Append(v, x[i]) ELSE v]]
<1> DEFINE run == CHOOSE s : s = Extended(s)
<1>1. Len(x) \in Nat /\ <<>> \in Texts
  BY DEF Texts
<1>2. step \in [1..Len(x) -> [Texts -> Texts]]
  <2>1. ASSUME NEW i \in 1..Len(x), NEW v \in Texts
        PROVE  (IF x[i] \in characters THEN Append(v, x[i]) ELSE v) \in Texts
    <3>1. x[i] \in 0..40
      BY TextType
    <3>2. QED
      BY <3>1 DEF Texts
  <2>2. QED
    BY <2>1
<1>3. PICK g : g \in Runs(Len(x), Texts, <<>>, step)
  <2> HIDE DEF step
  <2>1. Runs(Len(x), Texts, <<>>, step) # {}
    BY <1>1, <1>2, Recursion, Zenon
  <2>2. QED
    BY <2>1
<1>4. /\ g \in [0..Len(x) -> Texts] /\ g[0] = <<>>
      /\ \A i \in 1..Len(x) :
           g[i] = IF x[i] \in characters THEN Append(g[i - 1], x[i]) ELSE g[i - 1]
  <2>1. /\ g \in [0..Len(x) -> Texts] /\ g[0] = <<>>
        /\ \A i \in 1..Len(x) : g[i] = step[i][g[i - 1]]
    BY <1>3 DEF Runs
  <2>2. ASSUME NEW i \in 1..Len(x)
        PROVE  g[i] = IF x[i] \in characters THEN Append(g[i - 1], x[i]) ELSE g[i - 1]
    <3>1. /\ g[i - 1] \in Texts
          /\ step[i] = [v \in Texts |-> IF x[i] \in characters THEN Append(v, x[i]) ELSE v]
      BY <1>1, <2>1
    <3>2. QED
      BY <2>1, <3>1
  <2>3. QED
    BY <2>1, <2>2
<1>5. g = Extended(g)
  <2>1. \A i \in 0..Len(x) : g[i] = Extended(g)[i]
    <3> HIDE DEF Extended
    <3>1. ASSUME NEW i \in 1..Len(x) PROVE g[i] = Extended(g)[i]
      <4>1. i \in 0..Len(x) /\ i # 0
        BY <1>1
      <4>2. QED
        BY <1>4, <4>1, Zenon DEF Extended
    <3>2. g[0] = Extended(g)[0]
      BY <1>1, <1>4, SMTT(30) DEF Extended
    <3>3. QED
      BY <1>1, <3>1, <3>2
  <2>2. QED
    BY <1>4, <2>1
<1>6. run = Extended(run)
  BY <1>5, Zenon
<1>7. /\ DOMAIN run = 0..Len(x) /\ run[0] = <<>>
      /\ \A i \in 1..Len(x) :
           run[i] = IF x[i] \in characters THEN Append(run[i - 1], x[i]) ELSE run[i - 1]
  <2> HIDE DEF run
  <2>1. /\ DOMAIN Extended(run) = 0..Len(x) /\ Extended(run)[0] = <<>>
        /\ \A i \in 1..Len(x) :
             Extended(run)[i]
               = IF x[i] \in characters THEN Append(run[i - 1], x[i]) ELSE run[i - 1]
    BY <1>1
  <2>2. QED
    BY ONLY <1>6, <2>1
<1>8. run \in Runs(Len(x), Texts, <<>>, step)
  <2> HIDE DEF run
  <2>1. run = [i \in 0..Len(x) |-> run[i]]
    BY <1>6
  <2>2. \A i \in 1..Len(x) : run[i - 1] \in Texts => run[i] = step[i][run[i - 1]]
    BY <1>7
  <2>3. QED
    <3> HIDE DEF step
    <3>1. QED
      BY <1>1, <1>2, <1>7, <2>1, <2>2, RecursiveRun, Zenon
<1>9. Entry!Kept(x, characters) = run[Len(x)]
  BY DEF Entry!Kept
<1>10. QED
  <2> HIDE DEF run
  <2>1. QED
    BY <1>7, <1>8, <1>9 DEF Runs, KeepSteps

-----------------------------------------------------------------------------
(* Slips in sums and numbers *)

\* Two series of n numbers, the same but for the j-th.
AlikeBut(f, g, n, j) ==
  /\ n \in Nat /\ j \in 1..n
  /\ \A i \in 1..n : f[i] \in Int /\ g[i] \in Int /\ (i # j => f[i] = g[i])

\* One number of a sum makes all the difference.
LEMMA SumChange ==
  ASSUME NEW n, NEW f, NEW g, NEW j, AlikeBut(f, g, n, j)
  PROVE  /\ Entry!Sum(f, n) \in Int /\ Entry!Sum(g, n) \in Int
         /\ Entry!Sum(g, n) - Entry!Sum(f, n) = g[j] - f[j]
<1> n \in Nat /\ j \in 1..n
  BY DEF AlikeBut
<1> \A i \in 1..n : f[i] \in Int /\ g[i] \in Int /\ (i # j => f[i] = g[i])
  BY DEF AlikeBut
<1>1. PICK s \in [0..n -> Int] :
        s[0] = 0 /\ (\A i \in 1..n : s[i] = s[i - 1] + f[i]) /\ Entry!Sum(f, n) = s[n]
  BY SumRun
<1>2. PICK t \in [0..n -> Int] :
        t[0] = 0 /\ (\A i \in 1..n : t[i] = t[i - 1] + g[i]) /\ Entry!Sum(g, n) = t[n]
  BY SumRun
<1> DEFINE S == {i \in 0..n : t[i] - s[i] = (IF i < j THEN 0 ELSE g[j] - f[j])}
<1>3. 0 \in S
  BY <1>1, <1>2
<1>4. ASSUME NEW i \in 1..n, i - 1 \in S PROVE i \in S
  <2>1. /\ s[i] = s[i - 1] + f[i] /\ t[i] = t[i - 1] + g[i]
        /\ s[i] \in Int /\ t[i] \in Int /\ s[i - 1] \in Int /\ t[i - 1] \in Int
        /\ f[i] \in Int /\ g[i] \in Int /\ f[j] \in Int /\ g[j] \in Int
    <3>1. i \in 0..n /\ i - 1 \in 0..n
      OBVIOUS
    <3>2. s[i] \in Int /\ t[i] \in Int /\ s[i - 1] \in Int /\ t[i - 1] \in Int
      BY <3>1
    <3>3. s[i] = s[i - 1] + f[i] /\ t[i] = t[i - 1] + g[i]
      BY <1>1, <1>2, Zenon
    <3>4. f[i] \in Int /\ g[i] \in Int /\ f[j] \in Int /\ g[j] \in Int
      BY Zenon
    <3>5. QED
      BY <3>2, <3>3, <3>4
  <2>2. t[i - 1] - s[i - 1] = (IF i - 1 < j THEN 0 ELSE g[j] - f[j])
    BY <1>4
  <2>3. CASE i = j
    <3>1. t[i - 1] - s[i - 1] = 0 /\ f[i] = f[j] /\ g[i] = g[j]
      BY <2>2, <2>3
    <3>2. t[i] - s[i] = g[j] - f[j]
      BY ONLY <2>1, <3>1, SMTT(30)
    <3>3. QED
      BY <2>3, <3>2
  <2>4. CASE i # j
    <3>1. f[i] = g[i] /\ (i < j <=> i - 1 < j)
      <4>1. f[i] = g[i]
        BY <2>4, Zenon
      <4>2. i < j <=> i - 1 < j
        BY ONLY <2>4, i \in 1..n, j \in 1..n, n \in Nat
      <4>3. QED
        BY <4>1, <4>2
    <3>2. t[i] - s[i] = t[i - 1] - s[i - 1]
      BY ONLY <2>1, <3>1
    <3>3. t[i] - s[i] = (IF i < j THEN 0 ELSE g[j] - f[j])
      BY ONLY <2>2, <3>1, <3>2, Zenon
    <3>4. i \in 0..n
      OBVIOUS
    <3>5. QED
      BY <3>3, <3>4
  <2>5. QED
    BY <2>3, <2>4
<1>5. n \in S
  <2> HIDE DEF S
  <2>1. 0..n \subseteq S
    BY <1>3, <1>4, Reaches
  <2>2. QED
    BY <2>1
<1>6. QED
  BY <1>1, <1>2, <1>5

\* A run through a number with dashes in it, which are skipped.
Steps(s, x, m) ==
  /\ s \in [0..Len(x) -> 0..(m - 1)]
  /\ s[0] = 0
  /\ \A i \in 1..Len(x) :
       s[i] = IF x[i] = Entry!Dash THEN s[i - 1] ELSE Joined(s[i - 1], x[i], m)

\* 10 and 100 have inverses modulo 97 and 23: what differs goes on to differ.
LEMMA JoinedApart ==
  ASSUME NEW m \in Moduli, NEW r \in 0..(m - 1), NEW q \in 0..(m - 1), NEW c \in 0..35,
         Joined(r, c, m) = Joined(q, c, m)
  PROVE  r = q
<1>1. CASE m = 97
  <2>1. CASE Entry!IsDigit(c)
    BY <1>1, <2>1 DEF Joined
  <2>2. CASE ~Entry!IsDigit(c)
    BY <1>1, <2>2 DEF Joined
  <2>3. QED
    BY <2>1, <2>2
<1>2. CASE m = 23
  <2>1. CASE Entry!IsDigit(c)
    BY <1>2, <2>1 DEF Joined
  <2>2. CASE ~Entry!IsDigit(c)
    BY <1>2, <2>2 DEF Joined
  <2>3. QED
    BY <2>1, <2>2
<1>3. QED
  BY <1>1, <1>2 DEF Moduli

LEMMA DigitApart ==
  ASSUME NEW m \in Moduli, NEW r \in 0..(m - 1), NEW c \in 0..9, NEW d \in 0..9, c # d
  PROVE  Joined(r, c, m) # Joined(r, d, m)
<1>1. CASE m = 97
  BY <1>1 DEF Joined, Entry!IsDigit
<1>2. CASE m = 23
  BY <1>2 DEF Joined, Entry!IsDigit
<1>3. QED
  BY <1>1, <1>2 DEF Moduli

LEMMA SwapApart ==
  ASSUME NEW m \in Moduli, NEW r \in 0..(m - 1), NEW c \in 0..9, NEW d \in 0..9, c # d
  PROVE  Joined(Joined(r, c, m), d, m) # Joined(Joined(r, d, m), c, m)
<1>1. CASE m = 97
  BY <1>1 DEF Joined, Entry!IsDigit
<1>2. CASE m = 23
  BY <1>2 DEF Joined, Entry!IsDigit
<1>3. QED
  BY <1>1, <1>2 DEF Moduli

\* Two runs are together up to the first difference of their numbers, ...
LEMMA TogetherBefore ==
  ASSUME NEW m \in Moduli, NEW x, NEW y, Len(x) \in Nat, Len(y) = Len(x), NEW s, NEW t,
         Steps(s, x, m), Steps(t, y, m), NEW j \in 0..Len(x),
         \A i \in 1..j : x[i] = y[i]
  PROVE  s[j] = t[j]
<1> DEFINE S == {i \in 0..j : s[i] = t[i]}
<1>1. 0 \in S
  BY DEF Steps
<1>2. ASSUME NEW i \in 1..j, i - 1 \in S PROVE i \in S
  BY <1>2 DEF Steps
<1>3. j \in S
  <2> HIDE DEF S
  <2>1. j \in Nat
    OBVIOUS
  <2> HIDE DEF S
  <2>2. 0..j \subseteq S
    BY <1>1, <1>2, <2>1, Reaches
  <2>3. QED
    BY <2>1, <2>2
<1>4. QED
  BY <1>3

\* ... and once apart they stay apart while the numbers are the same.
LEMMA ApartAfter ==
  ASSUME NEW m \in Moduli, NEW x, NEW y, Len(x) \in Nat, Len(y) = Len(x), NEW s, NEW t,
         Steps(s, x, m), Steps(t, y, m), NEW j \in 0..Len(x),
         \A i \in (j + 1)..Len(x) : x[i] = y[i] /\ x[i] \in (0..35) \cup {Entry!Dash},
         s[j] # t[j]
  PROVE  s[Len(x)] # t[Len(x)]
<1> DEFINE S == {i \in 0..Len(x) : i < j \/ s[i] # t[i]}
<1>1. 0 \in S
  OBVIOUS
<1>2. ASSUME NEW i \in 1..Len(x), i - 1 \in S PROVE i \in S
  <2>1. CASE i <= j
    BY <2>1
  <2>2. CASE i > j
    <3>0. i \in (j + 1)..Len(x) /\ ~(i - 1 < j)
      BY <2>2
    <3>1. /\ x[i] = y[i] /\ x[i] \in (0..35) \cup {Entry!Dash}
          /\ s[i - 1] # t[i - 1] /\ i - 1 \in 0..Len(x)
      BY <1>2, <3>0
    <3>2. /\ s[i - 1] \in 0..(m - 1) /\ t[i - 1] \in 0..(m - 1)
          /\ s[i] = IF x[i] = Entry!Dash THEN s[i - 1] ELSE Joined(s[i - 1], x[i], m)
          /\ t[i] = IF y[i] = Entry!Dash THEN t[i - 1] ELSE Joined(t[i - 1], y[i], m)
      BY <3>1 DEF Steps
    <3>3. s[i] # t[i]
      <4>1. CASE x[i] = Entry!Dash
        BY ONLY <3>1, <3>2, <4>1
      <4>2. CASE x[i] # Entry!Dash
        <5>1. x[i] \in 0..35 /\ y[i] = x[i]
          BY <3>1, <4>2
        <5>2. s[i] = Joined(s[i - 1], x[i], m) /\ t[i] = Joined(t[i - 1], x[i], m)
          BY ONLY <3>2, <4>2, <5>1
        <5>3. Joined(s[i - 1], x[i], m) # Joined(t[i - 1], x[i], m)
          BY <3>1, <3>2, <5>1, JoinedApart, Zenon
        <5>4. QED
          BY ONLY <5>2, <5>3
      <4>3. QED
        BY <4>1, <4>2
    <3>4. QED
      BY <3>3
  <2>3. QED
    BY <2>1, <2>2
<1>3. Len(x) \in S
  <2> HIDE DEF S
  <2>1. 0..Len(x) \subseteq S
    BY <1>1, <1>2, Reaches
  <2>2. QED
    BY <2>1
<1>4. QED
  BY <1>3

\* y reads like x but for the digit at j, ...
DigitOff(x, y, j) ==
  /\ Len(x) \in Nat /\ Len(y) = Len(x) /\ j \in 1..Len(x)
  /\ \A i \in 1..Len(x) : x[i] \in (0..35) \cup {Entry!Dash} /\ (i # j => x[i] = y[i])
  /\ x[j] \in 0..9 /\ y[j] \in 0..9 /\ x[j] # y[j]

\* ... or for the order of the digits at j and j + 1.
OrderOff(x, y, j) ==
  /\ Len(x) \in Nat /\ Len(y) = Len(x) /\ j \in 1..Len(x) /\ j + 1 \in 1..Len(x)
  /\ \A i \in 1..Len(x) :
       x[i] \in (0..35) \cup {Entry!Dash} /\ (i \notin {j, j + 1} => x[i] = y[i])
  /\ x[j] \in 0..9 /\ x[j + 1] \in 0..9 /\ x[j] # x[j + 1]
  /\ y[j] = x[j + 1] /\ y[j + 1] = x[j]

\* So a wrong digit ...
LEMMA WrongDigitApart ==
  ASSUME NEW m \in Moduli, NEW x, NEW y, NEW j, DigitOff(x, y, j), NEW s, NEW t,
         Steps(s, x, m), Steps(t, y, m)
  PROVE  s[Len(x)] # t[Len(x)]
<1> /\ Len(x) \in Nat /\ Len(y) = Len(x) /\ j \in 1..Len(x)
    /\ \A i \in 1..Len(x) : x[i] \in (0..35) \cup {Entry!Dash} /\ (i # j => x[i] = y[i])
    /\ x[j] \in 0..9 /\ y[j] \in 0..9 /\ x[j] # y[j]
  BY DEF DigitOff
<1>1. s[j - 1] = t[j - 1]
  BY TogetherBefore
<1>2. x[j] # Entry!Dash /\ y[j] # Entry!Dash
  BY DEF Entry!Dash
<1>3. /\ s[j] = Joined(s[j - 1], x[j], m) /\ t[j] = Joined(t[j - 1], y[j], m)
      /\ s[j - 1] \in 0..(m - 1)
  BY <1>2 DEF Steps
<1>4. s[j] # t[j]
  BY <1>1, <1>3, DigitApart
<1>5. /\ j \in 0..Len(x)
      /\ \A i \in (j + 1)..Len(x) : x[i] = y[i] /\ x[i] \in (0..35) \cup {Entry!Dash}
  OBVIOUS
<1>6. QED
  BY <1>4, <1>5, ApartAfter

\* ... and two digits in the wrong order change the remainder.
LEMMA WrongOrderApart ==
  ASSUME NEW m \in Moduli, NEW x, NEW y, NEW j, OrderOff(x, y, j), NEW s, NEW t,
         Steps(s, x, m), Steps(t, y, m)
  PROVE  s[Len(x)] # t[Len(x)]
<1> /\ Len(x) \in Nat /\ Len(y) = Len(x) /\ j \in 1..Len(x) /\ j + 1 \in 1..Len(x)
    /\ \A i \in 1..Len(x) :
         x[i] \in (0..35) \cup {Entry!Dash} /\ (i \notin {j, j + 1} => x[i] = y[i])
    /\ x[j] \in 0..9 /\ x[j + 1] \in 0..9 /\ x[j] # x[j + 1]
    /\ y[j] = x[j + 1] /\ y[j + 1] = x[j]
  BY DEF OrderOff
<1>1. s[j - 1] = t[j - 1]
  BY TogetherBefore
<1>2. x[j] # Entry!Dash /\ x[j + 1] # Entry!Dash
  BY DEF Entry!Dash
<1>3. /\ s[j] = Joined(s[j - 1], x[j], m) /\ t[j] = Joined(t[j - 1], x[j + 1], m)
      /\ s[j - 1] \in 0..(m - 1)
  BY <1>2 DEF Steps
<1>4. s[j + 1] = Joined(s[j], x[j + 1], m) /\ t[j + 1] = Joined(t[j], x[j], m)
  BY <1>2 DEF Steps
<1>5. s[j + 1] # t[j + 1]
  BY <1>1, <1>3, <1>4, SwapApart, SMTT(30)
<1>6. /\ j + 1 \in 0..Len(x)
      /\ \A i \in (j + 1 + 1)..Len(x) : x[i] = y[i] /\ x[i] \in (0..35) \cup {Entry!Dash}
  OBVIOUS
<1>7. QED
  BY <1>5, <1>6, ApartAfter, SMTT(30)

-----------------------------------------------------------------------------
(* Normal forms *)

\* A character that is not kept, wherever it comes in, leaves what is kept as it is.
LEMMA InsertSkipped ==
  ASSUME NEW x \in Texts, NEW y \in Texts, NEW n \in 0..Len(x), NEW characters,
         Len(y) = Len(x) + 1, y[n + 1] \notin characters,
         \A i \in 1..n : y[i] = x[i], \A i \in (n + 1)..Len(x) : y[i + 1] = x[i]
  PROVE  Entry!Kept(y, characters) = Entry!Kept(x, characters)
<1>1. PICK k : KeepSteps(k, x, characters) /\ Entry!Kept(x, characters) = k[Len(x)]
  BY KeptRun, Zenon
<1>2. PICK l : KeepSteps(l, y, characters) /\ Entry!Kept(y, characters) = l[Len(y)]
  BY KeptRun, Zenon
<1> DEFINE S == {i \in 0..Len(x) : IF i < n THEN l[i] = k[i] ELSE l[i + 1] = k[i]}
<1>3. Len(x) \in Nat /\ Len(y) \in Nat
  BY DEF Texts
<1>4. ASSUME n = 0 PROVE l[1] = l[0]
  <2>1. 1 \in 1..Len(y) /\ 1 - 1 = 0 /\ n + 1 = 1
    BY <1>3, <1>4
  <2>2. \A i \in 1..Len(y) :
          l[i] = IF y[i] \in characters THEN Append(l[i - 1], y[i]) ELSE l[i - 1]
    BY <1>2, Zenon DEF KeepSteps
  <2>3. l[1] = IF y[1] \in characters THEN Append(l[1 - 1], y[1]) ELSE l[1 - 1]
    BY <2>1, <2>2, Zenon
  <2>4. QED
    BY <2>1, <2>3
<1>5. 0 \in S
  BY <1>1, <1>2, <1>3, <1>4 DEF KeepSteps
<1>6. ASSUME NEW i \in 1..Len(x), i - 1 \in S PROVE i \in S
  <2>1. k[i] = (IF x[i] \in characters THEN Append(k[i - 1], x[i]) ELSE k[i - 1])
    BY <1>1 DEF KeepSteps
  <2>2. CASE i <= n
    <3>1. l[i] = (IF y[i] \in characters THEN Append(l[i - 1], y[i]) ELSE l[i - 1])
      BY <1>2, <1>3 DEF KeepSteps
    <3>2. y[i] = x[i] /\ l[i - 1] = k[i - 1]
      BY <1>6, <2>2
    <3>3. l[i] = k[i]
      BY <2>1, <3>1, <3>2
    <3>4. i = n => l[i + 1] = l[i]
      BY <1>2, <1>3 DEF KeepSteps
    <3>5. QED
      BY <2>2, <3>3, <3>4
  <2>3. CASE i > n
    <3>1. i + 1 \in 1..Len(y)
      BY <1>3
    <3>2. l[i + 1] = (IF y[i + 1] \in characters THEN Append(l[i], y[i + 1]) ELSE l[i])
      BY <1>2, <3>1 DEF KeepSteps
    <3>3. y[i + 1] = x[i] /\ l[i] = k[i - 1]
      BY <1>6, <2>3
    <3>4. QED
      BY <2>1, <2>3, <3>2, <3>3
  <2>4. QED
    BY <2>2, <2>3
<1>7. Len(x) \in S
  <2> HIDE DEF S
  <2>1. 0..Len(x) \subseteq S
    BY <1>3, <1>5, <1>6, Reaches
  <2>2. QED
    BY <1>3, <2>1
<1>8. QED
  BY <1>1, <1>2, <1>3, <1>7

\* Where everything is kept, nothing changes.
LEMMA KeptWhole ==
  ASSUME NEW x \in Texts, NEW characters, \A i \in 1..Len(x) : x[i] \in characters
  PROVE  Entry!Kept(x, characters) = x
<1>1. PICK k : KeepSteps(k, x, characters) /\ Entry!Kept(x, characters) = k[Len(x)]
  BY KeptRun, Zenon
<1> DEFINE S == {i \in 0..Len(x) : k[i] = SubSeq(x, 1, i)}
<1>2. Len(x) \in Nat
  BY DEF Texts
<1>3. 0 \in S
  BY <1>1, <1>2 DEF Texts, KeepSteps
<1>4. ASSUME NEW i \in 1..Len(x), i - 1 \in S PROVE i \in S
  <2>1. k[i] = Append(SubSeq(x, 1, i - 1), x[i])
    BY <1>1, <1>4 DEF KeepSteps
  <2>2. Append(SubSeq(x, 1, i - 1), x[i]) = SubSeq(x, 1, i)
    BY DEF Texts
  <2>3. QED
    BY <2>1, <2>2
<1>5. Len(x) \in S
  <2> HIDE DEF S
  <2>1. 0..Len(x) \subseteq S
    BY <1>2, <1>3, <1>4, Reaches
  <2>2. QED
    BY <1>2, <2>1
<1>6. SubSeq(x, 1, Len(x)) = x
  BY DEF Texts
<1>7. QED
  BY <1>1, <1>5, <1>6

\* Blanks go from both ends and from nowhere else.
LEMMA Stripped ==
  ASSUME NEW x \in Texts, \A i \in 1..Len(x) : x[i] # Entry!Space, x # <<>>
  PROVE  /\ Entry!Strip(x) = x
         /\ Entry!Strip(<<Entry!Space>> \o x \o <<Entry!Space>>) = x
<1> DEFINE At(z) == {i \in DOMAIN z : z[i] # Entry!Space}
           First(z) == CHOOSE i \in At(z) : \A j \in At(z) : i <= j
           Last(z) == CHOOSE i \in At(z) : \A j \in At(z) : j <= i
           y == <<Entry!Space>> \o x \o <<Entry!Space>>
<1>1. Len(x) \in Nat /\ Len(x) > 0 /\ x \in Seq(0..40)
  BY DEF Texts
<1>2. Entry!Space \in 0..40
  BY DEF Entry!Space
<1>3. Entry!Strip(x) = x
  <2>1. At(x) = 1..Len(x)
    BY <1>1
  <2>2. First(x) = 1 /\ Last(x) = Len(x)
    BY <1>1, <2>1
  <2>3. Entry!Strip(x) = SubSeq(x, First(x), Last(x))
    <3>1. At(x) # {}
      BY <1>1, <2>1
    <3> HIDE DEF At
    <3>2. QED
      BY <3>1 DEF Entry!Strip, At
  <2>4. QED
    BY <1>1, <2>2, <2>3
<1>4. Entry!Strip(y) = x
  <2>1. /\ y \in Seq(0..40) /\ Len(y) = Len(x) + 2
        /\ y[1] = Entry!Space /\ y[Len(x) + 2] = Entry!Space
        /\ \A i \in 1..Len(x) : y[i + 1] = x[i]
    BY <1>1, <1>2
  <2> HIDE DEF y
  <2>2. At(y) = 2..(Len(x) + 1)
    <3>1. ASSUME NEW i \in 2..(Len(x) + 1) PROVE y[i] # Entry!Space
      <4>1. i - 1 \in 1..Len(x) /\ i - 1 + 1 = i
        BY <1>1
      <4>2. QED
        BY <2>1, <4>1
    <3>2. DOMAIN y = 1..(Len(x) + 2)
      BY <1>1, <2>1
    <3>3. QED
      BY <1>1, <2>1, <3>1, <3>2
  <2>3. First(y) = 2 /\ Last(y) = Len(x) + 1
    BY <1>1, <2>2
  <2>4. Entry!Strip(y) = SubSeq(y, First(y), Last(y))
    <3> HIDE DEF At
    <3>1. 2 \in At(y)
      BY <1>1, <2>2
    <3>2. QED
      BY <3>1, Zenon DEF Entry!Strip, At
  <2>5. SubSeq(y, 2, Len(x) + 1) = x
    BY <1>1, <2>1
  <2>6. QED
    BY <2>3, <2>4, <2>5
<1>5. QED
  BY <1>3, <1>4

\* A country prefix goes, and digits are not taken for one.
LEMMA PrefixGone ==
  ASSUME NEW x \in Texts, NEW a \in 10..35, NEW b \in 10..35, Entry!AllDigits(x)
  PROVE  /\ Entry!Unprefixed(x, <<a, b>>) = x
         /\ Entry!Unprefixed(<<a, b>> \o x, <<a, b>>) = x
<1>1. x \in Seq(0..40) /\ Len(x) \in Nat
  BY DEF Texts
<1>2. Entry!Unprefixed(x, <<a, b>>) = x
  <2>1. Len(x) >= 2 => SubSeq(x, 1, 2)[1] \in 0..9
    BY <1>1 DEF Entry!AllDigits, Entry!IsDigit
  <2>2. Len(x) >= 2 => SubSeq(x, 1, 2) # <<a, b>>
    <3>1. <<a, b>>[1] = a /\ a \notin 0..9
      OBVIOUS
    <3>2. QED
      BY <2>1, <3>1, Zenon
  <2>3. QED
    BY <2>2, Zenon DEF Entry!Unprefixed
<1>3. Entry!Unprefixed(<<a, b>> \o x, <<a, b>>) = x
  <2> DEFINE y == <<a, b>> \o x
  <2>1. /\ y \in Seq(0..40) /\ Len(y) = Len(x) + 2 /\ y[1] = a /\ y[2] = b
        /\ \A i \in 1..Len(x) : y[i + 2] = x[i]
    BY <1>1
  <2> HIDE DEF y
  <2>2. SubSeq(y, 1, 2) = <<a, b>>
    <3>1. /\ SubSeq(y, 1, 2) \in Seq(0..40) /\ Len(SubSeq(y, 1, 2)) = 2
          /\ SubSeq(y, 1, 2)[1] = a /\ SubSeq(y, 1, 2)[2] = b
      BY <1>1, <2>1
    <3>2. /\ <<a, b>> \in Seq(0..40) /\ Len(<<a, b>>) = 2
          /\ <<a, b>>[1] = a /\ <<a, b>>[2] = b
      OBVIOUS
    <3>3. \A i \in 1..2 : SubSeq(y, 1, 2)[i] = <<a, b>>[i]
      BY <3>1, <3>2
    <3>4. QED
      BY <3>1, <3>2, <3>3, SameText
  <2>3. SubSeq(y, 3, Len(y)) = x
    BY <1>1, <2>1
  <2>4. QED
    <3>1. Len(y) >= 2
      BY <1>1, <2>1
    <3>2. Entry!Unprefixed(y, <<a, b>>) = x
      BY <2>2, <2>3, <3>1, Zenon DEF Entry!Unprefixed
    <3>3. QED
      BY <3>2 DEF y
<1>4. QED
  BY <1>2, <1>3

-----------------------------------------------------------------------------
(* Remainders of texts *)

LEMMA ModuloSteps ==
  ASSUME NEW m \in Moduli, NEW x \in Texts, \A i \in 1..Len(x) : x[i] # Entry!Dash
  PROVE  \E s : Steps(s, x, m) /\ Entry!Modulo(x, m) = s[Len(x)]
<1>1. Len(x) \in Nat /\ \A i \in 1..Len(x) : x[i] \in Int
  BY TextType
<1>2. PICK s \in [0..Len(x) -> 0..(m - 1)] :
        s[0] = 0 /\ (\A i \in 1..Len(x) : s[i] = Joined(s[i - 1], x[i], m))
        /\ Entry!Modulo(x, m) = s[Len(x)]
  BY <1>1, ModuloRun
<1>3. Steps(s, x, m)
  BY <1>2 DEF Steps
<1>4. QED
  BY <1>2, <1>3

LEMMA ModuloAppend ==
  ASSUME NEW m \in Moduli, NEW z \in Texts, NEW c \in 0..40
  PROVE  /\ Entry!Modulo(z, m) \in 0..(m - 1)
         /\ Entry!Modulo(Append(z, c), m) = Joined(Entry!Modulo(z, m), c, m)
<1> DEFINE x == Append(z, c)
<1>1. Len(z) \in Nat /\ \A i \in 1..Len(z) : z[i] \in Int
  BY TextType
<1>2. Len(x) = Len(z) + 1 /\ x[Len(x)] = c /\ \A i \in 1..Len(z) : x[i] = z[i]
  <2>1. z \in Seq(0..40)
    BY TextType
  <2>2. QED
    BY <2>1
<1> HIDE DEF x
<1>3. Len(x) \in Nat /\ \A i \in 1..Len(x) : x[i] \in Int
  BY <1>1, <1>2
<1>4. PICK s \in [0..Len(z) -> 0..(m - 1)] :
        s[0] = 0 /\ (\A i \in 1..Len(z) : s[i] = Joined(s[i - 1], z[i], m))
        /\ Entry!Modulo(z, m) = s[Len(z)]
  BY <1>1, ModuloRun
<1>5. PICK t \in [0..Len(x) -> 0..(m - 1)] :
        t[0] = 0 /\ (\A i \in 1..Len(x) : t[i] = Joined(t[i - 1], x[i], m))
        /\ Entry!Modulo(x, m) = t[Len(x)]
  BY <1>3, ModuloRun
<1> DEFINE S == {i \in 0..Len(z) : s[i] = t[i]}
<1>6. 0 \in S
  BY <1>1, <1>4, <1>5
<1>7. ASSUME NEW i \in 1..Len(z), i - 1 \in S PROVE i \in S
  <2>1. i \in 1..Len(x) /\ x[i] = z[i] /\ s[i - 1] = t[i - 1]
    BY <1>1, <1>2, <1>7
  <2>2. s[i] = Joined(s[i - 1], z[i], m) /\ t[i] = Joined(t[i - 1], x[i], m)
    BY <1>4, <1>5, <2>1
  <2>3. QED
    BY <2>1, <2>2
<1>8. s[Len(z)] = t[Len(z)]
  <2> HIDE DEF S
  <2>1. 0..Len(z) \subseteq S
    BY <1>1, <1>6, <1>7, Reaches
  <2>2. QED
    BY <1>1, <2>1 DEF S
<1>9. t[Len(x)] = Joined(t[Len(x) - 1], c, m) /\ Len(x) - 1 = Len(z)
  BY <1>1, <1>2, <1>5
<1>10. s[Len(z)] \in 0..(m - 1)
  BY <1>1, <1>4
<1>11. QED
  BY <1>4, <1>5, <1>8, <1>9, <1>10 DEF x

LEMMA ModuloType ==
  ASSUME NEW m \in Moduli, NEW z \in Texts
  PROVE  Entry!Modulo(z, m) \in 0..(m - 1)
<1>1. 0 \in 0..40
  OBVIOUS
<1>2. QED
  BY <1>1, ModuloAppend

\* The remainder of a number with dashes is that of the number without them.
LEMMA DashedSteps ==
  ASSUME NEW m \in Moduli, NEW x \in Texts
  PROVE  \E s : /\ Steps(s, x, m)
                /\ Entry!Modulo(Entry!Without(x, {Entry!Dash}), m) = s[Len(x)]
<1> DEFINE kept == Entry!Characters \ {Entry!Dash}
<1>1. PICK k : KeepSteps(k, x, kept) /\ Entry!Kept(x, kept) = k[Len(x)]
  BY KeptRun
<1> DEFINE s == [i \in 0..Len(x) |-> Entry!Modulo(k[i], m)]
<1>2. Len(x) \in Nat /\ \A i \in 1..Len(x) : x[i] \in 0..40
  BY TextType
<1>3. s \in [0..Len(x) -> 0..(m - 1)]
  <2>1. ASSUME NEW i \in 0..Len(x) PROVE Entry!Modulo(k[i], m) \in 0..(m - 1)
    <3>1. k[i] \in Texts /\ 0 \in 0..40
      BY <1>1 DEF KeepSteps
    <3>2. QED
      BY <3>1, ModuloAppend
  <2>2. QED
    BY <2>1
<1>4. s[0] = 0
  <2>1. Len(<<>>) = 0
    OBVIOUS
  <2>2. \E r \in [0..0 -> 0..(m - 1)] : r[0] = 0 /\ Entry!Modulo(<<>>, m) = r[0]
    BY <2>1, ModuloRun
  <2>3. QED
    BY <1>1, <1>2, <2>2 DEF KeepSteps
<1>5. ASSUME NEW i \in 1..Len(x)
      PROVE  s[i] = IF x[i] = Entry!Dash THEN s[i - 1] ELSE Joined(s[i - 1], x[i], m)
  <2>1. k[i - 1] \in Texts /\ i - 1 \in 0..Len(x) /\ i \in 0..Len(x)
    BY <1>1, <1>2 DEF KeepSteps
  <2>2. s[i] = Entry!Modulo(k[i], m) /\ s[i - 1] = Entry!Modulo(k[i - 1], m)
    BY <2>1
  <2>3. x[i] \in kept <=> x[i] # Entry!Dash
    BY <1>2 DEF Entry!Characters
  <2>4. k[i] = IF x[i] = Entry!Dash THEN k[i - 1] ELSE Append(k[i - 1], x[i])
    BY <1>1, <2>3 DEF KeepSteps
  <2> HIDE DEF s, kept
  <2>5. CASE x[i] = Entry!Dash
    BY <2>2, <2>4, <2>5
  <2>6. CASE x[i] # Entry!Dash
    <3>1. x[i] \in 0..40
      BY <1>2
    <3>2. Entry!Modulo(Append(k[i - 1], x[i]), m) = Joined(Entry!Modulo(k[i - 1], m), x[i], m)
      BY <2>1, <3>1, ModuloAppend
    <3>3. QED
      BY <2>2, <2>4, <2>6, <3>2
  <2>7. QED
    BY <2>5, <2>6
<1>6. Steps(s, x, m)
  <2> HIDE DEF s
  <2>1. QED
    BY <1>3, <1>4, <1>5 DEF Steps
<1>7. Entry!Modulo(Entry!Without(x, {Entry!Dash}), m) = s[Len(x)]
  BY <1>1, <1>2 DEF Entry!Without
<1>8. QED
  BY <1>6, <1>7

-----------------------------------------------------------------------------
(* Texts with a slip *)

\* y is x with one digit wrong, ...
OneDigit(x, y, j) ==
  /\ y \in Texts /\ Len(y) = Len(x) /\ j \in 1..Len(x)
  /\ x[j] \in 0..9 /\ y[j] \in 0..9 /\ y[j] # x[j]
  /\ \A i \in 1..Len(x) : i # j => y[i] = x[i]

\* ... or two digits in the wrong order.
Exchanged(x, y, j) ==
  /\ y \in Texts /\ Len(y) = Len(x) /\ j \in 1..Len(x) /\ j + 1 \in 1..Len(x)
  /\ x[j] \in 0..9 /\ x[j + 1] \in 0..9 /\ x[j] # x[j + 1]
  /\ y[j] = x[j + 1] /\ y[j + 1] = x[j]
  /\ \A i \in 1..Len(x) : i \notin {j, j + 1} => y[i] = x[i]

Plain(x) == \A i \in 1..Len(x) : x[i] \in 0..35

LEMMA SlipsBare ==
  ASSUME NEW x \in Texts, Plain(x), NEW y, NEW j, OneDigit(x, y, j) \/ Exchanged(x, y, j)
  PROVE  y \in Texts /\ Len(y) = Len(x) /\ Plain(y)
<1>1. y \in Texts /\ Len(y) = Len(x)
  BY DEF OneDigit, Exchanged
<1>2. ASSUME NEW i \in 1..Len(x) PROVE y[i] \in 0..35
  <2>1. \A d \in 0..9 : d \in 0..35
    OBVIOUS
  <2>2. x[i] \in 0..35
    BY DEF Plain
  <2>3. y[i] \in 0..9 \/ y[i] = x[i]
    BY DEF OneDigit, Exchanged
  <2>4. QED
    BY <2>1, <2>2, <2>3
<1>3. QED
  BY <1>1, <1>2 DEF Plain

LEMMA BareSteps ==
  ASSUME NEW m \in Moduli, NEW x \in Texts, Plain(x)
  PROVE  \E s : Steps(s, x, m) /\ Entry!Modulo(x, m) = s[Len(x)]
<1>1. ASSUME NEW i \in 1..Len(x) PROVE x[i] # Entry!Dash
  <2>1. \A c \in 0..35 : c # Entry!Dash
    BY DEF Entry!Dash
  <2>2. QED
    BY <2>1 DEF Plain
<1>2. QED
  BY <1>1, ModuloSteps

LEMMA ModuloOneDigit ==
  ASSUME NEW m \in Moduli, NEW x \in Texts, Plain(x), NEW y, NEW j, OneDigit(x, y, j)
  PROVE  Entry!Modulo(x, m) # Entry!Modulo(y, m)
<1>1. y \in Texts /\ Len(y) = Len(x) /\ Plain(y)
  BY SlipsBare
<1>2. PICK s : Steps(s, x, m) /\ Entry!Modulo(x, m) = s[Len(x)]
  BY BareSteps
<1>3. PICK t : Steps(t, y, m) /\ Entry!Modulo(y, m) = t[Len(y)]
  BY <1>1, BareSteps
<1>4. Len(x) \in Nat
  BY TextType
<1>5. DigitOff(x, y, j)
  <2>1. /\ j \in 1..Len(x) /\ x[j] \in 0..9 /\ y[j] \in 0..9 /\ x[j] # y[j]
        /\ \A i \in 1..Len(x) : x[i] \in (0..35) \cup {Entry!Dash} /\ (i # j => x[i] = y[i])
    BY DEF OneDigit, Plain
  <2>2. QED
    BY <1>1, <1>4, <2>1 DEF DigitOff
<1>6. s[Len(x)] # t[Len(x)]
  BY <1>2, <1>3, <1>5, WrongDigitApart
<1>7. QED
  BY <1>1, <1>2, <1>3, <1>6

LEMMA ModuloExchanged ==
  ASSUME NEW m \in Moduli, NEW x \in Texts, Plain(x), NEW y, NEW j, Exchanged(x, y, j)
  PROVE  Entry!Modulo(x, m) # Entry!Modulo(y, m)
<1>1. y \in Texts /\ Len(y) = Len(x) /\ Plain(y)
  BY SlipsBare
<1>2. PICK s : Steps(s, x, m) /\ Entry!Modulo(x, m) = s[Len(x)]
  BY BareSteps
<1>3. PICK t : Steps(t, y, m) /\ Entry!Modulo(y, m) = t[Len(y)]
  BY <1>1, BareSteps
<1>4. Len(x) \in Nat
  BY TextType
<1>5. OrderOff(x, y, j)
  <2>1. /\ j \in 1..Len(x) /\ j + 1 \in 1..Len(x)
        /\ x[j] \in 0..9 /\ x[j + 1] \in 0..9 /\ x[j] # x[j + 1]
        /\ y[j] = x[j + 1] /\ y[j + 1] = x[j]
        /\ \A i \in 1..Len(x) :
             x[i] \in (0..35) \cup {Entry!Dash} /\ (i \notin {j, j + 1} => x[i] = y[i])
    BY DEF Exchanged, Plain
  <2>2. QED
    BY <1>1, <1>4, <2>1 DEF OrderOff
<1>6. s[Len(x)] # t[Len(x)]
  BY <1>2, <1>3, <1>5, WrongOrderApart
<1>7. QED
  BY <1>1, <1>2, <1>3, <1>6

\* The segments of such texts.
LEMMA Segment ==
  ASSUME NEW x \in Texts, NEW a \in 1..Len(x), NEW b \in a..Len(x)
  PROVE  /\ SubSeq(x, a, b) \in Texts /\ Len(SubSeq(x, a, b)) = b - a + 1
         /\ \A i \in 1..(b - a + 1) : SubSeq(x, a, b)[i] = x[i + a - 1]
<1>1. ASSUME NEW T, x \in Seq(T)
      PROVE  /\ SubSeq(x, a, b) \in Seq(T) /\ Len(SubSeq(x, a, b)) = b - a + 1
             /\ \A i \in 1..(b - a + 1) : SubSeq(x, a, b)[i] = x[i + a - 1]
  BY <1>1
<1>2. QED
  BY <1>1 DEF Texts

LEMMA SegmentSame ==
  ASSUME NEW x \in Texts, NEW y \in Texts, Len(y) = Len(x), NEW a \in 1..Len(x),
         NEW b \in a..Len(x), \A i \in a..b : y[i] = x[i]
  PROVE  SubSeq(y, a, b) = SubSeq(x, a, b)
<1> DEFINE n == b - a + 1
<1>1. /\ SubSeq(x, a, b) \in Texts /\ Len(SubSeq(x, a, b)) = n
      /\ \A i \in 1..n : SubSeq(x, a, b)[i] = x[i + a - 1]
  BY Segment
<1>2. /\ SubSeq(y, a, b) \in Texts /\ Len(SubSeq(y, a, b)) = n
      /\ \A i \in 1..n : SubSeq(y, a, b)[i] = y[i + a - 1]
  BY Segment
<1>3. \A i \in 1..n : i + a - 1 \in a..b
  BY TextType
<1> HIDE DEF n
<1>4. \A i \in 1..n : SubSeq(y, a, b)[i] = SubSeq(x, a, b)[i]
  BY <1>1, <1>2, <1>3
<1>5. QED
  BY <1>1, <1>2, <1>4, SameText DEF Texts

LEMMA SegmentOneDigit ==
  ASSUME NEW x \in Texts, NEW y, NEW j, OneDigit(x, y, j), NEW a \in 1..Len(x),
         NEW b \in a..Len(x), j \in a..b
  PROVE  OneDigit(SubSeq(x, a, b), SubSeq(y, a, b), j - a + 1)
<1> DEFINE n == b - a + 1
<1>1. /\ SubSeq(x, a, b) \in Texts /\ Len(SubSeq(x, a, b)) = n
      /\ \A i \in 1..n : SubSeq(x, a, b)[i] = x[i + a - 1]
  BY Segment
<1>2. /\ SubSeq(y, a, b) \in Texts /\ Len(SubSeq(y, a, b)) = n
      /\ \A i \in 1..n : SubSeq(y, a, b)[i] = y[i + a - 1]
  BY Segment DEF OneDigit
<1>3. /\ Len(x) \in Nat /\ j - a + 1 \in 1..n /\ j - a + 1 + a - 1 = j
      /\ \A i \in 1..n : i + a - 1 \in 1..Len(x) /\ (i # j - a + 1 => i + a - 1 # j)
  BY TextType
<1> HIDE DEF n
<1>4. /\ SubSeq(x, a, b)[j - a + 1] = x[j] /\ SubSeq(y, a, b)[j - a + 1] = y[j]
      /\ \A i \in 1..n : i # j - a + 1 => SubSeq(y, a, b)[i] = SubSeq(x, a, b)[i]
  BY <1>1, <1>2, <1>3 DEF OneDigit
<1>5. QED
  BY <1>1, <1>2, <1>3, <1>4 DEF OneDigit

LEMMA SegmentExchanged ==
  ASSUME NEW x \in Texts, NEW y, NEW j, Exchanged(x, y, j), NEW a \in 1..Len(x),
         NEW b \in a..Len(x), j \in a..b, j + 1 \in a..b
  PROVE  Exchanged(SubSeq(x, a, b), SubSeq(y, a, b), j - a + 1)
<1> DEFINE n == b - a + 1
           p == j - a + 1
<1>1. /\ SubSeq(x, a, b) \in Texts /\ Len(SubSeq(x, a, b)) = n
      /\ \A i \in 1..n : SubSeq(x, a, b)[i] = x[i + a - 1]
  BY Segment
<1>2. /\ SubSeq(y, a, b) \in Texts /\ Len(SubSeq(y, a, b)) = n
      /\ \A i \in 1..n : SubSeq(y, a, b)[i] = y[i + a - 1]
  BY Segment DEF Exchanged
<1>3. /\ Len(x) \in Nat /\ p \in 1..n /\ p + a - 1 = j /\ p + 1 \in 1..n /\ p + 1 + a - 1 = j + 1
      /\ \A i \in 1..n : i + a - 1 \in 1..Len(x)
      /\ \A i \in 1..n : i \notin {p, p + 1} => i + a - 1 \notin {j, j + 1}
  BY TextType
<1> HIDE DEF n, p
<1>4. /\ SubSeq(x, a, b)[p] = x[j] /\ SubSeq(y, a, b)[p] = y[j]
      /\ SubSeq(x, a, b)[p + 1] = x[j + 1] /\ SubSeq(y, a, b)[p + 1] = y[j + 1]
  BY <1>1, <1>2, <1>3
<1>5. ASSUME NEW i \in 1..n, i \notin {p, p + 1}
      PROVE  SubSeq(y, a, b)[i] = SubSeq(x, a, b)[i]
  <2>1. SubSeq(y, a, b)[i] = y[i + a - 1] /\ SubSeq(x, a, b)[i] = x[i + a - 1]
    BY <1>1, <1>2, Zenon
  <2>2. i + a - 1 \in 1..Len(x) /\ i + a - 1 \notin {j, j + 1}
    BY <1>3, <1>5, Zenon
  <2>3. y[i + a - 1] = x[i + a - 1]
    BY <2>2, Zenon DEF Exchanged
  <2>4. QED
    BY <2>1, <2>3
<1>6. Exchanged(SubSeq(x, a, b), SubSeq(y, a, b), p)
  BY <1>1, <1>2, <1>3, <1>4, <1>5 DEF Exchanged
<1>7. QED
  BY <1>6 DEF p

LEMMA SegmentBare ==
  ASSUME NEW x \in Texts, Plain(x), NEW a \in 1..Len(x), NEW b \in a..Len(x)
  PROVE  SubSeq(x, a, b) \in Texts /\ Plain(SubSeq(x, a, b))
<1> DEFINE n == b - a + 1
<1>1. /\ SubSeq(x, a, b) \in Texts /\ Len(SubSeq(x, a, b)) = n
      /\ \A i \in 1..n : SubSeq(x, a, b)[i] = x[i + a - 1]
  BY Segment
<1>2. \A i \in 1..n : i + a - 1 \in 1..Len(x)
  BY TextType
<1> HIDE DEF n
<1>3. ASSUME NEW i \in 1..n PROVE SubSeq(x, a, b)[i] \in 0..35
  BY <1>1, <1>2 DEF Plain
<1>4. QED
  BY <1>1, <1>3 DEF Plain

LEMMA TwoDigits ==
  ASSUME NEW x \in Texts, NEW a \in 1..Len(x), a + 1 \in 1..Len(x)
  PROVE  Entry!Value(SubSeq(x, a, a + 1)) = 10 * x[a] + x[a + 1]
<1> DEFINE z == SubSeq(x, a, a + 1)
<1>1. z \in Texts /\ Len(z) = 2 /\ z[1] = x[a] /\ z[2] = x[a + 1]
  <2>1. /\ SubSeq(x, a, a + 1) \in Texts /\ Len(SubSeq(x, a, a + 1)) = a + 1 - a + 1
        /\ \A i \in 1..(a + 1 - a + 1) : SubSeq(x, a, a + 1)[i] = x[i + a - 1]
    <3>1. a + 1 \in a..Len(x)
      BY TextType
    <3>2. QED
      BY <3>1, Segment
  <2>2. Len(x) \in Nat
    BY TextType
  <2>3. QED
    BY <2>1, <2>2
<1> HIDE DEF z
<1>2. Len(z) \in Nat /\ \A i \in 1..Len(z) : z[i] \in Int
  BY <1>1, TextType
<1>3. PICK s \in [0..Len(z) -> Int] :
        s[0] = 0 /\ (\A i \in 1..Len(z) : s[i] = s[i - 1] * 10 + z[i])
        /\ Entry!Value(z) = s[Len(z)]
  BY <1>2, ValueRun
<1>4. 1 \in 1..Len(z) /\ 2 \in 1..Len(z)
  BY <1>1
<1>5. z[1] \in Int /\ z[2] \in Int
  BY <1>2, <1>4
<1>6. s[1] = s[0] * 10 + z[1] /\ s[2] = s[1] * 10 + z[2]
  <2>1. s[1] = s[1 - 1] * 10 + z[1] /\ s[2] = s[2 - 1] * 10 + z[2]
    BY <1>3, <1>4, Zenon
  <2>2. 1 - 1 = 0 /\ 2 - 1 = 1
    OBVIOUS
  <2>3. QED
    BY <2>1, <2>2
<1>7. Entry!Value(z) = 10 * z[1] + z[2]
  BY <1>1, <1>3, <1>5, <1>6
<1>8. QED
  BY <1>1, <1>7 DEF z

-----------------------------------------------------------------------------
(* A wrong digit in a sum *)

Factors == 1..10
Differences == (-9..9) \ {0}

FactorList(weights, n) ==
  n \in Nat /\ n = Len(weights) /\ \A i \in 1..n : weights[i] \in Factors
Numbers(x, n) == \A i \in 1..n : x[i] \in Int

\* A small difference is no multiple of the modulus.
LEMMA RemaindersApart ==
  ASSUME NEW s \in Int, NEW t \in Int
  PROVE  /\ t - s \in Differences => s % 10 # t % 10
         /\ t - s # 0 /\ -25 <= t - s /\ t - s <= 25 => s % 26 # t % 26
         /\ \A w \in Factors, d \in Differences : t - s = w * d => s % 11 # t % 11
<1>1. t - s \in Differences => s % 10 # t % 10
  BY DEF Differences
<1>2. t - s # 0 /\ -25 <= t - s /\ t - s <= 25 => s % 26 # t % 26
  OBVIOUS
<1>3. ASSUME NEW w \in Factors, NEW d \in Differences, t - s = w * d
      PROVE  s % 11 # t % 11
  <2>1. w \in {1, 2, 3, 4, 5, 6, 7, 8, 9, 10}
    BY DEF Factors
  <2>2. d \in Int /\ d # 0 /\ -9 <= d /\ d <= 9
    BY DEF Differences
  <2>3. (w * d) % 11 # 0
    BY <2>1, <2>2
  <2>4. w * d \in Int
    BY <2>1, <2>2
  <2> DEFINE p == w * d
  <2> HIDE DEF p
  <2>5. p \in Int /\ p % 11 # 0 /\ t - s = p
    BY <1>3, <2>3, <2>4 DEF p
  <2>6. QED
    BY <2>5
<1>4. QED
  BY <1>1, <1>2, <1>3

LEMMA WeightedApart ==
  ASSUME NEW weights, NEW n, FactorList(weights, n),
         NEW x, NEW y, NEW j, AlikeBut(x, y, n, j), y[j] - x[j] \in Differences
  PROVE  /\ Entry!Weighted(x, weights) \in Int /\ Entry!Weighted(y, weights) \in Int
         /\ Entry!Weighted(x, weights) % 11 # Entry!Weighted(y, weights) % 11
<1> DEFINE f == [i \in 1..n |-> x[i] * weights[i]]
           g == [i \in 1..n |-> y[i] * weights[i]]
<1>1. \A w \in Factors : w \in Int
  BY DEF Factors
<1>2. /\ n \in Nat /\ j \in 1..n /\ x[j] \in Int /\ y[j] \in Int
      /\ \A i \in 1..n :
           x[i] \in Int /\ y[i] \in Int /\ (i # j => y[i] = x[i]) /\ weights[i] \in Factors
  BY DEF AlikeBut, FactorList
<1>3. \A i \in 1..n : f[i] = x[i] * weights[i] /\ g[i] = y[i] * weights[i]
  OBVIOUS
<1>4. /\ Entry!Weighted(x, weights) = Entry!Sum(f, n)
      /\ Entry!Weighted(y, weights) = Entry!Sum(g, n)
  BY DEF Entry!Weighted, FactorList
<1> HIDE DEF f, g
<1>5. AlikeBut(f, g, n, j)
  <2>1. ASSUME NEW i \in 1..n
        PROVE  f[i] \in Int /\ g[i] \in Int /\ (i # j => f[i] = g[i])
    <3>1. x[i] \in Int /\ y[i] \in Int /\ weights[i] \in Int /\ (i # j => y[i] = x[i])
      BY <1>1, <1>2
    <3>2. f[i] = x[i] * weights[i] /\ g[i] = y[i] * weights[i]
      BY <1>3
    <3>3. QED
      BY <3>1, <3>2
  <2>2. QED
    BY <1>2, <2>1 DEF AlikeBut
<1>6. g[j] - f[j] = weights[j] * (y[j] - x[j])
  <2>1. weights[j] \in Int /\ f[j] = x[j] * weights[j] /\ g[j] = y[j] * weights[j]
    BY <1>1, <1>2, <1>3
  <2>2. QED
    BY <1>2, <2>1
<1>7. /\ Entry!Sum(f, n) \in Int /\ Entry!Sum(g, n) \in Int
      /\ Entry!Sum(g, n) - Entry!Sum(f, n) = weights[j] * (y[j] - x[j])
  BY <1>5, <1>6, SumChange
<1>8. Entry!Sum(f, n) % 11 # Entry!Sum(g, n) % 11
  <2> DEFINE s == Entry!Sum(f, n)
             t == Entry!Sum(g, n)
             w == weights[j]
             d == y[j] - x[j]
  <2>1. s \in Int /\ t \in Int /\ w \in Factors /\ d \in Differences /\ t - s = w * d
    BY <1>2, <1>7
  <2> HIDE DEF s, t, w, d
  <2>2. s % 11 # t % 11
    BY <2>1, RemaindersApart
  <2>3. QED
    BY <2>2 DEF s, t
<1>9. QED
  BY <1>4, <1>7, <1>8

\* The digits of a text of digits.
LEMMA DigitsOf ==
  ASSUME NEW x \in Texts, Entry!AllDigits(x)
  PROVE  \A i \in 1..Len(x) : x[i] \in 0..9
<1>1. DOMAIN x = 1..Len(x)
  BY TextType
<1>2. QED
  BY <1>1 DEF Entry!AllDigits, Entry!IsDigit

LEMMA DigitsDiffer ==
  ASSUME NEW c \in 0..9, NEW d \in 0..9, c # d
  PROVE  /\ d - c \in Differences
         /\ Entry!Doubled(d) - Entry!Doubled(c) \in Differences
BY DEF Entry!Doubled, Differences

\* Two series of n digits, the same but for the j-th.
DigitsAlikeBut(x, y, n, j) ==
  /\ n \in Nat /\ j \in 1..n /\ y[j] # x[j]
  /\ \A i \in 1..n : x[i] \in 0..9 /\ y[i] \in 0..9 /\ (i # j => y[i] = x[i])

LEMMA OneDigitAlike ==
  ASSUME NEW x \in Texts, NEW y, NEW j, OneDigit(x, y, j), NEW n \in 1..Len(x), j <= n,
         \A i \in 1..n : x[i] \in 0..9
  PROVE  DigitsAlikeBut(x, y, n, j)
<1>1. Len(x) \in Nat /\ j \in 1..n /\ y[j] # x[j] /\ y[j] \in 0..9
  BY TextType DEF OneDigit
<1>2. \A i \in 1..n : i \in 1..Len(x)
  BY <1>1
<1>3. \A i \in 1..n : x[i] \in 0..9 /\ (i # j => y[i] = x[i])
  BY <1>2 DEF OneDigit
<1>4. QED
  BY <1>1, <1>3 DEF DigitsAlikeBut

\* A Luhn sum with doubles at some places.
LuhnTerms(x, n, doubles) ==
  [i \in 1..n |-> IF i \in doubles THEN Entry!Doubled(x[i]) ELSE x[i]]

LEMMA LuhnApart ==
  ASSUME NEW x, NEW y, NEW n, NEW j, NEW doubles, DigitsAlikeBut(x, y, n, j)
  PROVE  LET s == Entry!Sum(LuhnTerms(x, n, doubles), n)
             t == Entry!Sum(LuhnTerms(y, n, doubles), n)
         IN s \in Int /\ t \in Int /\ s % 10 # t % 10
<1> DEFINE f == LuhnTerms(x, n, doubles)
           g == LuhnTerms(y, n, doubles)
<1>1. /\ n \in Nat /\ j \in 1..n /\ y[j] # x[j]
      /\ \A i \in 1..n : x[i] \in 0..9 /\ y[i] \in 0..9 /\ (i # j => y[i] = x[i])
  BY DEF DigitsAlikeBut
<1>2. \A i \in 1..n : /\ f[i] = IF i \in doubles THEN Entry!Doubled(x[i]) ELSE x[i]
                      /\ g[i] = IF i \in doubles THEN Entry!Doubled(y[i]) ELSE y[i]
  BY DEF LuhnTerms
<1> HIDE DEF f, g
<1>3. \A d \in 0..9 : Entry!Doubled(d) \in Int /\ d \in Int
  BY DEF Entry!Doubled
<1>4. AlikeBut(f, g, n, j)
  <2>1. ASSUME NEW i \in 1..n
        PROVE  f[i] \in Int /\ g[i] \in Int /\ (i # j => f[i] = g[i])
    <3>1. x[i] \in 0..9 /\ y[i] \in 0..9 /\ (i # j => y[i] = x[i])
      BY <1>1
    <3>2. QED
      BY <1>2, <1>3, <3>1, Zenon
  <2>2. QED
    BY <1>1, <2>1, Zenon DEF AlikeBut
<1>5. g[j] - f[j] \in Differences
  <2>1. x[j] \in 0..9 /\ y[j] \in 0..9 /\ x[j] # y[j]
    BY <1>1
  <2>2. y[j] - x[j] \in Differences /\ Entry!Doubled(y[j]) - Entry!Doubled(x[j]) \in Differences
    BY <2>1, DigitsDiffer, Zenon
  <2>3. QED
    BY <1>1, <1>2, <2>2, Zenon
<1>6. /\ Entry!Sum(f, n) \in Int /\ Entry!Sum(g, n) \in Int
      /\ Entry!Sum(g, n) - Entry!Sum(f, n) = g[j] - f[j]
  BY <1>4, SumChange
<1>7. Entry!Sum(g, n) - Entry!Sum(f, n) \in Differences
  BY <1>5, <1>6, Zenon
<1>8. Entry!Sum(f, n) % 10 # Entry!Sum(g, n) % 10
  BY <1>6, <1>7, RemaindersApart, Zenon
<1>9. QED
  BY <1>6, <1>8 DEF f, g

LEMMA LuhnDigit ==
  ASSUME NEW x \in Texts, Entry!AllDigits(x), NEW y, NEW j, OneDigit(x, y, j)
  PROVE  Entry!Luhn(x) # Entry!Luhn(y)
<1> DEFINE n == Len(x)
           doubles == {i \in 1..n : (n - i) % 2 = 1}
           f == LuhnTerms(x, n, doubles)
           g == LuhnTerms(y, n, doubles)
<1>1. n \in Nat /\ Len(y) = n /\ j \in 1..n /\ n \in 1..n /\ j <= n
  BY TextType DEF OneDigit
<1>2. Entry!Luhn(x) = Entry!Sum(f, n) % 10 /\ Entry!Luhn(y) = Entry!Sum(g, n) % 10
  <2>1. /\ f = [i \in 1..n |-> IF (n - i) % 2 = 1 THEN Entry!Doubled(x[i]) ELSE x[i]]
        /\ g = [i \in 1..n |-> IF (n - i) % 2 = 1 THEN Entry!Doubled(y[i]) ELSE y[i]]
    BY DEF LuhnTerms
  <2> HIDE DEF f, g
  <2>2. QED
    BY <1>1, <2>1 DEF Entry!Luhn
<1>3. DigitsAlikeBut(x, y, n, j)
  BY <1>1, DigitsOf, OneDigitAlike
<1>4. Entry!Sum(f, n) % 10 # Entry!Sum(g, n) % 10
  <2> HIDE DEF doubles, n
  <2>1. QED
    BY <1>3, LuhnApart, Zenon
<1>5. QED
  BY <1>2, <1>4

-----------------------------------------------------------------------------
(* A wrong digit, scheme by scheme *)

\* What a slip leaves alone.
LEMMA SameBefore ==
  ASSUME NEW x \in Texts, NEW y, NEW j, OneDigit(x, y, j), NEW n \in Nat, n < j
  PROVE  \A i \in 1..n : y[i] = x[i]
<1>1. Len(x) \in Nat /\ j \in 1..Len(x)
  BY TextType DEF OneDigit
<1>2. \A i \in 1..n : i \in 1..Len(x) /\ i # j
  BY <1>1
<1>3. QED
  BY <1>2 DEF OneDigit

LEMMA PartitaIvaDigit ==
  ASSUME NEW x \in Texts, NEW y, NEW j, OneDigit(x, y, j), Entry!ItPartitaIva(x)
  PROVE  ~Entry!ItPartitaIva(y)
<1> SUFFICES ASSUME Entry!ItPartitaIva(y) PROVE FALSE
  OBVIOUS
<1> DEFINE doubles == {i \in 1..10 : i % 2 = 0}
           s == Entry!Sum(LuhnTerms(x, 10, doubles), 10)
           t == Entry!Sum(LuhnTerms(y, 10, doubles), 10)
<1>1. /\ LuhnTerms(x, 10, doubles) =
           [i \in 1..10 |-> IF i % 2 = 0 THEN Entry!Doubled(x[i]) ELSE x[i]]
      /\ LuhnTerms(y, 10, doubles) =
           [i \in 1..10 |-> IF i % 2 = 0 THEN Entry!Doubled(y[i]) ELSE y[i]]
  BY DEF LuhnTerms
<1>2. /\ Len(x) = 11 /\ Entry!AllDigits(x)
      /\ x[11] = (10 - (s % 10)) % 10 /\ y[11] = (10 - (t % 10)) % 10
  BY <1>1, Zenon DEF Entry!ItPartitaIva
<1>3. CASE j = 11
  <2>1. \A i \in 1..10 : y[i] = x[i]
    BY <1>3, SameBefore
  <2>2. LuhnTerms(x, 10, doubles) = LuhnTerms(y, 10, doubles)
    <3> HIDE DEF doubles
    <3>1. QED
      BY <2>1 DEF LuhnTerms
  <2>3. y[11] # x[11]
    BY <1>3 DEF OneDigit
  <2>4. QED
    BY <1>2, <2>2, <2>3
<1>4. CASE j # 11
  <2>1. j \in 1..10 /\ x[11] = y[11]
    BY <1>2, <1>4 DEF OneDigit
  <2>2. DigitsAlikeBut(x, y, 10, j)
    <3>1. 10 \in 1..Len(x) /\ j <= 10 /\ \A i \in 1..10 : i \in 1..Len(x)
      BY <1>2, <2>1
    <3>2. \A i \in 1..10 : x[i] \in 0..9
      BY <1>2, <3>1, DigitsOf
    <3>3. QED
      BY <3>1, <3>2, OneDigitAlike
  <2>3. s \in Int /\ t \in Int /\ s % 10 # t % 10
    <3> HIDE DEF doubles
    <3>1. QED
      BY <2>2, LuhnApart, Zenon
  <2> HIDE DEF s, t
  <2>4. QED
    BY <1>2, <2>1, <2>3
<1>5. QED
  BY <1>3, <1>4

\* One series of weighted digits that a slip does not reach.
LEMMA WeightedSame ==
  ASSUME NEW weights, NEW x, NEW y, \A i \in 1..Len(weights) : y[i] = x[i]
  PROVE  Entry!Weighted(y, weights) = Entry!Weighted(x, weights)
<1>1. [i \in 1..Len(weights) |-> x[i] * weights[i]] = [i \in 1..Len(weights) |-> y[i] * weights[i]]
  OBVIOUS
<1>2. QED
  BY <1>1 DEF Entry!Weighted

LEMMA WeightedType ==
  ASSUME NEW weights, NEW n, FactorList(weights, n), NEW x, Numbers(x, n)
  PROVE  Entry!Weighted(x, weights) \in Int
<1> DEFINE f == [i \in 1..n |-> x[i] * weights[i]]
<1>1. \A w \in Factors : w \in Int
  BY DEF Factors
<1>2. n \in Nat /\ \A i \in 1..n : x[i] \in Int /\ weights[i] \in Int
  BY <1>1 DEF FactorList, Numbers
<1>3. \A i \in 1..n : f[i] = x[i] * weights[i]
  OBVIOUS
<1>4. Entry!Weighted(x, weights) = Entry!Sum(f, n)
  BY DEF Entry!Weighted, FactorList
<1> HIDE DEF f
<1>5. \A i \in 1..n : f[i] \in Int
  BY <1>2, <1>3
<1>6. \E s \in [0..n -> Int] : Entry!Sum(f, n) = s[n]
  BY <1>2, <1>5, SumRun
<1>7. QED
  BY <1>2, <1>4, <1>6

LEMMA WeightedDigit ==
  ASSUME NEW weights, NEW n, FactorList(weights, n),
         NEW x \in Texts, NEW y, NEW j, OneDigit(x, y, j), n \in 1..Len(x), j <= n
  PROVE  /\ Entry!Weighted(x, weights) \in Int /\ Entry!Weighted(y, weights) \in Int
         /\ Entry!Weighted(x, weights) % 11 # Entry!Weighted(y, weights) % 11
<1>1. /\ Len(x) \in Nat /\ n \in Nat /\ j \in 1..n
      /\ x[j] \in 0..9 /\ y[j] \in 0..9 /\ y[j] # x[j]
  BY TextType DEF OneDigit
<1>2. \A i \in 1..n : i \in 1..Len(x)
  BY <1>1
<1>3. \A i \in 1..n : x[i] \in Int /\ y[i] \in Int /\ (i # j => x[i] = y[i])
  <2>1. y \in Texts /\ Len(y) = Len(x)
    BY DEF OneDigit
  <2>2. QED
    BY <1>2, <2>1, TextType DEF OneDigit
<1>4. AlikeBut(x, y, n, j)
  BY <1>1, <1>3 DEF AlikeBut
<1>5. y[j] - x[j] \in Differences
  BY <1>1, DigitsDiffer
<1>6. QED
  BY <1>4, <1>5, WeightedApart

LEMMA NipDigit ==
  ASSUME NEW x \in Texts, NEW y, NEW j, OneDigit(x, y, j), Entry!PlNip(x)
  PROVE  ~Entry!PlNip(y)
<1> SUFFICES ASSUME Entry!PlNip(y) PROVE FALSE
  OBVIOUS
<1> DEFINE weights == <<6, 5, 7, 2, 3, 4, 5, 6, 7>>
<1>1. FactorList(weights, 9) /\ Len(weights) = 9
  BY DEF FactorList, Factors
<1>2. /\ Len(x) = 10 /\ x[10] = Entry!Weighted(x, weights) % 11
      /\ y[10] = Entry!Weighted(y, weights) % 11
  BY DEF Entry!PlNip
<1> HIDE DEF weights
<1>3. CASE j = 10
  <2>1. \A i \in 1..9 : y[i] = x[i]
    BY <1>3, SameBefore
  <2>2. Entry!Weighted(y, weights) = Entry!Weighted(x, weights)
    BY <1>1, <2>1, WeightedSame
  <2>3. QED
    BY <1>2, <1>3, <2>2 DEF OneDigit
<1>4. CASE j # 10
  <2>1. j <= 9 /\ 9 \in 1..Len(x) /\ y[10] = x[10]
    BY <1>2, <1>4 DEF OneDigit
  <2>2. Entry!Weighted(x, weights) % 11 # Entry!Weighted(y, weights) % 11
    BY <1>1, <2>1, WeightedDigit, SMTT(30)
  <2>3. QED
    BY <1>2, <2>1, <2>2
<1>5. QED
  BY <1>3, <1>4

\* An odd place of a codice fiscale counts by the map, an even one as it is.
CfTerms(x) ==
  [i \in 1..15 |-> IF i % 2 = 1 THEN Entry!OddMap[Entry!Place(x[i]) + 1] ELSE Entry!Place(x[i])]

LEMMA CfTermsApart ==
  /\ \A c \in 0..35 : Entry!OddMap[Entry!Place(c) + 1] \in 0..25 /\ Entry!Place(c) \in 0..25
  /\ \A c, d \in 0..9 :
       c # d => /\ Entry!OddMap[Entry!Place(c) + 1] # Entry!OddMap[Entry!Place(d) + 1]
                                 /\ Entry!Place(c) # Entry!Place(d)
<1>1. \A i \in 1..26 : Entry!OddMap[i] \in 0..25
  BY DEF Entry!OddMap
<1>2. \A c, d \in 0..9 : c # d => Entry!OddMap[c + 1] # Entry!OddMap[d + 1]
  BY DEF Entry!OddMap
<1>3. \A c \in 0..35 : Entry!Place(c) \in 0..25 /\ Entry!Place(c) + 1 \in 1..26
  BY DEF Entry!Place, Entry!IsDigit
<1>4. \A c \in 0..9 : Entry!Place(c) = c
  BY DEF Entry!Place, Entry!IsDigit
<1>5. QED
  BY <1>1, <1>2, <1>3, <1>4

LEMMA CodiceFiscaleDigit ==
  ASSUME NEW x \in Texts, Plain(x), NEW y, NEW j, OneDigit(x, y, j), Entry!ItCodiceFiscale(x)
  PROVE  ~Entry!ItCodiceFiscale(y)
<1> SUFFICES ASSUME Entry!ItCodiceFiscale(y) PROVE FALSE
  OBVIOUS
<1> DEFINE f == CfTerms(x)
           g == CfTerms(y)
           s == Entry!Sum(f, 15)
           t == Entry!Sum(g, 15)
<1>1. /\ Len(x) = 16 /\ Entry!IsLetter(x[16])
      /\ x[16] = 10 + (s % 26) /\ y[16] = 10 + (t % 26)
  BY Zenon DEF Entry!ItCodiceFiscale, CfTerms
<1>2. j \in 1..15 /\ x[j] \in 0..9 /\ y[j] \in 0..9 /\ x[j] # y[j]
  BY <1>1 DEF OneDigit, Entry!IsLetter
<1>3. y[16] = x[16]
  BY <1>1, <1>2 DEF OneDigit
<1>4. \A i \in 1..15 : x[i] \in 0..35 /\ y[i] \in 0..35 /\ (i # j => y[i] = x[i])
  <2>1. Len(y) = Len(x) /\ Plain(y) /\ \A i \in 1..15 : i \in 1..Len(x)
    BY <1>1, SlipsBare
  <2>2. QED
    BY <2>1 DEF Plain, OneDigit
<1>5. \A i \in 1..15 :
        /\ f[i] = IF i % 2 = 1 THEN Entry!OddMap[Entry!Place(x[i]) + 1] ELSE Entry!Place(x[i])
        /\ g[i] = IF i % 2 = 1 THEN Entry!OddMap[Entry!Place(y[i]) + 1] ELSE Entry!Place(y[i])
  BY DEF CfTerms
<1> HIDE DEF f, g
<1>6. \A i \in 1..15 : f[i] \in 0..25 /\ g[i] \in 0..25 /\ (i # j => f[i] = g[i])
  <2> SUFFICES ASSUME NEW i \in 1..15
               PROVE  f[i] \in 0..25 /\ g[i] \in 0..25 /\ (i # j => f[i] = g[i])
    OBVIOUS
  <2>1. x[i] \in 0..35 /\ y[i] \in 0..35 /\ (i # j => y[i] = x[i])
    BY <1>4
  <2>2. \A c \in 0..35 : Entry!OddMap[Entry!Place(c) + 1] \in 0..25 /\ Entry!Place(c) \in 0..25
    BY CfTermsApart
  <2>3. /\ f[i] = IF i % 2 = 1 THEN Entry!OddMap[Entry!Place(x[i]) + 1] ELSE Entry!Place(x[i])
        /\ g[i] = IF i % 2 = 1 THEN Entry!OddMap[Entry!Place(y[i]) + 1] ELSE Entry!Place(y[i])
    BY <1>5, Zenon
  <2>4. QED
    BY <2>1, <2>2, <2>3, Zenon
<1>7. f[j] # g[j]
  <2>1. /\ f[j] = IF j % 2 = 1 THEN Entry!OddMap[Entry!Place(x[j]) + 1] ELSE Entry!Place(x[j])
        /\ g[j] = IF j % 2 = 1 THEN Entry!OddMap[Entry!Place(y[j]) + 1] ELSE Entry!Place(y[j])
    BY <1>2, <1>5, Zenon
  <2>2. /\ Entry!OddMap[Entry!Place(x[j]) + 1] # Entry!OddMap[Entry!Place(y[j]) + 1]
        /\ Entry!Place(x[j]) # Entry!Place(y[j])
    BY <1>2, CfTermsApart, Zenon
  <2>3. QED
    BY <2>1, <2>2, Zenon
<1>8. s \in Int /\ t \in Int /\ t - s = g[j] - f[j]
  <2>1. AlikeBut(f, g, 15, j)
    BY <1>2, <1>6 DEF AlikeBut
  <2>2. QED
    BY <2>1, SumChange
<1>9. f[j] \in 0..25 /\ g[j] \in 0..25
  BY <1>2, <1>6
<1> HIDE DEF s, t
<1>10. s % 26 # t % 26
  <2>1. t - s # 0 /\ -25 <= t - s /\ t - s <= 25
    BY <1>7, <1>8, <1>9
  <2>2. QED
    BY <1>8, <2>1, RemaindersApart
<1>11. QED
  BY <1>1, <1>3, <1>8, <1>10

-----------------------------------------------------------------------------
(* Numbers with a key of two digits *)

\* The key x[c], x[c + 1] of the number x[a..b].
Remainder(x, a, b) == Entry!Modulo(SubSeq(x, a, b), 97)
Key(x, c) == Entry!Value(SubSeq(x, c, c + 1))

Keyed(x, a, b, c) ==
  /\ x \in Texts /\ Plain(x) /\ a \in 1..Len(x) /\ b \in a..Len(x)
  /\ c \in 1..Len(x) /\ c + 1 \in 1..Len(x) /\ c \notin a..b /\ c + 1 \notin a..b
  /\ \A i \in 1..Len(x) : i \in a..b \/ i \in {c, c + 1}
  /\ x[c] \in 0..9 /\ x[c + 1] \in 0..9

LEMMA KeyIsValue ==
  ASSUME NEW x, NEW a, NEW b, NEW c, Keyed(x, a, b, c)
  PROVE  Key(x, c) = 10 * x[c] + x[c + 1]
BY TwoDigits DEF Keyed, Key

LEMMA RemainderType ==
  ASSUME NEW x \in Texts, NEW a \in 1..Len(x), NEW b \in a..Len(x)
  PROVE  Remainder(x, a, b) \in 0..96
<1> DEFINE m == 97
           z == SubSeq(x, a, b)
<1>1. z \in Texts /\ m \in Moduli /\ m - 1 = 96
  BY Segment DEF Moduli
<1>2. Entry!Modulo(z, m) \in 0..(m - 1)
  <2> HIDE DEF m, z
  <2>1. QED
    BY <1>1, ModuloType, Zenon
<1>3. QED
  BY <1>1, <1>2 DEF Remainder

LEMMA KeyDigit ==
  ASSUME NEW x, NEW a, NEW b, NEW c, Keyed(x, a, b, c), NEW y, NEW j, OneDigit(x, y, j)
  PROVE  \/ Remainder(x, a, b) # Remainder(y, a, b) /\ Key(x, c) = Key(y, c)
         \/ Remainder(x, a, b) = Remainder(y, a, b) /\ Key(x, c) # Key(y, c)
<1>1. /\ x \in Texts /\ Plain(x) /\ a \in 1..Len(x) /\ b \in a..Len(x)
      /\ c \in 1..Len(x) /\ c + 1 \in 1..Len(x) /\ x[c] \in 0..9 /\ x[c + 1] \in 0..9
      /\ c \notin a..b /\ c + 1 \notin a..b
  BY DEF Keyed
<1>2. /\ y \in Texts /\ Len(y) = Len(x) /\ j \in 1..Len(x)
      /\ x[j] \in 0..9 /\ y[j] \in 0..9 /\ y[j] # x[j]
  BY DEF OneDigit
<1>3. Key(x, c) = 10 * x[c] + x[c + 1] /\ Key(y, c) = 10 * y[c] + y[c + 1]
  BY <1>1, <1>2, TwoDigits DEF Key
<1>4. CASE j \in a..b
  <2>1. Entry!Modulo(SubSeq(x, a, b), 97) # Entry!Modulo(SubSeq(y, a, b), 97)
    <3>1. OneDigit(SubSeq(x, a, b), SubSeq(y, a, b), j - a + 1)
      BY <1>1, <1>4, SegmentOneDigit
    <3>2. SubSeq(x, a, b) \in Texts /\ Plain(SubSeq(x, a, b)) /\ 97 \in Moduli
      BY <1>1, SegmentBare DEF Moduli
    <3>3. QED
      BY <3>1, <3>2, ModuloOneDigit
  <2>2. c # j /\ c + 1 # j
    BY <1>1, <1>4
  <2>3. y[c] = x[c] /\ y[c + 1] = x[c + 1]
    BY <1>1, <2>2 DEF OneDigit
  <2>4. QED
    BY <1>3, <2>1, <2>3 DEF Remainder
<1>5. CASE j \notin a..b
  <2>1. j = c \/ j = c + 1
    BY <1>2, <1>5 DEF Keyed
  <2>2. SubSeq(y, a, b) = SubSeq(x, a, b)
    <3>1. \A i \in a..b : i \in 1..Len(x) /\ i # j
      BY <1>1, <1>5, TextType
    <3>2. \A i \in a..b : y[i] = x[i]
      BY <3>1 DEF OneDigit
    <3>3. QED
      BY <1>1, <1>2, <3>2, SegmentSame
  <2> \A p, q, u \in 0..9 : p # q => 10 * p + u # 10 * q + u /\ 10 * u + p # 10 * u + q
    OBVIOUS
  <2>3. CASE j = c
    <3>1. y[c + 1] = x[c + 1]
      BY <1>1, <2>3 DEF OneDigit
    <3>2. Key(x, c) # Key(y, c)
      BY <1>1, <1>2, <1>3, <2>3, <3>1, Zenon
    <3>3. QED
      BY <2>2, <3>2 DEF Remainder
  <2>4. CASE j = c + 1
    <3>1. y[c] = x[c]
      BY <1>1, <2>4 DEF OneDigit
    <3>2. Key(x, c) # Key(y, c)
      BY <1>1, <1>2, <1>3, <2>4, <3>1, Zenon
    <3>3. QED
      BY <2>2, <3>2 DEF Remainder
  <2>5. QED
    BY <2>1, <2>3, <2>4
<1>6. QED
  BY <1>4, <1>5

\* What each of the three schemes asks of a text.
LEMMA TvaKeyed ==
  ASSUME NEW x \in Texts, Entry!FrTvaIntra(x)
  PROVE  Keyed(x, 3, 11, 1) /\ Key(x, 1) = (12 + 3 * Remainder(x, 3, 11)) % 97
<1>1. /\ Len(x) = 11 /\ Entry!AllDigits(x)
      /\ Entry!Value(SubSeq(x, 1, 2)) = (12 + 3 * Entry!Modulo(SubSeq(x, 3, 11), 97)) % 97
  BY DEF Entry!FrTvaIntra
<1>2. \A i \in 1..11 : x[i] \in 0..9
  BY <1>1, DigitsOf
<1>3. Plain(x)
  BY <1>1, <1>2 DEF Plain
<1>4. Keyed(x, 3, 11, 1)
  BY <1>1, <1>2, <1>3 DEF Keyed
<1>5. QED
  BY <1>1, <1>4 DEF Key, Remainder

LEMMA VatKeyed ==
  ASSUME NEW x \in Texts, Entry!BeVat(x)
  PROVE  Keyed(x, 1, 8, 9) /\ Key(x, 9) = 97 - Remainder(x, 1, 8)
<1>1. /\ Len(x) = 10 /\ Entry!AllDigits(x)
      /\ Entry!Value(SubSeq(x, 9, 10)) = 97 - Entry!Modulo(SubSeq(x, 1, 8), 97)
  BY DEF Entry!BeVat
<1>2. \A i \in 1..10 : x[i] \in 0..9
  BY <1>1, DigitsOf
<1>3. Plain(x)
  BY <1>1, <1>2 DEF Plain
<1>4. Keyed(x, 1, 8, 9)
  BY <1>1, <1>2, <1>3 DEF Keyed
<1>5. QED
  BY <1>1, <1>4 DEF Key, Remainder

LEMMA OgmKeyed ==
  ASSUME NEW x \in Texts, Entry!BeOgm(x)
  PROVE  /\ Keyed(x, 1, 10, 11)
         /\ Key(x, 11) = IF Remainder(x, 1, 10) = 0 THEN 97 ELSE Remainder(x, 1, 10)
<1>1. /\ Len(x) = 12 /\ Entry!AllDigits(x)
      /\ Entry!Value(SubSeq(x, 11, 12)) =
           IF Entry!Modulo(SubSeq(x, 1, 10), 97) = 0 THEN 97
           ELSE Entry!Modulo(SubSeq(x, 1, 10), 97)
  BY DEF Entry!BeOgm
<1>2. \A i \in 1..12 : x[i] \in 0..9
  BY <1>1, DigitsOf
<1>3. Plain(x)
  BY <1>1, <1>2 DEF Plain
<1>4. Keyed(x, 1, 10, 11)
  BY <1>1, <1>2, <1>3 DEF Keyed
<1>5. QED
  BY <1>1, <1>4 DEF Key, Remainder

\* Neither a remainder nor a key determines less than the other.
LEMMA KeysDetermined ==
  ASSUME NEW r \in 0..96, NEW q \in 0..96
  PROVE  /\ (12 + 3 * r) % 97 = (12 + 3 * q) % 97 <=> r = q
         /\ 97 - r = 97 - q <=> r = q
         /\ (IF r = 0 THEN 97 ELSE r) = (IF q = 0 THEN 97 ELSE q) <=> r = q
<1>1. (12 + 3 * r) % 97 = (12 + 3 * q) % 97 => r = q
  OBVIOUS
<1>2. 97 - r = 97 - q => r = q
  OBVIOUS
<1>3. (IF r = 0 THEN 97 ELSE r) = (IF q = 0 THEN 97 ELSE q) => r = q
  OBVIOUS
<1>4. QED
  BY <1>1, <1>2, <1>3

LEMMA KeyedDigit ==
  ASSUME NEW x \in Texts, NEW y, NEW j, OneDigit(x, y, j)
  PROVE  /\ Entry!FrTvaIntra(x) => ~Entry!FrTvaIntra(y)
         /\ Entry!BeVat(x) => ~Entry!BeVat(y)
         /\ Entry!BeOgm(x) => ~Entry!BeOgm(y)
<1>1. y \in Texts
  BY DEF OneDigit
<1>2. ASSUME NEW a, NEW b, NEW c, Keyed(x, a, b, c), Keyed(y, a, b, c)
      PROVE  /\ Remainder(x, a, b) \in 0..96 /\ Remainder(y, a, b) \in 0..96
             /\ ~(Remainder(x, a, b) = Remainder(y, a, b) <=> Key(x, c) = Key(y, c))
  <2>1. Remainder(x, a, b) \in 0..96 /\ Remainder(y, a, b) \in 0..96
    BY <1>2, RemainderType DEF Keyed
  <2>2. QED
    BY <1>2, <2>1, KeyDigit
<1>3. Entry!FrTvaIntra(x) => ~Entry!FrTvaIntra(y)
  <2> SUFFICES ASSUME Entry!FrTvaIntra(x), Entry!FrTvaIntra(y) PROVE FALSE
    OBVIOUS
  <2> DEFINE r == Remainder(x, 3, 11)
             q == Remainder(y, 3, 11)
  <2>1. Keyed(x, 3, 11, 1) /\ Keyed(y, 3, 11, 1)
    BY <1>1, TvaKeyed
  <2>2. r \in 0..96 /\ q \in 0..96 /\ ~(r = q <=> Key(x, 1) = Key(y, 1))
    BY <1>2, <2>1
  <2>3. Key(x, 1) = (12 + 3 * r) % 97 /\ Key(y, 1) = (12 + 3 * q) % 97
    BY <1>1, TvaKeyed
  <2> HIDE DEF r, q
  <2>4. QED
    BY <2>2, <2>3, KeysDetermined
<1>4. Entry!BeVat(x) => ~Entry!BeVat(y)
  <2> SUFFICES ASSUME Entry!BeVat(x), Entry!BeVat(y) PROVE FALSE
    OBVIOUS
  <2> DEFINE r == Remainder(x, 1, 8)
             q == Remainder(y, 1, 8)
  <2>1. Keyed(x, 1, 8, 9) /\ Keyed(y, 1, 8, 9)
    BY <1>1, VatKeyed
  <2>2. r \in 0..96 /\ q \in 0..96 /\ ~(r = q <=> Key(x, 9) = Key(y, 9))
    BY <1>2, <2>1
  <2>3. Key(x, 9) = 97 - r /\ Key(y, 9) = 97 - q
    BY <1>1, VatKeyed
  <2> HIDE DEF r, q
  <2>4. QED
    BY <2>2, <2>3, KeysDetermined
<1>5. Entry!BeOgm(x) => ~Entry!BeOgm(y)
  <2> SUFFICES ASSUME Entry!BeOgm(x), Entry!BeOgm(y) PROVE FALSE
    OBVIOUS
  <2> DEFINE r == Remainder(x, 1, 10)
             q == Remainder(y, 1, 10)
  <2>1. Keyed(x, 1, 10, 11) /\ Keyed(y, 1, 10, 11)
    BY <1>1, OgmKeyed
  <2>2. r \in 0..96 /\ q \in 0..96 /\ ~(r = q <=> Key(x, 11) = Key(y, 11))
    BY <1>2, <2>1
  <2>3. Key(x, 11) = (IF r = 0 THEN 97 ELSE r) /\ Key(y, 11) = (IF q = 0 THEN 97 ELSE q)
    BY <1>1, OgmKeyed
  <2> HIDE DEF r, q
  <2>4. QED
    BY <2>2, <2>3, KeysDetermined
<1>6. QED
  BY <1>3, <1>4, <1>5

-----------------------------------------------------------------------------
(* Numbers with a letter, and with dashes *)

LEMMA NifLettersDiffer ==
  /\ \A r \in 0..22 : Entry!NifLetters[r + 1] \in 10..35
  /\ \A r, q \in 0..22 : Entry!NifLetters[r + 1] = Entry!NifLetters[q + 1] => r = q
BY DEF Entry!NifLetters

LEMMA NifSlip ==
  ASSUME NEW x \in Texts, Plain(x), NEW y, NEW j, OneDigit(x, y, j) \/ Exchanged(x, y, j),
         Entry!EsNif(x)
  PROVE  ~Entry!EsNif(y)
<1> SUFFICES ASSUME Entry!EsNif(y) PROVE FALSE
  OBVIOUS
<1> DEFINE r == Entry!Modulo(SubSeq(x, 1, 8), 23)
           q == Entry!Modulo(SubSeq(y, 1, 8), 23)
<1>1. /\ Len(x) = 9 /\ x[9] = Entry!NifLetters[r + 1] /\ y[9] = Entry!NifLetters[q + 1]
      /\ 23 \in Moduli /\ 1 \in 1..Len(x) /\ 8 \in 1..Len(x)
  BY DEF Entry!EsNif, Moduli
<1>2. y \in Texts /\ Len(y) = Len(x)
  BY DEF OneDigit, Exchanged
<1>3. SubSeq(x, 1, 8) \in Texts /\ Plain(SubSeq(x, 1, 8)) /\ SubSeq(y, 1, 8) \in Texts
  BY <1>1, <1>2, SegmentBare, Segment
<1>4. r \in 0..22 /\ q \in 0..22
  <2>1. r \in 0..(23 - 1) /\ q \in 0..(23 - 1)
    BY <1>1, <1>3, ModuloType
  <2>2. QED
    BY <2>1
<1>5. x[9] \notin 0..9
  <2>1. x[9] \in 10..35
    BY <1>1, <1>4, NifLettersDiffer, Zenon
  <2>2. QED
    BY <2>1
<1>6. r # q /\ y[9] = x[9]
  <2>1. CASE OneDigit(x, y, j)
    <3>1. j \in 1..8 /\ y[9] = x[9]
      BY <1>1, <1>5, <2>1 DEF OneDigit
    <3>2. OneDigit(SubSeq(x, 1, 8), SubSeq(y, 1, 8), j - 1 + 1)
      BY <1>1, <2>1, <3>1, SegmentOneDigit
    <3>3. QED
      BY <1>1, <1>3, <3>1, <3>2, ModuloOneDigit
  <2>2. CASE Exchanged(x, y, j)
    <3>1. j \in 1..8 /\ j + 1 \in 1..8 /\ y[9] = x[9]
      BY <1>1, <1>5, <2>2 DEF Exchanged
    <3>2. Exchanged(SubSeq(x, 1, 8), SubSeq(y, 1, 8), j - 1 + 1)
      BY <1>1, <2>2, <3>1, SegmentExchanged
    <3>3. QED
      BY <1>1, <1>3, <3>1, <3>2, ModuloExchanged
  <2>3. QED
    BY <2>1, <2>2
<1>7. QED
  BY <1>1, <1>4, <1>6, NifLettersDiffer, Zenon

FirstReplacedBy(v, u, c) == v = [u EXCEPT ![1] = c]

LEMMA FirstReplaced ==
  ASSUME NEW u \in Texts, Len(u) = 9, NEW c \in 0..40, NEW v, FirstReplacedBy(v, u, c)
  PROVE  v \in Texts /\ Len(v) = 9 /\ v[1] = c /\ \A i \in 2..9 : v[i] = u[i]
<1> DEFINE T == 0..40
<1>1. u \in Seq(T) /\ c \in T
  BY TextType
<1> HIDE DEF T
<1>2. u \in [1..9 -> T]
  BY <1>1, LenProperties
<1>3. v \in [1..9 -> T] /\ v[1] = c /\ \A i \in 2..9 : v[i] = u[i]
  BY <1>1, <1>2 DEF FirstReplacedBy
<1>4. v \in Seq(T)
  BY <1>3, SeqDef
<1>5. Len(v) = 9
  <2>1. Len(v) \in Nat /\ DOMAIN v = 1..Len(v)
    BY <1>4, LenProperties
  <2>2. 1..9 = 1..Len(v)
    BY <1>3, <2>1
  <2>3. QED
    BY <2>1, <2>2
<1>6. QED
  BY <1>3, <1>4, <1>5 DEF Texts, T

LEMMA NieSlip ==
  ASSUME NEW x \in Texts, Plain(x), NEW y, NEW j, OneDigit(x, y, j) \/ Exchanged(x, y, j),
         Entry!EsNie(x)
  PROVE  ~Entry!EsNie(y)
<1> SUFFICES ASSUME Entry!EsNie(y) PROVE FALSE
  OBVIOUS
<1> DEFINE z == [x EXCEPT ![1] = x[1] - 33]
           w == [y EXCEPT ![1] = y[1] - 33]
<1>1. Len(x) = 9 /\ x[1] \in 33..35 /\ Entry!EsNif(z) /\ Entry!EsNif(w)
  BY DEF Entry!EsNie
<1>2. y \in Texts /\ Len(y) = 9
  BY <1>1 DEF OneDigit, Exchanged
<1>3. j # 1 /\ y[1] = x[1]
  BY <1>1 DEF OneDigit, Exchanged
<1>4. x[1] - 33 \in 0..2 /\ y[1] - 33 \in 0..2
  BY <1>1, <1>3
<1>5. /\ z \in Texts /\ Len(z) = 9 /\ z[1] = x[1] - 33 /\ \A i \in 2..9 : z[i] = x[i]
      /\ w \in Texts /\ Len(w) = 9 /\ w[1] = x[1] - 33 /\ \A i \in 2..9 : w[i] = y[i]
  <2> DEFINE c == x[1] - 33
  <2>1. c \in 0..40 /\ y[1] - 33 = c
    BY <1>3, <1>4
  <2>2. FirstReplacedBy(z, x, c) /\ FirstReplacedBy(w, y, c)
    BY <2>1 DEF FirstReplacedBy
  <2> HIDE DEF c, z, w
  <2>3. z \in Texts /\ Len(z) = 9 /\ z[1] = c /\ \A i \in 2..9 : z[i] = x[i]
    BY <1>1, <2>1, <2>2, FirstReplaced
  <2>4. w \in Texts /\ Len(w) = 9 /\ w[1] = c /\ \A i \in 2..9 : w[i] = y[i]
    BY <1>2, <2>1, <2>2, FirstReplaced
  <2>5. QED
    BY <2>3, <2>4 DEF c
<1> HIDE DEF z, w
<1>6. Plain(z)
  <2>1. \A i \in 2..9 : x[i] \in 0..35
    BY <1>1 DEF Plain
  <2>2. ASSUME NEW i \in 1..9 PROVE z[i] \in 0..35
    <3>1. CASE i = 1
      BY <1>4, <1>5, <3>1
    <3>2. CASE i # 1
      BY <1>5, <2>1, <3>2
    <3>3. QED
      BY <3>1, <3>2
  <2>3. QED
    BY <1>5, <2>2 DEF Plain
<1>7. OneDigit(z, w, j) \/ Exchanged(z, w, j)
  <2>1. CASE OneDigit(x, y, j)
    <3>1. j \in 2..9 /\ z[j] = x[j] /\ w[j] = y[j]
      BY <1>1, <1>3, <1>5, <2>1 DEF OneDigit
    <3>2. \A i \in 1..9 : i # j => w[i] = z[i]
      BY <1>1, <1>3, <1>5, <2>1 DEF OneDigit
    <3>3. QED
      BY <1>5, <2>1, <3>1, <3>2 DEF OneDigit
  <2>2. CASE Exchanged(x, y, j)
    <3>1. /\ j \in 2..9 /\ z[j] = x[j] /\ w[j] = y[j]
          /\ j + 1 \in 2..9 /\ z[j + 1] = x[j + 1] /\ w[j + 1] = y[j + 1]
      BY <1>1, <1>3, <1>5, <2>2 DEF Exchanged
    <3>2. \A i \in 1..9 : i \notin {j, j + 1} => w[i] = z[i]
      BY <1>1, <1>3, <1>5, <2>2 DEF Exchanged
    <3>3. QED
      BY <1>5, <2>2, <3>1, <3>2 DEF Exchanged
  <2>3. QED
    BY <2>1, <2>2
<1>8. QED
  BY <1>1, <1>5, <1>6, <1>7, NifSlip

LEMMA DashedSlip ==
  ASSUME NEW m \in Moduli, NEW x \in Texts, NEW y, NEW j,
         OneDigit(x, y, j) \/ Exchanged(x, y, j),
         \A i \in 1..Len(x) : x[i] \in (0..35) \cup {Entry!Dash}
  PROVE  Entry!Modulo(Entry!Without(x, {Entry!Dash}), m)
           # Entry!Modulo(Entry!Without(y, {Entry!Dash}), m)
<1>1. Len(x) \in Nat
  BY TextType
<1>2. y \in Texts /\ Len(y) = Len(x)
  BY DEF OneDigit, Exchanged
<1>3. PICK s : Steps(s, x, m) /\ Entry!Modulo(Entry!Without(x, {Entry!Dash}), m) = s[Len(x)]
  BY DashedSteps
<1>4. PICK t : Steps(t, y, m) /\ Entry!Modulo(Entry!Without(y, {Entry!Dash}), m) = t[Len(y)]
  BY <1>2, DashedSteps
<1>5. s[Len(x)] # t[Len(x)]
  <2>1. CASE OneDigit(x, y, j)
    <3>1. /\ j \in 1..Len(x) /\ x[j] \in 0..9 /\ y[j] \in 0..9 /\ x[j] # y[j]
          /\ \A i \in 1..Len(x) : x[i] \in (0..35) \cup {Entry!Dash} /\ (i # j => x[i] = y[i])
      BY <2>1 DEF OneDigit
    <3>2. DigitOff(x, y, j)
      BY <1>1, <1>2, <3>1 DEF DigitOff
    <3>3. QED
      BY <1>3, <1>4, <3>2, WrongDigitApart
  <2>2. CASE Exchanged(x, y, j)
    <3>1. /\ j \in 1..Len(x) /\ j + 1 \in 1..Len(x)
          /\ x[j] \in 0..9 /\ x[j + 1] \in 0..9 /\ x[j] # x[j + 1]
          /\ y[j] = x[j + 1] /\ y[j + 1] = x[j]
          /\ \A i \in 1..Len(x) :
               x[i] \in (0..35) \cup {Entry!Dash} /\ (i \notin {j, j + 1} => x[i] = y[i])
      BY <2>2 DEF Exchanged
    <3>2. OrderOff(x, y, j)
      BY <1>1, <1>2, <3>1 DEF OrderOff
    <3>3. QED
      BY <1>3, <1>4, <3>2, WrongOrderApart
  <2>3. QED
    BY <2>1, <2>2
<1>6. QED
  BY <1>2, <1>3, <1>4, <1>5

LEMMA LeitwegSlip ==
  ASSUME NEW x \in Texts, NEW y, NEW j, OneDigit(x, y, j) \/ Exchanged(x, y, j),
         Entry!DeLeitweg(x)
  PROVE  ~Entry!DeLeitweg(y)
<1> SUFFICES ASSUME Entry!DeLeitweg(y) PROVE FALSE
  OBVIOUS
<1> DEFINE m == 97
<1>1. /\ \A i \in DOMAIN x : Entry!IsDigit(x[i]) \/ Entry!IsLetter(x[i]) \/ x[i] = Entry!Dash
      /\ Entry!Modulo(Entry!Without(x, {Entry!Dash}), m) = 1
      /\ Entry!Modulo(Entry!Without(y, {Entry!Dash}), m) = 1
  BY Zenon DEF Entry!DeLeitweg
<1>2. DOMAIN x = 1..Len(x) /\ m \in Moduli
  BY TextType DEF Moduli
<1>3. \A i \in 1..Len(x) : x[i] \in (0..35) \cup {Entry!Dash}
  <2>1. \A c : Entry!IsDigit(c) \/ Entry!IsLetter(c) => c \in 0..35
    BY DEF Entry!IsDigit, Entry!IsLetter
  <2>2. QED
    BY <1>1, <1>2, <2>1
<1>4. QED
  <2> HIDE DEF m
  <2>1. QED
    BY <1>1, <1>2, <1>3, DashedSlip, Zenon

-----------------------------------------------------------------------------
(* Spain, Germany, Singapore *)

CifBoth(d) == (2 * d) \div 10 + ((2 * d) % 10)
CifSum(x) ==
  x[3] + x[5] + x[7] + CifBoth(x[2]) + CifBoth(x[4]) + CifBoth(x[6]) + CifBoth(x[8])
CifEnd(n) == (10 - (n % 10)) % 10
CifLetterOf(check) == IF check = 0 THEN 19 ELSE 9 + check

LEMMA CifParts ==
  ASSUME NEW x \in Texts, Entry!EsCif(x)
  PROVE  /\ Len(x) = 9 /\ x[1] \in 10..35 /\ \A i \in 2..8 : x[i] \in 0..9
         /\ CifSum(x) \in Int
         /\ x[9] = CifEnd(CifSum(x)) \/ x[9] = CifLetterOf(CifEnd(CifSum(x)))
<1>1. Len(x) = 9 /\ x[1] \in Entry!CifFormat /\ Entry!AllDigits(SubSeq(x, 2, 8))
  BY Zenon DEF Entry!EsCif
<1>2. x[1] \in 10..35
  BY <1>1 DEF Entry!CifFormat
<1>3. \A i \in 2..8 : x[i] \in 0..9
  <2> DEFINE z == SubSeq(x, 2, 8)
  <2>1. z \in Texts /\ Len(z) = 7 /\ \A i \in 1..7 : z[i] = x[i + 2 - 1]
    <3>1. 2 \in 1..Len(x) /\ 8 \in 2..Len(x)
      BY <1>1
    <3>2. z \in Texts /\ Len(z) = 8 - 2 + 1 /\ \A i \in 1..(8 - 2 + 1) : z[i] = x[i + 2 - 1]
      BY <3>1, Segment
    <3>3. 8 - 2 + 1 = 7
      OBVIOUS
    <3>4. QED
      BY <3>2, <3>3, Zenon
  <2>2. \A i \in 1..7 : z[i] \in 0..9
    BY <1>1, <2>1, DigitsOf
  <2> HIDE DEF z
  <2>3. ASSUME NEW i \in 2..8 PROVE x[i] \in 0..9
    <3>1. i - 1 \in 1..7 /\ i - 1 + 2 - 1 = i
      OBVIOUS
    <3>2. QED
      BY <2>1, <2>2, <3>1
  <2>4. QED
    BY <2>3
<1>4. CifSum(x) \in Int
  <2>1. \A d \in 0..9 : d \in Int /\ CifBoth(d) \in Int
    BY DEF CifBoth
  <2>2. /\ x[2] \in 0..9 /\ x[3] \in 0..9 /\ x[4] \in 0..9 /\ x[5] \in 0..9
        /\ x[6] \in 0..9 /\ x[7] \in 0..9 /\ x[8] \in 0..9
    BY <1>3
  <2>3. /\ x[3] \in Int /\ x[5] \in Int /\ x[7] \in Int
        /\ CifBoth(x[2]) \in Int /\ CifBoth(x[4]) \in Int
        /\ CifBoth(x[6]) \in Int /\ CifBoth(x[8]) \in Int
    BY <2>1, <2>2
  <2>4. QED
    BY <2>3 DEF CifSum
<1>5. x[9] = CifEnd(CifSum(x)) \/ x[9] = CifLetterOf(CifEnd(CifSum(x)))
  <2> DEFINE check == (10 - ((x[3] + x[5] + x[7] + CifBoth(x[2]) + CifBoth(x[4]) + CifBoth(x[6])
                               + CifBoth(x[8])) % 10)) % 10
  <2>1. \/ x[9] = check \/ x[9] = CifLetterOf(check)
    BY Zenon DEF Entry!EsCif, CifBoth, CifLetterOf
  <2>2. QED
    BY <2>1 DEF CifEnd, CifSum
<1>6. QED
  BY <1>1, <1>2, <1>3, <1>4, <1>5

\* Both digits of a double together: a permutation of the digits.
LEMMA CifBothDiffer ==
  ASSUME NEW c \in 0..9, NEW d \in 0..9, c # d
  PROVE  CifBoth(d) - CifBoth(c) \in Differences
BY DEF CifBoth, Differences

LEMMA CifEndsDiffer ==
  ASSUME NEW s \in Int, NEW t \in Int
  PROVE  /\ CifEnd(s) = CifEnd(t) => s % 10 = t % 10
         /\ CifEnd(s) \in 0..9 /\ CifLetterOf(CifEnd(s)) \in 10..19
         /\ CifLetterOf(CifEnd(s)) = CifLetterOf(CifEnd(t)) => CifEnd(s) = CifEnd(t)
<1>1. CifEnd(s) = CifEnd(t) => s % 10 = t % 10
  BY DEF CifEnd
<1>2. CifEnd(s) \in 0..9 /\ CifEnd(t) \in 0..9
  BY DEF CifEnd
<1>3. \A c, d \in 0..9 : CifLetterOf(c) \in 10..19 /\ (CifLetterOf(c) = CifLetterOf(d) => c = d)
  BY DEF CifLetterOf
<1>4. QED
  BY <1>1, <1>2, <1>3

LEMMA CifDigitWrong ==
  ASSUME NEW x \in Texts, NEW y, NEW j, OneDigit(x, y, j), Entry!EsCif(x)
  PROVE  ~Entry!EsCif(y)
<1> SUFFICES ASSUME Entry!EsCif(y) PROVE FALSE
  OBVIOUS
<1> DEFINE s == CifSum(x)
           t == CifSum(y)
<1>1. /\ Len(x) = 9 /\ x[1] \in 10..35 /\ \A i \in 2..8 : x[i] \in 0..9
      /\ s \in Int /\ (x[9] = CifEnd(s) \/ x[9] = CifLetterOf(CifEnd(s)))
  BY CifParts
<1>2. /\ \A i \in 2..8 : y[i] \in 0..9
      /\ t \in Int /\ (y[9] = CifEnd(t) \/ y[9] = CifLetterOf(CifEnd(t)))
  BY CifParts DEF OneDigit
<1>3. j \in 2..9 /\ x[j] \in 0..9 /\ y[j] \in 0..9 /\ x[j] # y[j]
  BY <1>1 DEF OneDigit
<1>4. \A i \in 2..9 : i # j => y[i] = x[i]
  BY <1>1 DEF OneDigit
<1>5. CASE j = 9
  <2>1. s = t
    BY <1>4, <1>5 DEF CifSum
  <2>2. CifLetterOf(CifEnd(s)) \notin 0..9
    <3>1. CifLetterOf(CifEnd(s)) \in 10..19
      BY <1>1, CifEndsDiffer
    <3>2. QED
      BY <3>1
  <2> HIDE DEF s, t
  <2>3. QED
    BY <1>1, <1>2, <1>3, <1>5, <2>1, <2>2
<1>6. CASE j # 9
  <2>1. y[9] = x[9]
    BY <1>4, <1>6
  <2>2. t - s \in Differences
    <3>1. /\ y[j] - x[j] \in Differences /\ CifBoth(y[j]) - CifBoth(x[j]) \in Differences
      BY <1>3, DigitsDiffer, CifBothDiffer
    <3>2. \A d \in 0..9 : d \in Int /\ CifBoth(d) \in Int
      BY DEF CifBoth
    <3>3. t - s = IF j \in {3, 5, 7} THEN y[j] - x[j] ELSE CifBoth(y[j]) - CifBoth(x[j])
      <4>1. ASSUME NEW i \in 2..8
            PROVE  /\ x[i] \in Int /\ CifBoth(x[i]) \in Int
                   /\ y[i] \in Int /\ CifBoth(y[i]) \in Int
                   /\ i # j => y[i] = x[i]
        BY <1>1, <1>2, <1>4, <3>2
      <4>2. /\ x[3] \in Int /\ x[5] \in Int /\ x[7] \in Int
            /\ CifBoth(x[2]) \in Int /\ CifBoth(x[4]) \in Int
            /\ CifBoth(x[6]) \in Int /\ CifBoth(x[8]) \in Int
            /\ y[3] \in Int /\ y[5] \in Int /\ y[7] \in Int
            /\ CifBoth(y[2]) \in Int /\ CifBoth(y[4]) \in Int
            /\ CifBoth(y[6]) \in Int /\ CifBoth(y[8]) \in Int
        BY <4>1
      <4>3. /\ 2 # j => y[2] = x[2]
            /\ 3 # j => y[3] = x[3]
            /\ 4 # j => y[4] = x[4]
            /\ 5 # j => y[5] = x[5]
            /\ 6 # j => y[6] = x[6]
            /\ 7 # j => y[7] = x[7]
            /\ 8 # j => y[8] = x[8]
        BY <4>1
      <4>4. j \in {2, 3, 4, 5, 6, 7, 8}
        BY <1>3, <1>6
      <4>5. CASE j = 2
        BY <4>2, <4>3, <4>5 DEF CifSum
      <4>6. CASE j = 3
        BY <4>2, <4>3, <4>6 DEF CifSum
      <4>7. CASE j = 4
        BY <4>2, <4>3, <4>7 DEF CifSum
      <4>8. CASE j = 5
        BY <4>2, <4>3, <4>8 DEF CifSum
      <4>9. CASE j = 6
        BY <4>2, <4>3, <4>9 DEF CifSum
      <4>10. CASE j = 7
        BY <4>2, <4>3, <4>10 DEF CifSum
      <4>11. CASE j = 8
        BY <4>2, <4>3, <4>11 DEF CifSum
      <4>12. QED
        BY <4>4, <4>5, <4>6, <4>7, <4>8, <4>9, <4>10, <4>11
    <3>4. QED
      BY <3>1, <3>3
  <2>3. s % 10 # t % 10
    BY <1>1, <1>2, <2>2, RemaindersApart
  <2>4. /\ CifEnd(s) # CifEnd(t) /\ CifEnd(s) \in 0..9 /\ CifEnd(t) \in 0..9
        /\ CifLetterOf(CifEnd(s)) \in 10..19 /\ CifLetterOf(CifEnd(t)) \in 10..19
        /\ CifLetterOf(CifEnd(s)) # CifLetterOf(CifEnd(t))
    BY <1>1, <1>2, <2>3, CifEndsDiffer
  <2> HIDE DEF s, t
  <2>5. QED
    BY <1>1, <1>2, <2>1, <2>4
<1>7. QED
  BY <1>5, <1>6

-----------------------------------------------------------------------------
(* Germany: the modulus turns from 10 to 11 and back *)

Folds == 1..10
Turned(v, d) ==
  LET total == (d + v) % 10 IN ((IF total = 0 THEN 10 ELSE total) * 2) % 11

LEMMA TurnedType ==
  ASSUME NEW v \in Folds, NEW d \in 0..9 PROVE Turned(v, d) \in Folds
BY DEF Turned, Folds

\* The product of a DE VAT number, digit by digit.
LEMMA DeVatRun ==
  ASSUME NEW x \in Texts, Entry!DeVat(x)
  PROVE  \E s \in [0..8 -> Folds] :
           s[0] = 10 /\ (\A i \in 1..8 : s[i] = Turned(s[i - 1], x[i]))
           /\ x[9] = (11 - s[8]) % 10
<1> DEFINE Extended(s) ==
             [i \in 0..8 |->
                IF i = 0 THEN 10
                ELSE LET total == (x[i] + s[i - 1]) % 10
                     IN ((IF total = 0 THEN 10 ELSE total) * 2) % 11]
<1> DEFINE step == [i \in 1..8 |-> [v \in Folds |-> Turned(v, x[i])]]
<1> DEFINE run == CHOOSE s : s = Extended(s)
<1>0. Len(x) = 9 /\ \A i \in 1..8 : x[i] \in 0..9
  <2>1. Len(x) = 9 /\ Entry!AllDigits(x)
    BY DEF Entry!DeVat
  <2>2. \A i \in 1..9 : x[i] \in 0..9
    BY <2>1, DigitsOf
  <2>3. QED
    BY <2>1, <2>2
<1>1. 8 \in Nat /\ 10 \in Folds
  BY DEF Folds
<1>2. step \in [1..8 -> [Folds -> Folds]]
  <2>1. ASSUME NEW i \in 1..8, NEW v \in Folds PROVE Turned(v, x[i]) \in Folds
    BY <1>0, TurnedType
  <2>2. QED
    BY <2>1
<1>3. PICK g : g \in Runs(8, Folds, 10, step)
  <2> HIDE DEF step
  <2>1. Runs(8, Folds, 10, step) # {}
    BY <1>1, <1>2, Recursion, Zenon
  <2>2. QED
    BY <2>1
<1>4. /\ g \in [0..8 -> Folds] /\ g[0] = 10
      /\ \A i \in 1..8 : g[i] = Turned(g[i - 1], x[i])
  <2>1. /\ g \in [0..8 -> Folds] /\ g[0] = 10
        /\ \A i \in 1..8 : g[i] = step[i][g[i - 1]]
    BY <1>3 DEF Runs
  <2>2. ASSUME NEW i \in 1..8 PROVE g[i] = Turned(g[i - 1], x[i])
    <3>1. g[i - 1] \in Folds /\ step[i] = [v \in Folds |-> Turned(v, x[i])]
      BY <1>1, <2>1
    <3>2. QED
      BY <2>1, <3>1
  <2>3. QED
    BY <2>1, <2>2
<1>5. g = Extended(g)
  <2>1. \A i \in 0..8 : g[i] = Extended(g)[i]
    BY <1>1, <1>4, SMTT(30) DEF Turned
  <2>2. QED
    BY <1>4, <2>1
<1>6. run = Extended(run)
  BY <1>5, ZenonT(40)
<1>7. /\ DOMAIN run = 0..8 /\ run[0] = 10
      /\ \A i \in 1..8 : run[i] = Turned(run[i - 1], x[i])
  <2> HIDE DEF run
  <2>1. /\ DOMAIN Extended(run) = 0..8 /\ Extended(run)[0] = 10
        /\ \A i \in 1..8 : Extended(run)[i] = Turned(run[i - 1], x[i])
    BY <1>1 DEF Turned
  <2>2. QED
    BY ONLY <1>6, <2>1, Zenon
<1>8. run \in Runs(8, Folds, 10, step)
  <2> HIDE DEF run
  <2>1. run = [i \in 0..8 |-> run[i]]
    BY <1>6
  <2>2. \A i \in 1..8 : run[i - 1] \in Folds => run[i] = step[i][run[i - 1]]
    BY <1>7
  <2>3. QED
    <3> HIDE DEF step
    <3>1. QED
      BY <1>1, <1>2, <1>7, <2>1, <2>2, RecursiveRun, Zenon
<1>9. x[9] = (11 - run[8]) % 10
  BY DEF Entry!DeVat
<1>10. QED
  <2> HIDE DEF run
  <2>1. QED
    BY <1>7, <1>8, <1>9 DEF Runs

LEMMA TurnedApart ==
  ASSUME NEW v \in Folds, NEW u \in Folds, NEW c \in 0..9, NEW d \in 0..9
  PROVE  /\ c # d => Turned(v, c) # Turned(v, d)
         /\ v # u => Turned(v, c) # Turned(u, c)
<1>1. ASSUME NEW p \in 0..9, NEW q \in 0..9, p # q
      PROVE  ((IF p = 0 THEN 10 ELSE p) * 2) % 11 # ((IF q = 0 THEN 10 ELSE q) * 2) % 11
  BY <1>1
<1>2. c # d => (c + v) % 10 # (d + v) % 10
  BY DEF Folds
<1>3. v # u => (c + v) % 10 # (c + u) % 10
  BY DEF Folds
<1>4. (c + v) % 10 \in 0..9 /\ (d + v) % 10 \in 0..9 /\ (c + u) % 10 \in 0..9
  BY DEF Folds
<1>5. QED
  BY <1>1, <1>2, <1>3, <1>4 DEF Turned

LEMMA DeVatDigit ==
  ASSUME NEW x \in Texts, NEW y, NEW j, OneDigit(x, y, j), Entry!DeVat(x)
  PROVE  ~Entry!DeVat(y)
<1> SUFFICES ASSUME Entry!DeVat(y) PROVE FALSE
  OBVIOUS
<1>1. y \in Texts /\ j \in 1..Len(x) /\ x[j] \in 0..9 /\ y[j] \in 0..9 /\ x[j] # y[j]
  BY DEF OneDigit
<1>2. Len(x) = 9 /\ \A i \in 1..9 : x[i] \in 0..9 /\ (i # j => y[i] = x[i])
  <2>1. Len(x) = 9 /\ Entry!AllDigits(x)
    BY Zenon DEF Entry!DeVat
  <2>2. QED
    BY <2>1, DigitsOf, Zenon DEF OneDigit
<1>3. PICK s \in [0..8 -> Folds] :
        s[0] = 10 /\ (\A i \in 1..8 : s[i] = Turned(s[i - 1], x[i]))
        /\ x[9] = (11 - s[8]) % 10
  BY DeVatRun
<1>4. PICK t \in [0..8 -> Folds] :
        t[0] = 10 /\ (\A i \in 1..8 : t[i] = Turned(t[i - 1], y[i]))
        /\ y[9] = (11 - t[8]) % 10
  BY <1>1, DeVatRun
<1> DEFINE S == {i \in 0..8 : s[i] # t[i] <=> i >= j}
<1>5. 0 \in S
  BY <1>1, <1>3, <1>4
<1>6. ASSUME NEW i \in 1..8, i - 1 \in S PROVE i \in S
  <2>1. /\ s[i] = Turned(s[i - 1], x[i]) /\ t[i] = Turned(t[i - 1], y[i])
        /\ s[i - 1] \in Folds /\ t[i - 1] \in Folds /\ x[i] \in 0..9
        /\ (i # j => y[i] = x[i])
    BY <1>2, <1>3, <1>4
  <2>2. s[i - 1] # t[i - 1] <=> i > j
    BY <1>1, <1>6
  <2> HIDE DEF S
  <2>3. CASE i = j
    <3>1. s[i - 1] = t[i - 1] /\ x[i] # y[i] /\ y[i] \in 0..9
      BY <1>1, <2>2, <2>3
    <3>2. s[i] # t[i]
      BY <2>1, <3>1, TurnedApart
    <3>3. QED
      BY <2>3, <3>2 DEF S
  <2>4. CASE i # j
    <3>1. s[i] # t[i] <=> s[i - 1] # t[i - 1]
      BY <2>1, <2>4, TurnedApart
    <3>2. i > j <=> i >= j
      BY <1>1, <2>4
    <3>3. QED
      BY <2>2, <3>1, <3>2 DEF S
  <2>5. QED
    BY <2>3, <2>4
<1>7. 8 \in S
  <2> HIDE DEF S
  <2>1. 0..8 \subseteq S
    BY <1>5, <1>6, Reaches
  <2>2. QED
    BY <2>1
<1>8. s[8] \in Folds /\ t[8] \in Folds /\ (s[8] # t[8] <=> j # 9)
  BY <1>1, <1>2, <1>7
<1>9. (11 - s[8]) % 10 = (11 - t[8]) % 10 <=> s[8] = t[8]
  BY <1>8 DEF Folds
<1>10. y[9] = x[9] <=> j # 9
  BY <1>1, <1>2
<1>11. QED
  BY <1>3, <1>4, <1>8, <1>9, <1>10

UenLetters(letters) ==
  /\ \A r \in 0..10 : letters[r + 1] \in 10..35
  /\ \A r, q \in 0..10 : letters[r + 1] = letters[q + 1] => r = q

LEMMA UenLettersDiffer ==
  /\ UenLetters(Entry!BusinessLetters)
  /\ UenLetters(Entry!CompanyLetters)
  /\ \A r \in 0..10 : Entry!UenLetter(r) \in 10..35
  /\ \A r, q \in 0..10 : Entry!UenLetter(r) = Entry!UenLetter(q) => r = q
<1>1. UenLetters(Entry!BusinessLetters)
  BY DEF UenLetters, Entry!BusinessLetters
<1>2. UenLetters(Entry!CompanyLetters)
  BY DEF UenLetters, Entry!CompanyLetters
<1>3. \A r \in 0..10 : Entry!UenLetter(r) \in 10..35
  BY DEF Entry!UenLetter
<1>4. \A r, q \in 0..10 : Entry!UenLetter(r) = Entry!UenLetter(q) => r = q
  BY DEF Entry!UenLetter
<1>5. QED
  BY <1>1, <1>2, <1>3, <1>4

UenEnd(x, letters, weights, n) ==
  Len(x) = n + 1 /\ x[n + 1] = letters[(Entry!Weighted(x, weights) % 11) + 1]

\* A business and a local company: digits and a letter.
LEMMA UenDigits ==
  ASSUME NEW x \in Texts, NEW y, NEW j, OneDigit(x, y, j), NEW letters, UenLetters(letters),
         NEW weights, NEW n, FactorList(weights, n), n # 0,
         UenEnd(x, letters, weights, n), UenEnd(y, letters, weights, n)
  PROVE  FALSE
<1> DEFINE r == Entry!Weighted(x, weights) % 11
           q == Entry!Weighted(y, weights) % 11
<1>0. /\ Len(x) = n + 1
      /\ x[n + 1] = letters[r + 1] /\ y[n + 1] = letters[q + 1]
  BY DEF UenEnd
<1>1. n \in Nat /\ Numbers(x, n)
  BY <1>0, TextType DEF FactorList, Numbers
<1>2. Entry!Weighted(x, weights) \in Int
  BY <1>1, WeightedType
<1>3. r \in 0..10
  BY <1>2
<1> HIDE DEF r, q
<1>4. x[n + 1] \in 10..35
  BY <1>0, <1>3 DEF UenLetters
<1>5. j \in 1..Len(x) /\ j # n + 1
  <2>1. j \in 1..Len(x) /\ x[j] \in 0..9
    BY DEF OneDigit
  <2>2. \A c \in 10..35 : c \notin 0..9
    OBVIOUS
  <2>3. QED
    BY <1>4, <2>1, <2>2, Zenon
<1>6. y[n + 1] = x[n + 1] /\ j <= n /\ n \in 1..Len(x)
  BY <1>0, <1>1, <1>5 DEF OneDigit
<1>7. r # q /\ Entry!Weighted(y, weights) \in Int
  BY <1>6, WeightedDigit DEF r, q
<1>8. q \in 0..10
  BY <1>7 DEF q
<1>9. letters[r + 1] = letters[q + 1]
  BY <1>0, <1>6
<1>10. QED
  BY <1>3, <1>7, <1>8, <1>9 DEF UenLetters

LEMMA SegmentDigits ==
  ASSUME NEW x \in Texts, NEW a \in 1..Len(x), NEW b \in a..Len(x),
         Entry!AllDigits(SubSeq(x, a, b))
  PROVE  \A i \in a..b : x[i] \in 0..9
<1> DEFINE z == SubSeq(x, a, b)
<1>1. /\ z \in Texts /\ Len(z) = b - a + 1
      /\ \A i \in 1..(b - a + 1) : z[i] = x[i + a - 1]
  BY Segment
<1>2. \A i \in 1..(b - a + 1) : z[i] \in 0..9
  BY <1>1, DigitsOf
<1> HIDE DEF z
<1> SUFFICES ASSUME NEW i \in a..b PROVE x[i] \in 0..9
  OBVIOUS
<1>3. i - a + 1 \in 1..(b - a + 1) /\ i - a + 1 + a - 1 = i
  BY TextType
<1>4. QED
  BY <1>1, <1>2, <1>3

UenWeights == <<4, 3, 5, 3, 10, 2, 2, 5, 7>>
UenIndices(x) == [i \in 1..9 |-> Entry!UenIndex(x[i])]

\* Any other entity: letters count by their index.
LEMMA UenEntity ==
  ASSUME NEW x \in Texts, Plain(x), NEW y, NEW j, OneDigit(x, y, j), Len(x) = 10, x[1] \in 27..29,
         x[10] = Entry!UenLetter((Entry!Weighted(UenIndices(x), UenWeights) - 5) % 11),
         y[10] = Entry!UenLetter((Entry!Weighted(UenIndices(y), UenWeights) - 5) % 11)
  PROVE  FALSE
<1> DEFINE u == UenIndices(x)
           v == UenIndices(y)
           s == Entry!Weighted(u, UenWeights)
           t == Entry!Weighted(v, UenWeights)
<1>0. x[10] = Entry!UenLetter((s - 5) % 11) /\ y[10] = Entry!UenLetter((t - 5) % 11)
  OBVIOUS
<1>1. FactorList(UenWeights, 9)
  BY DEF UenWeights, FactorList, Factors
<1>2. \A i \in 1..9 : u[i] = Entry!UenIndex(x[i]) /\ v[i] = Entry!UenIndex(y[i])
  BY DEF UenIndices
<1> HIDE DEF u, v
<1>3. /\ \A c \in 0..35 : Entry!UenIndex(c) \in Int
      /\ \A c \in 0..9 : Entry!UenIndex(c) = c + 22
  BY DEF Entry!UenIndex, Entry!IsDigit
<1>4. \A i \in 1..9 : x[i] \in 0..35 /\ y[i] \in 0..35 /\ (i # j => y[i] = x[i])
  <2>1. Len(y) = Len(x) /\ Plain(y) /\ \A i \in 1..9 : i \in 1..Len(x)
    BY SlipsBare
  <2>2. QED
    BY <2>1 DEF Plain, OneDigit
<1>5. \A i \in 1..9 : u[i] \in Int /\ v[i] \in Int /\ (i # j => u[i] = v[i])
  <2> SUFFICES ASSUME NEW i \in 1..9
               PROVE  u[i] \in Int /\ v[i] \in Int /\ (i # j => u[i] = v[i])
    OBVIOUS
  <2>1. x[i] \in 0..35 /\ y[i] \in 0..35 /\ (i # j => y[i] = x[i])
    BY <1>4
  <2>2. u[i] = Entry!UenIndex(x[i]) /\ v[i] = Entry!UenIndex(y[i])
    BY <1>2
  <2>3. QED
    BY <1>3, <2>1, <2>2, Zenon
<1>6. j \in 1..10 /\ x[j] \in 0..9 /\ y[j] \in 0..9 /\ x[j] # y[j]
  BY DEF OneDigit
<1>7. CASE j = 10
  <2>1. s \in Int
    BY <1>1, <1>5, WeightedType DEF Numbers
  <2> HIDE DEF s, t
  <2>2. (s - 5) % 11 \in 0..10
    BY <2>1
  <2>3. x[10] \in 10..35
    BY <1>0, <2>2, UenLettersDiffer
  <2>4. QED
    BY <1>6, <1>7, <2>3
<1>8. CASE j # 10
  <2>1. AlikeBut(u, v, 9, j)
    BY <1>5, <1>6, <1>8 DEF AlikeBut
  <2>2. v[j] - u[j] \in Differences
    <3>1. u[j] = x[j] + 22 /\ v[j] = y[j] + 22
      BY <1>2, <1>3, <1>6, <1>8
    <3>2. y[j] - x[j] \in Differences
      BY <1>6, DigitsDiffer
    <3>3. v[j] - u[j] = y[j] - x[j]
      BY <1>6, <3>1
    <3>4. QED
      BY <3>2, <3>3
  <2>3. s \in Int /\ t \in Int /\ s % 11 # t % 11
    BY <1>1, <2>1, <2>2, WeightedApart
  <2> HIDE DEF s, t
  <2>4. (s - 5) % 11 # (t - 5) % 11 /\ (s - 5) % 11 \in 0..10 /\ (t - 5) % 11 \in 0..10
    BY <2>3
  <2>5. y[10] = x[10]
    BY <1>6, <1>8 DEF OneDigit
  <2>6. (s - 5) % 11 = (t - 5) % 11
    BY <1>0, <2>4, <2>5, UenLettersDiffer
  <2>7. QED
    BY <2>4, <2>6
<1>9. QED
  BY <1>7, <1>8

LEMMA UenDigit ==
  ASSUME NEW x \in Texts, Plain(x), NEW y, NEW j, OneDigit(x, y, j), Entry!SgUen(x)
  PROVE  ~Entry!SgUen(y)
<1> SUFFICES ASSUME Entry!SgUen(y) PROVE FALSE
  OBVIOUS
<1> DEFINE business == <<10, 4, 9, 3, 8, 2, 7, 1>>
           company == <<10, 8, 6, 4, 9, 7, 5, 3, 1>>
           Business(z) == /\ Len(z) = 9
                          /\ z[9] = Entry!BusinessLetters[(Entry!Weighted(z, business) % 11) + 1]
           Company(z) == /\ Len(z) = 10 /\ Entry!AllDigits(SubSeq(z, 1, 9))
                         /\ z[10] = Entry!CompanyLetters[(Entry!Weighted(z, company) % 11) + 1]
           Entity(z) ==
             /\ Len(z) = 10 /\ z[1] \in 27..29
             /\ z[10] = Entry!UenLetter((Entry!Weighted(UenIndices(z), UenWeights) - 5) % 11)
<1>1. \A z : Entry!SgUen(z) => Business(z) \/ Company(z) \/ Entity(z)
  BY Zenon DEF Entry!SgUen, UenIndices, UenWeights
<1>2. y \in Texts /\ Len(y) = Len(x)
  BY DEF OneDigit
<1>3. FactorList(business, 8) /\ FactorList(company, 9)
  BY DEF FactorList, Factors
<1>4. ASSUME NEW z \in Texts, Company(z) PROVE z[1] \in 0..9
  <2>1. 1 \in 1..Len(z) /\ 9 \in 1..Len(z) /\ 1 \in 1..9
    BY <1>4
  <2>2. QED
    BY <1>4, <2>1, SegmentDigits
<1> HIDE DEF business, company
<1>5. CASE Business(x)
  <2>1. Business(y)
    BY <1>1, <1>2, <1>5
  <2>2. UenLetters(Entry!BusinessLetters)
    BY UenLettersDiffer
  <2>3. /\ UenEnd(x, Entry!BusinessLetters, business, 8)
        /\ UenEnd(y, Entry!BusinessLetters, business, 8)
    BY <1>5, <2>1 DEF UenEnd
  <2>4. QED
    BY <1>3, <2>2, <2>3, UenDigits
<1>6. CASE Company(x)
  <2>1. Company(y)
    <3>1. x[1] \in 0..9
      BY <1>4, <1>6
    <3>2. y[1] \notin 27..29
      BY <1>6, <3>1 DEF OneDigit
    <3>3. QED
      BY <1>1, <1>2, <1>6, <3>2
  <2>2. UenLetters(Entry!CompanyLetters)
    BY UenLettersDiffer
  <2>3. /\ UenEnd(x, Entry!CompanyLetters, company, 9)
        /\ UenEnd(y, Entry!CompanyLetters, company, 9)
    BY <1>6, <2>1 DEF UenEnd
  <2>4. QED
    BY <1>3, <2>2, <2>3, UenDigits
<1>7. CASE Entity(x)
  <2>1. Entity(y)
    <3>1. y[1] = x[1]
      BY <1>7 DEF OneDigit
    <3>2. y[1] \notin 0..9
      BY <1>7, <3>1
    <3>3. QED
      BY <1>1, <1>2, <1>4, <1>7, <3>2
  <2>2. QED
    BY <1>7, <2>1, UenEntity
<1>8. QED
  BY <1>1, <1>5, <1>6, <1>7

\* Two digits in the wrong order, both in the number or both in its key.
LEMMA KeyExchanged ==
  ASSUME NEW x, NEW a, NEW b, NEW c, Keyed(x, a, b, c), NEW y, NEW j, Exchanged(x, y, j),
         (j \in a..b /\ j + 1 \in a..b) \/ j = c
  PROVE  \/ Remainder(x, a, b) # Remainder(y, a, b) /\ Key(x, c) = Key(y, c)
         \/ Remainder(x, a, b) = Remainder(y, a, b) /\ Key(x, c) # Key(y, c)
<1>1. /\ x \in Texts /\ Plain(x) /\ a \in 1..Len(x) /\ b \in a..Len(x)
      /\ c \in 1..Len(x) /\ c + 1 \in 1..Len(x) /\ x[c] \in 0..9 /\ x[c + 1] \in 0..9
      /\ c \notin a..b /\ c + 1 \notin a..b
  BY DEF Keyed
<1>2. /\ y \in Texts /\ Len(y) = Len(x) /\ j \in 1..Len(x)
      /\ x[j] # x[j + 1] /\ y[j] = x[j + 1] /\ y[j + 1] = x[j]
  BY DEF Exchanged
<1>3. Key(x, c) = 10 * x[c] + x[c + 1] /\ Key(y, c) = 10 * y[c] + y[c + 1]
  BY <1>1, <1>2, TwoDigits DEF Key
<1>4. CASE j \in a..b /\ j + 1 \in a..b
  <2>1. Entry!Modulo(SubSeq(x, a, b), 97) # Entry!Modulo(SubSeq(y, a, b), 97)
    <3>1. Exchanged(SubSeq(x, a, b), SubSeq(y, a, b), j - a + 1)
      BY <1>1, <1>4, SegmentExchanged
    <3>2. SubSeq(x, a, b) \in Texts /\ Plain(SubSeq(x, a, b)) /\ 97 \in Moduli
      BY <1>1, SegmentBare DEF Moduli
    <3>3. QED
      BY <3>1, <3>2, ModuloExchanged
  <2>2. c \notin {j, j + 1} /\ c + 1 \notin {j, j + 1}
    BY <1>1, <1>4
  <2>3. y[c] = x[c] /\ y[c + 1] = x[c + 1]
    BY <1>1, <2>2 DEF Exchanged
  <2>4. QED
    BY <1>3, <2>1, <2>3 DEF Remainder
<1>5. CASE j = c
  <2>1. SubSeq(y, a, b) = SubSeq(x, a, b)
    <3>1. \A i \in a..b : i \in 1..Len(x) /\ i \notin {j, j + 1}
      BY <1>1, <1>5, TextType
    <3>2. \A i \in a..b : y[i] = x[i]
      BY <3>1 DEF Exchanged
    <3>3. QED
      BY <1>1, <1>2, <3>2, SegmentSame
  <2>2. \A p, q \in 0..9 : p # q => 10 * p + q # 10 * q + p
    OBVIOUS
  <2>3. Key(x, c) # Key(y, c)
    BY <1>1, <1>2, <1>3, <1>5, <2>2
  <2>4. QED
    BY <2>1, <2>3 DEF Remainder
<1>6. QED
  BY <1>4, <1>5

\* The last digit of a number.
LEMMA LastDigit ==
  ASSUME NEW x \in Texts, NEW y \in Texts, Plain(x), Plain(y), Len(y) = Len(x), Len(x) # 0,
         \A i \in 1..(Len(x) - 1) : x[i] = y[i],
         x[Len(x)] \in 0..9, y[Len(x)] \in 0..9
  PROVE  \E r \in 0..96 : /\ Entry!Modulo(x, 97) = (r * 10 + x[Len(x)]) % 97
                          /\ Entry!Modulo(y, 97) = (r * 10 + y[Len(x)]) % 97
<1> DEFINE m == 97
<1>1. m \in Moduli /\ m - 1 = 96
  BY DEF Moduli
<1>2. Len(x) \in Nat /\ Len(x) - 1 \in 0..Len(x) /\ Len(x) \in 1..Len(x)
  BY TextType
<1> HIDE DEF m
<1>3. PICK s : Steps(s, x, m) /\ Entry!Modulo(x, m) = s[Len(x)]
  BY <1>1, BareSteps
<1>4. PICK t : Steps(t, y, m) /\ Entry!Modulo(y, m) = t[Len(y)]
  BY <1>1, BareSteps
<1>5. s[Len(x) - 1] = t[Len(x) - 1]
  BY <1>1, <1>2, <1>3, <1>4, TogetherBefore
<1>6. x[Len(x)] # Entry!Dash /\ y[Len(x)] # Entry!Dash
  BY DEF Entry!Dash
<1>7. /\ s[Len(x)] = Joined(s[Len(x) - 1], x[Len(x)], m)
      /\ t[Len(x)] = Joined(t[Len(x) - 1], y[Len(x)], m)
      /\ s[Len(x) - 1] \in 0..96
  BY <1>1, <1>2, <1>3, <1>4, <1>6 DEF Steps
<1>8. QED
  BY <1>3, <1>4, <1>5, <1>7 DEF Joined, Entry!IsDigit, m

SameStart(x, y, b, c) ==
  \E r \in 0..96 : /\ Remainder(x, 1, b) = (r * 10 + x[b]) % 97
                   /\ Remainder(y, 1, b) = (r * 10 + x[c]) % 97

LEMMA BoundaryDigit ==
  ASSUME NEW x, NEW b, NEW c, b \in 1..Len(x), c = b + 1, Keyed(x, 1, b, c), NEW y,
         Exchanged(x, y, b)
  PROVE  SameStart(x, y, b, c)
<1> DEFINE v == SubSeq(x, 1, b)
           w == SubSeq(y, 1, b)
<1>1. /\ x \in Texts /\ Plain(x) /\ Len(x) \in Nat /\ 1 \in 1..Len(x) /\ b \in 1..Len(x)
      /\ b \in Nat /\ b # 0 /\ b \in 1..b /\ 1..(b - 1) \subseteq 1..b
  BY TextType DEF Keyed
<1>2. y \in Texts /\ Plain(y) /\ Len(y) = Len(x)
  BY <1>1, SlipsBare
<1>3. /\ v \in Texts /\ Len(v) = b - 1 + 1 /\ \A i \in 1..(b - 1 + 1) : v[i] = x[i + 1 - 1]
      /\ w \in Texts /\ Len(w) = b - 1 + 1 /\ \A i \in 1..(b - 1 + 1) : w[i] = y[i + 1 - 1]
  BY <1>1, <1>2, Segment
<1>4. Plain(v) /\ Plain(w)
  BY <1>1, <1>2, SegmentBare
<1> HIDE DEF v, w
<1>5. /\ Len(v) = b /\ \A i \in 1..b : v[i] = x[i]
      /\ Len(w) = b /\ \A i \in 1..b : w[i] = y[i]
  BY <1>1, <1>3
<1>6. /\ x[b] \in 0..9 /\ x[b + 1] \in 0..9 /\ y[b] = x[b + 1]
      /\ \A i \in 1..Len(x) : i \notin {b, b + 1} => y[i] = x[i]
  BY DEF Exchanged
<1>7. \A i \in 1..(b - 1) : v[i] = w[i]
  <2>1. \A i \in 1..(b - 1) : i \in 1..Len(x) /\ i \notin {b, b + 1} /\ i \in 1..b
    BY <1>1
  <2>2. QED
    BY <1>5, <1>6, <2>1
<1>8. PICK r \in 0..96 : /\ Entry!Modulo(v, 97) = (r * 10 + v[Len(v)]) % 97
                         /\ Entry!Modulo(w, 97) = (r * 10 + w[Len(v)]) % 97
  <2>1. /\ v \in Texts /\ w \in Texts /\ Len(w) = Len(v) /\ Len(v) # 0
        /\ \A i \in 1..(Len(v) - 1) : v[i] = w[i]
    BY <1>1, <1>3, <1>5, <1>7
  <2>2. v[Len(v)] \in 0..9 /\ w[Len(v)] \in 0..9
    BY <1>1, <1>5, <1>6
  <2>3. QED
    BY <1>4, <2>1, <2>2, LastDigit
<1>9. QED
  BY <1>1, <1>5, <1>6, <1>8 DEF v, w, Remainder, SameStart

IsRemainder(r, k) == r = k % 97

\* The difference of two remainders is that of the numbers, ...
LEMMA Congruent ==
  ASSUME NEW k \in Int, NEW l \in Int, NEW r, NEW q,
         IsRemainder(r, k), IsRemainder(q, l)
  PROVE  (r - q) % 97 = (k - l) % 97
BY DEF IsRemainder

\* ... and ten times as large one digit on.
LEMMA DifferenceCarried ==
  ASSUME NEW r \in 0..96, NEW q \in 0..96, NEW c \in 0..9
  PROVE  (Joined(q, c, 97) - Joined(r, c, 97)) % 97 = (10 * ((q - r) % 97)) % 97
BY DEF Joined, Entry!IsDigit

\* The first of nine digits.
LEMMA FirstDigit ==
  ASSUME NEW x \in Texts, NEW y \in Texts, Plain(x), Plain(y), Len(x) = 9, Len(y) = 9,
         \A i \in 2..9 : x[i] = y[i] /\ x[i] \in 0..9, x[1] \in 0..9, y[1] \in 0..9
  PROVE  (Entry!Modulo(y, 97) - Entry!Modulo(x, 97)) % 97 = (81 * (y[1] - x[1])) % 97
<1> DEFINE m == 97
           e == y[1] - x[1]
<1>1. m \in Moduli /\ m - 1 = 96
  BY DEF Moduli
<1> HIDE DEF m
<1>2. PICK s : Steps(s, x, m) /\ Entry!Modulo(x, m) = s[Len(x)]
  BY <1>1, BareSteps
<1>3. PICK t : Steps(t, y, m) /\ Entry!Modulo(y, m) = t[Len(y)]
  BY <1>1, BareSteps
<1>4. /\ \A i \in 0..9 : s[i] \in 0..96 /\ t[i] \in 0..96
      /\ s[0] = 0 /\ t[0] = 0
      /\ \A i \in 1..9 : s[i] = Joined(s[i - 1], x[i], m) /\ t[i] = Joined(t[i - 1], y[i], m)
  <2>1. \A i \in 1..9 : x[i] # Entry!Dash /\ y[i] # Entry!Dash
    <3>1. \A c \in 0..9 : c # Entry!Dash
      BY DEF Entry!Dash
    <3>2. \A i \in 1..9 : x[i] \in 0..9 /\ y[i] \in 0..9
      OBVIOUS
    <3>3. QED
      BY <3>1, <3>2
  <2>2. Steps(s, x, m) /\ Steps(t, y, m) /\ Len(x) = 9 /\ Len(y) = 9 /\ m - 1 = 96
    BY <1>1, <1>2, <1>3
  <2>3. QED
    BY ONLY <2>1, <2>2, ZenonT(40) DEF Steps
<1> DEFINE D(i) == (t[i] - s[i]) % 97
<1>5. ASSUME NEW i \in 2..9 PROVE D(i) = (10 * D(i - 1)) % 97
  <2>1. x[i] = y[i] /\ x[i] \in 0..9 /\ i \in 1..9 /\ i - 1 \in 0..9
    OBVIOUS
  <2>2. s[i - 1] \in 0..96 /\ t[i - 1] \in 0..96
    BY <1>4, <2>1
  <2>3. s[i] = Joined(s[i - 1], x[i], 97) /\ t[i] = Joined(t[i - 1], x[i], 97)
    BY <1>4, <2>1 DEF m
  <2>4. (Joined(t[i - 1], x[i], 97) - Joined(s[i - 1], x[i], 97)) % 97
          = (10 * ((t[i - 1] - s[i - 1]) % 97)) % 97
    <3>1. ASSUME NEW r \in 0..96, NEW q \in 0..96
          PROVE  (Joined(q, x[i], 97) - Joined(r, x[i], 97)) % 97 = (10 * ((q - r) % 97)) % 97
      BY <2>1, DifferenceCarried, ZenonT(40)
    <3>2. QED
      BY <2>2, <3>1, ZenonT(40)
  <2>5. QED
    BY <2>3, <2>4, Zenon
<1>6. e \in -9..9 /\ D(1) = e % 97
  <2>1. s[1] = Joined(s[1 - 1], x[1], m) /\ t[1] = Joined(t[1 - 1], y[1], m)
    BY <1>4
  <2>2. s[1] = x[1] /\ t[1] = y[1]
    BY <1>4, <2>1 DEF m, Joined, Entry!IsDigit
  <2>3. QED
    BY <2>2
<1> HIDE DEF D, e
<1>7. /\ D(2) = (10 * D(1)) % 97 /\ D(3) = (10 * D(2)) % 97 /\ D(4) = (10 * D(3)) % 97
      /\ D(5) = (10 * D(4)) % 97 /\ D(6) = (10 * D(5)) % 97 /\ D(7) = (10 * D(6)) % 97
      /\ D(8) = (10 * D(7)) % 97 /\ D(9) = (10 * D(8)) % 97
  <2>1. /\ D(2) = (10 * D(2 - 1)) % 97 /\ D(3) = (10 * D(3 - 1)) % 97
        /\ D(4) = (10 * D(4 - 1)) % 97 /\ D(5) = (10 * D(5 - 1)) % 97
        /\ D(6) = (10 * D(6 - 1)) % 97 /\ D(7) = (10 * D(7 - 1)) % 97
        /\ D(8) = (10 * D(8 - 1)) % 97 /\ D(9) = (10 * D(9 - 1)) % 97
    BY <1>5
  <2>2. QED
    BY <2>1
<1>8. D(2) = (10 * e) % 97
  BY <1>6, <1>7
<1>9. D(3) = (3 * e) % 97
  BY <1>6, <1>7, <1>8
<1>10. D(4) = (30 * e) % 97
  BY <1>6, <1>7, <1>9
<1>11. D(5) = (9 * e) % 97
  BY <1>6, <1>7, <1>10
<1>12. D(6) = (90 * e) % 97
  BY <1>6, <1>7, <1>11
<1>13. D(7) = (27 * e) % 97
  BY <1>6, <1>7, <1>12
<1>14. D(8) = (76 * e) % 97
  BY <1>6, <1>7, <1>13
<1>15. D(9) = (81 * e) % 97
  BY <1>6, <1>7, <1>14
<1>16. QED
  BY <1>2, <1>3, <1>15 DEF D, e, m

LEMMA KeyedExchanged ==
  ASSUME NEW x \in Texts, NEW y, NEW j, Exchanged(x, y, j)
  PROVE  /\ Entry!FrTvaIntra(x) => ~Entry!FrTvaIntra(y)
         /\ Entry!BeVat(x) => ~Entry!BeVat(y)
         /\ Entry!BeOgm(x) => ~Entry!BeOgm(y)
<1>1. y \in Texts /\ j \in 1..Len(x) /\ j + 1 \in 1..Len(x)
  BY DEF Exchanged
<1>2. ASSUME NEW a, NEW b, NEW c, Keyed(x, a, b, c), Keyed(y, a, b, c)
      PROVE  /\ Remainder(x, a, b) \in 0..96 /\ Remainder(y, a, b) \in 0..96
             /\ (j \in a..b /\ j + 1 \in a..b) \/ j = c
                  => ~(Remainder(x, a, b) = Remainder(y, a, b) <=> Key(x, c) = Key(y, c))
  <2>1. Remainder(x, a, b) \in 0..96 /\ Remainder(y, a, b) \in 0..96
    BY <1>2, RemainderType DEF Keyed
  <2>2. QED
    BY <1>2, <2>1, KeyExchanged
<1>3. Entry!FrTvaIntra(x) => ~Entry!FrTvaIntra(y)
  <2> SUFFICES ASSUME Entry!FrTvaIntra(x), Entry!FrTvaIntra(y) PROVE FALSE
    OBVIOUS
  <2> DEFINE r == Remainder(x, 3, 11)
             q == Remainder(y, 3, 11)
  <2>1. Keyed(x, 3, 11, 1) /\ Keyed(y, 3, 11, 1)
    BY <1>1, TvaKeyed
  <2>2. /\ r \in 0..96 /\ q \in 0..96
        /\ (j \in 3..11 /\ j + 1 \in 3..11) \/ j = 1 => ~(r = q <=> Key(x, 1) = Key(y, 1))
    BY <1>2, <2>1
  <2>3. Key(x, 1) = (12 + 3 * r) % 97 /\ Key(y, 1) = (12 + 3 * q) % 97
    BY <1>1, TvaKeyed
  <2>4. CASE j # 2
    <3>1. (j \in 3..11 /\ j + 1 \in 3..11) \/ j = 1
      BY <1>1, <2>4 DEF Entry!FrTvaIntra
    <3> HIDE DEF r, q
    <3>2. QED
      BY <2>2, <2>3, <3>1, KeysDetermined
  <2>5. CASE j = 2
    <3>1. Len(x) = 11 /\ Len(y) = 11 /\ Entry!AllDigits(x) /\ Entry!AllDigits(y)
      BY DEF Entry!FrTvaIntra
    <3>2. \A i \in 1..11 : x[i] \in 0..9 /\ y[i] \in 0..9
      BY <1>1, <3>1, DigitsOf
    <3>3. /\ y[2] = x[3] /\ y[3] = x[2] /\ x[2] # x[3]
          /\ \A i \in 1..11 : i \notin {2, 3} => y[i] = x[i]
      BY <2>5, <3>1 DEF Exchanged
    <3>4. (q - r) % 97 = (81 * (y[3] - x[3])) % 97
      <4> DEFINE v == SubSeq(x, 3, 11)
                 w == SubSeq(y, 3, 11)
      <4>1. /\ v \in Texts /\ Len(v) = 11 - 3 + 1 /\ \A i \in 1..(11 - 3 + 1) : v[i] = x[i + 3 - 1]
            /\ w \in Texts /\ Len(w) = 11 - 3 + 1 /\ \A i \in 1..(11 - 3 + 1) : w[i] = y[i + 3 - 1]
        <5>1. 3 \in 1..Len(x) /\ 11 \in 3..Len(x) /\ 3 \in 1..Len(y) /\ 11 \in 3..Len(y)
          BY <3>1
        <5>2. QED
          BY <1>1, <5>1, Segment, Zenon
      <4> HIDE DEF v, w
      <4>2. Len(v) = 9 /\ Len(w) = 9 /\ \A i \in 1..9 : v[i] = x[i + 2] /\ w[i] = y[i + 2]
        BY <4>1
      <4>3. \A i \in 1..9 : i + 2 \in 1..11 /\ (i # 1 => i + 2 \notin {2, 3})
        OBVIOUS
      <4>4. \A i \in 1..9 : v[i] \in 0..9 /\ w[i] \in 0..9 /\ (i # 1 => v[i] = w[i])
        BY <3>2, <3>3, <4>2, <4>3
      <4>5. /\ Plain(v) /\ Plain(w) /\ v[1] = x[3] /\ w[1] = y[3]
            /\ \A i \in 2..9 : v[i] = w[i] /\ v[i] \in 0..9
        BY <4>2, <4>4 DEF Plain
      <4>6. (Entry!Modulo(w, 97) - Entry!Modulo(v, 97)) % 97 = (81 * (w[1] - v[1])) % 97
        BY <4>1, <4>2, <4>4, <4>5, FirstDigit
      <4>7. QED
        BY <4>5, <4>6 DEF v, w, Remainder
    <3>5. Key(x, 1) = 10 * x[1] + x[2] /\ Key(y, 1) = 10 * y[1] + y[2]
      <4>1. Key(x, 1) = 10 * x[1] + x[1 + 1] /\ Key(y, 1) = 10 * y[1] + y[1 + 1]
        BY <2>1, KeyIsValue
      <4>2. QED
        BY <4>1
    <3> HIDE DEF r, q
    <3>6. y[1] = x[1] /\ x[1] \in 0..9 /\ x[2] \in 0..9 /\ x[3] \in 0..9
      BY <3>2, <3>3
    <3>7. \A c, d \in 0..9 : (3 * ((81 * (c - d)) % 97)) % 97 = (d - c) % 97 => c = d
      OBVIOUS
    <3>8. (3 * ((q - r) % 97)) % 97 = (x[3] - x[2]) % 97
      <4>1. (((12 + 3 * q) % 97) - ((12 + 3 * r) % 97)) % 97 = (12 + 3 * q - (12 + 3 * r)) % 97
        BY <2>2
      <4>2. ((12 + 3 * q) % 97) - ((12 + 3 * r) % 97) = x[3] - x[2]
        <5> DEFINE k == (12 + 3 * q) % 97
                   l == (12 + 3 * r) % 97
        <5>1. k = 10 * x[1] + x[3] /\ l = 10 * x[1] + x[2]
          BY <2>3, <3>3, <3>5, <3>6
        <5> HIDE DEF k, l
        <5>2. \A a, c, d \in 0..9 : (10 * a + d) - (10 * a + c) = d - c
          OBVIOUS
        <5>3. (10 * x[1] + x[3]) - (10 * x[1] + x[2]) = x[3] - x[2]
          BY <3>6, <5>2, Zenon
        <5>4. k - l = x[3] - x[2]
          BY <5>1, <5>3, Zenon
        <5>5. QED
          BY <5>4 DEF k, l
      <4>3. (12 + 3 * q - (12 + 3 * r)) % 97 = (3 * ((q - r) % 97)) % 97
        BY <2>2
      <4>4. QED
        BY <4>1, <4>2, <4>3
    <3>9. QED
      BY <3>3, <3>4, <3>6, <3>7, <3>8
  <2>6. QED
    BY <2>4, <2>5
<1>4. Entry!BeVat(x) => ~Entry!BeVat(y)
  <2> SUFFICES ASSUME Entry!BeVat(x), Entry!BeVat(y) PROVE FALSE
    OBVIOUS
  <2> DEFINE r == Remainder(x, 1, 8)
             q == Remainder(y, 1, 8)
  <2>1. Keyed(x, 1, 8, 9) /\ Keyed(y, 1, 8, 9)
    BY <1>1, VatKeyed
  <2>2. /\ r \in 0..96 /\ q \in 0..96
        /\ (j \in 1..8 /\ j + 1 \in 1..8) \/ j = 9 => ~(r = q <=> Key(x, 9) = Key(y, 9))
    BY <1>2, <2>1
  <2>3. Key(x, 9) = 97 - r /\ Key(y, 9) = 97 - q
    BY <1>1, VatKeyed
  <2>4. Len(x) = 10 /\ Len(y) = 10
    BY DEF Entry!BeVat
  <2>5. CASE j # 8
    <3>1. (j \in 1..8 /\ j + 1 \in 1..8) \/ j = 9
      BY <1>1, <2>4, <2>5
    <3> HIDE DEF r, q
    <3>2. QED
      BY <2>2, <2>3, <3>1, KeysDetermined
  <2>6. CASE j = 8
    <3>1. 8 \in 1..Len(x) /\ Keyed(x, 1, 8, 9) /\ Exchanged(x, y, 8)
      BY <2>1, <2>4, <2>6
    <3>2. PICK p \in 0..96 : r = (p * 10 + x[8]) % 97 /\ q = (p * 10 + x[9]) % 97
      <4>1. SameStart(x, y, 8, 9)
        BY <3>1, BoundaryDigit
      <4>2. QED
        BY <4>1, Zenon DEF SameStart
    <3>3. Key(x, 9) = 10 * x[9] + x[10] /\ Key(y, 9) = 10 * y[9] + y[10]
      <4>1. Key(x, 9) = 10 * x[9] + x[9 + 1] /\ Key(y, 9) = 10 * y[9] + y[9 + 1]
        BY <2>1, KeyIsValue
      <4>2. QED
        BY <4>1
    <3> HIDE DEF r, q
    <3>4. /\ x[8] \in 0..9 /\ x[9] \in 0..9 /\ x[8] # x[9] /\ y[9] = x[8] /\ y[10] = x[10]
          /\ x[10] \in 0..9
      BY <2>1, <2>4, <2>6 DEF Exchanged, Keyed
    <3>5. IsRemainder(r, p * 10 + x[8]) /\ IsRemainder(q, p * 10 + x[9])
      BY <3>2 DEF IsRemainder
    <3>6. 10 * x[9] + x[10] = 97 - r /\ 10 * x[8] + x[10] = 97 - q
      BY <2>3, <3>3, <3>4
    <3>7. (q - r) % 97 = (x[9] - x[8]) % 97
      <4> DEFINE k == p * 10 + x[9]
                 l == p * 10 + x[8]
      <4>1. k \in Int /\ l \in Int /\ k - l = x[9] - x[8]
        BY <3>4
      <4>2. IsRemainder(q, k) /\ IsRemainder(r, l)
        BY <3>5
      <4> HIDE DEF k, l
      <4>3. QED
        BY <4>1, <4>2, Congruent
    <3>8. q - r = 10 * (x[9] - x[8])
      BY <2>2, <3>4, <3>6, SMTT(30)
    <3>9. \A c, d \in 0..9 : (10 * (c - d)) % 97 = (c - d) % 97 => c = d
      OBVIOUS
    <3>10. QED
      BY <3>4, <3>7, <3>8, <3>9
  <2>7. QED
    BY <2>5, <2>6
<1>5. Entry!BeOgm(x) => ~Entry!BeOgm(y)
  <2> SUFFICES ASSUME Entry!BeOgm(x), Entry!BeOgm(y) PROVE FALSE
    OBVIOUS
  <2> DEFINE r == Remainder(x, 1, 10)
             q == Remainder(y, 1, 10)
  <2>1. Keyed(x, 1, 10, 11) /\ Keyed(y, 1, 10, 11)
    BY <1>1, OgmKeyed
  <2>2. /\ r \in 0..96 /\ q \in 0..96
        /\ (j \in 1..10 /\ j + 1 \in 1..10) \/ j = 11 => ~(r = q <=> Key(x, 11) = Key(y, 11))
    BY <1>2, <2>1
  <2>3. /\ Key(x, 11) = (IF r = 0 THEN 97 ELSE r)
        /\ Key(y, 11) = (IF q = 0 THEN 97 ELSE q)
    BY <1>1, OgmKeyed
  <2>4. Len(x) = 12 /\ Len(y) = 12
    BY DEF Entry!BeOgm
  <2>5. CASE j # 10
    <3>1. (j \in 1..10 /\ j + 1 \in 1..10) \/ j = 11
      BY <1>1, <2>4, <2>5
    <3> HIDE DEF r, q
    <3>2. QED
      BY <2>2, <2>3, <3>1, KeysDetermined
  <2>6. CASE j = 10
    <3>1. 10 \in 1..Len(x) /\ Keyed(x, 1, 10, 11) /\ Exchanged(x, y, 10)
      BY <2>1, <2>4, <2>6
    <3>2. PICK p \in 0..96 : r = (p * 10 + x[10]) % 97 /\ q = (p * 10 + x[11]) % 97
      <4>1. SameStart(x, y, 10, 11)
        BY <3>1, BoundaryDigit
      <4>2. QED
        BY <4>1, Zenon DEF SameStart
    <3>3. Key(x, 11) = 10 * x[11] + x[12] /\ Key(y, 11) = 10 * y[11] + y[12]
      <4>1. Key(x, 11) = 10 * x[11] + x[11 + 1] /\ Key(y, 11) = 10 * y[11] + y[11 + 1]
        BY <2>1, KeyIsValue
      <4>2. QED
        BY <4>1
    <3> HIDE DEF r, q
    <3>4. /\ x[10] \in 0..9 /\ x[11] \in 0..9 /\ x[10] # x[11] /\ y[11] = x[10]
          /\ y[12] = x[12] /\ x[12] \in 0..9
      BY <2>1, <2>4, <2>6 DEF Exchanged, Keyed
    <3>5. IsRemainder(r, p * 10 + x[10]) /\ IsRemainder(q, p * 10 + x[11])
      BY <3>2 DEF IsRemainder
    <3>6. /\ 10 * x[11] + x[12] = (IF r = 0 THEN 97 ELSE r)
          /\ 10 * x[10] + x[12] = (IF q = 0 THEN 97 ELSE q)
      BY <2>3, <3>3, <3>4
    <3>7. IsRemainder(r, 10 * x[11] + x[12]) /\ IsRemainder(q, 10 * x[10] + x[12])
      BY <2>2, <3>6 DEF IsRemainder
    <3>8. (q - r) % 97 = (x[11] - x[10]) % 97
      <4> DEFINE k == p * 10 + x[11]
                 l == p * 10 + x[10]
      <4>1. k \in Int /\ l \in Int /\ k - l = x[11] - x[10]
        BY <3>4
      <4>2. IsRemainder(q, k) /\ IsRemainder(r, l)
        BY <3>5
      <4> HIDE DEF k, l
      <4>3. QED
        BY <4>1, <4>2, Congruent
    <3>9. (q - r) % 97 = (10 * (x[10] - x[11])) % 97
      <4> DEFINE k == 10 * x[10] + x[12]
                 l == 10 * x[11] + x[12]
      <4>1. k \in Int /\ l \in Int /\ k - l = 10 * (x[10] - x[11])
        <5>1. x[10] \in 0..9 /\ x[11] \in 0..9 /\ x[12] \in 0..9
          BY <3>4
        <5>2. \A c, d, e \in 0..9 : (10 * c + e) - (10 * d + e) = 10 * (c - d)
          OBVIOUS
        <5>3. k \in Int /\ l \in Int
          BY <5>1
        <5>4. QED
          BY <5>1, <5>2, <5>3, Zenon
      <4>2. IsRemainder(q, k) /\ IsRemainder(r, l)
        BY <3>7
      <4> HIDE DEF k, l
      <4>3. QED
        BY <4>1, <4>2, Congruent
    <3>10. \A c, d \in 0..9 : (10 * (c - d)) % 97 = (d - c) % 97 => c = d
      OBVIOUS
    <3>11. QED
      BY <3>4, <3>8, <3>9, <3>10
  <2>7. QED
    BY <2>5, <2>6
<1>6. QED
  BY <1>3, <1>4, <1>5

-----------------------------------------------------------------------------
(* Spellings *)

\* What is issued.
LEMMA BareText ==
  ASSUME NEW s, NEW x, Entry!IsBare(s, x)
  PROVE  /\ x \in Texts /\ (s # "de_leitweg" => Plain(x))
         /\ (s \in Entry!DigitSchemes => Entry!AllDigits(x) /\ \A i \in 1..Len(x) : x[i] \in 0..9)
<1>1. ASSUME NEW T, x \in Seq(T), T \subseteq 0..40
      PROVE  x \in Texts /\ \A i \in 1..Len(x) : x[i] \in T
  <2>1. \A i \in 1..Len(x) : x[i] \in T
    BY <1>1, ElementOfSeq
  <2>2. Len(x) \in Nat /\ x = [i \in 1..Len(x) |-> x[i]]
    BY <1>1, LenProperties
  <2>3. \A i \in 1..Len(x) : x[i] \in 0..40
    BY <1>1, <2>1
  <2>4. x \in [1..Len(x) -> 0..40]
    BY <2>2, <2>3
  <2>5. x \in Seq(0..40)
    BY <2>2, <2>4, SeqDef
  <2>6. QED
    BY <2>1, <2>5 DEF Texts
<1>2. x \in Texts
  <2>1. (0..35) \cup {Entry!Dash} \subseteq 0..40 /\ (0..35) \cup {} \subseteq 0..40
    BY DEF Entry!Dash
  <2>2. QED
    BY <1>1, <2>1 DEF Entry!IsBare
<1>3. s # "de_leitweg" => Plain(x)
  <2> SUFFICES ASSUME s # "de_leitweg" PROVE Plain(x)
    OBVIOUS
  <2>1. x \in Seq(0..35) /\ 0..35 \subseteq 0..40
    <3>1. (0..35) \cup {} = 0..35 /\ 0..35 \subseteq 0..40
      OBVIOUS
    <3>2. QED
      BY <3>1 DEF Entry!IsBare
  <2>2. QED
    BY <1>1, <2>1 DEF Plain
<1>4. QED
  BY <1>2, <1>3, DigitsOf DEF Entry!IsBare

Separators == {Entry!Space, Entry!Dash, Entry!Dot, Entry!Slash, Entry!Plus}

LEMMA Separate ==
  /\ Separators \subseteq 0..40
  /\ \A c \in Separators : c \notin 0..35
  /\ \A S \in SUBSET Separators : 0..35 \subseteq Entry!Characters \ S
  /\ \A S \in SUBSET Separators : \A c \in S : c \notin Entry!Characters \ S
  /\ \A c \in Separators : c \notin 0..9
BY DEF Separators, Entry!Space, Entry!Dash, Entry!Dot, Entry!Slash, Entry!Plus,
       Entry!Characters

LEMMA BareKept ==
  ASSUME NEW x \in Texts, Plain(x)
  PROVE  /\ \A S \in SUBSET Separators : Entry!Without(x, S) = x
         /\ Entry!AllDigits(x) => Entry!OnlyDigits(x) = x
         /\ Entry!Strip(x) = x
<1>1. ASSUME NEW S \in SUBSET Separators PROVE Entry!Without(x, S) = x
  <2>1. \A i \in 1..Len(x) : x[i] \in Entry!Characters \ S
    BY Separate DEF Plain
  <2>2. QED
    BY <2>1, KeptWhole DEF Entry!Without
<1>2. ASSUME Entry!AllDigits(x) PROVE Entry!OnlyDigits(x) = x
  <2>1. \A i \in 1..Len(x) : x[i] \in 0..9
    BY <1>2, DigitsOf
  <2>2. QED
    BY <2>1, KeptWhole DEF Entry!OnlyDigits
<1>3. Entry!Strip(x) = x
  <2>1. CASE x = <<>>
    <3>1. {i \in DOMAIN x : x[i] # Entry!Space} = {}
      BY <2>1
    <3>2. QED
      BY <2>1, <3>1, Zenon DEF Entry!Strip
  <2>2. CASE x # <<>>
    <3>1. \A i \in 1..Len(x) : x[i] # Entry!Space
      <4>1. Entry!Space \notin 0..35
        BY DEF Entry!Space
      <4>2. QED
        BY <4>1 DEF Plain
    <3>2. QED
      BY <2>2, <3>1, Stripped
  <2>3. QED
    BY <2>1, <2>2
<1>4. QED
  BY <1>1, <1>2, <1>3

\* An identifier is in its normal form, ...
LEMMA NormalBare ==
  ASSUME NEW s \in Entry!Schemes, NEW x, Entry!IsBare(s, x)
  PROVE  Entry!Normal(s, x) = x
<1>1. CASE s = "de_leitweg"
  BY <1>1 DEF Entry!Normal
<1>2. CASE s # "de_leitweg"
  <2>1. x \in Texts /\ Plain(x) /\ (s \in Entry!DigitSchemes => Entry!AllDigits(x))
    BY <1>2, BareText
  <2>2. /\ \A S \in SUBSET Separators : Entry!Without(x, S) = x
        /\ Entry!AllDigits(x) => Entry!OnlyDigits(x) = x
        /\ Entry!Strip(x) = x
    BY <2>1, BareKept, SMTT(30)
  <2>3. ASSUME Entry!AllDigits(x)
        PROVE  \A a, b \in 10..35 : Entry!Unprefixed(x, <<a, b>>) = x
    BY <2>1, <2>3, PrefixGone, Zenon
  <2>4. /\ {Entry!Space} \in SUBSET Separators
        /\ {Entry!Dot, Entry!Dash, Entry!Slash} \in SUBSET Separators
        /\ {Entry!Dot, Entry!Space} \in SUBSET Separators
        /\ {Entry!Plus, Entry!Slash, Entry!Space, Entry!Dot, Entry!Dash} \in SUBSET Separators
    BY DEF Separators
  <2>5. /\ Entry!Without(x, {Entry!Space}) = x
        /\ Entry!Without(x, {Entry!Dot, Entry!Dash, Entry!Slash}) = x
        /\ Entry!Without(x, {Entry!Dot, Entry!Space}) = x
        /\ Entry!Without(x, {Entry!Plus, Entry!Slash, Entry!Space, Entry!Dot, Entry!Dash}) = x
    BY <2>2, <2>4, Zenon
  <2>6. ASSUME s \in Entry!DigitSchemes
        PROVE  /\ Entry!OnlyDigits(x) = x /\ Entry!Unprefixed(x, <<15, 27>>) = x
               /\ Entry!Unprefixed(x, <<13, 14>>) = x /\ Entry!Unprefixed(x, <<11, 14>>) = x
    <3>1. 15 \in 10..35 /\ 27 \in 10..35 /\ 13 \in 10..35 /\ 14 \in 10..35 /\ 11 \in 10..35
      OBVIOUS
    <3>2. QED
      BY <2>1, <2>2, <2>3, <2>6, <3>1, Zenon
  <2>7. CASE s \in Entry!DigitSchemes
    BY <1>2, <2>2, <2>5, <2>6, <2>7 DEF Entry!Normal, Entry!DigitSchemes
  <2>8. CASE s \notin Entry!DigitSchemes
    BY <1>2, <2>2, <2>5, <2>8 DEF Entry!Normal, Entry!DigitSchemes
  <2>9. QED
    BY <2>7, <2>8
<1>3. QED
  BY <1>1, <1>2

LEMMA Concatenated ==
  ASSUME NEW u \in Texts, NEW v \in Texts
  PROVE  /\ u \o v \in Texts /\ Len(u \o v) = Len(u) + Len(v)
         /\ \A i \in 1..Len(u) : (u \o v)[i] = u[i]
         /\ \A i \in 1..Len(v) : (u \o v)[Len(u) + i] = v[i]
BY DEF Texts

\* ... and separators, wherever they come in, leave it as it is.
LEMMA GroupedKept ==
  ASSUME NEW x \in Texts, NEW n \in 0..Len(x), NEW c \in 0..40, NEW characters,
         c \notin characters
  PROVE  /\ SubSeq(x, 1, n) \o <<c>> \o SubSeq(x, n + 1, Len(x)) \in Texts
         /\ Entry!Kept(SubSeq(x, 1, n) \o <<c>> \o SubSeq(x, n + 1, Len(x)), characters)
              = Entry!Kept(x, characters)
<1> DEFINE y == SubSeq(x, 1, n) \o <<c>> \o SubSeq(x, n + 1, Len(x))
<1>1. x \in Seq(0..40) /\ Len(x) \in Nat
  BY TextType
<1>2. /\ y \in Seq(0..40) /\ Len(y) = Len(x) + 1 /\ y[n + 1] = c
      /\ \A i \in 1..n : y[i] = x[i]
      /\ \A i \in (n + 1)..Len(x) : y[i + 1] = x[i]
  <2> DEFINE u == SubSeq(x, 1, n)
             v == SubSeq(x, n + 1, Len(x))
             w == u \o <<c>>
  <2>1. u \in Texts /\ Len(u) = n /\ \A i \in 1..n : u[i] = x[i]
    <3>1. 1 \in Int /\ n \in Int /\ n - 1 + 1 = n /\ (1 <= n \/ n = 0)
      BY <1>1
    <3>2. \A i \in 1..n : x[i] \in 0..40
      BY <1>1, TextType
    <3>3. /\ u \in Seq(0..40) /\ Len(u) = IF 1 <= n THEN n - 1 + 1 ELSE 0
          /\ \A i \in 1..(n - 1 + 1) : u[i] = x[1 + i - 1]
      BY <3>1, <3>2, SubSeqProperties
    <3> HIDE DEF u
    <3>4. \A i \in 1..n : 1 + i - 1 = i
      OBVIOUS
    <3>5. Len(u) = n
      BY <3>1, <3>3, SMTT(30)
    <3>6. QED
      BY <3>1, <3>3, <3>4, <3>5 DEF Texts
  <2>2. /\ v \in Texts /\ Len(v) = Len(x) - n
        /\ \A i \in 1..(Len(x) - n) : v[i] = x[n + i]
    <3>1. /\ n + 1 \in Int /\ Len(x) \in Int /\ \A i \in (n + 1)..Len(x) : x[i] \in 0..40
          /\ Len(x) - (n + 1) + 1 = Len(x) - n
      <4>1. \A i \in (n + 1)..Len(x) : i \in 1..Len(x)
        BY <1>1
      <4>2. QED
        BY <1>1, <4>1, TextType
    <3>2. /\ v \in Seq(0..40)
          /\ Len(v) = IF n + 1 <= Len(x) THEN Len(x) - (n + 1) + 1 ELSE 0
          /\ \A i \in 1..(Len(x) - (n + 1) + 1) : v[i] = x[n + 1 + i - 1]
      BY <3>1, SubSeqProperties
    <3> HIDE DEF v
    <3>3. \A i \in 1..(Len(x) - n) : n + 1 + i - 1 = n + i
      BY <1>1
    <3>4. Len(v) = Len(x) - n
      BY <1>1, <3>2
    <3>5. QED
      BY <3>1, <3>2, <3>3, <3>4, Zenon DEF Texts
  <2>3. <<c>> \in Texts /\ Len(<<c>>) = 1 /\ <<c>>[1] = c
    BY DEF Texts
  <2> HIDE DEF u, v
  <2>4. /\ w \in Texts /\ Len(w) = n + 1 /\ w[n + 1] = c /\ \A i \in 1..n : w[i] = x[i]
    BY <2>1, <2>3, Concatenated
  <2> HIDE DEF w
  <2>5. /\ w \o v \in Texts /\ Len(w \o v) = Len(x) + 1
        /\ \A i \in 1..(n + 1) : (w \o v)[i] = w[i]
        /\ \A i \in 1..(Len(x) - n) : (w \o v)[n + 1 + i] = x[n + i]
    BY <1>1, <2>2, <2>4, Concatenated
  <2>6. y = w \o v
    BY DEF w, u, v
  <2> HIDE DEF y
  <2>7. \A i \in 1..n : i \in 1..(n + 1)
    OBVIOUS
  <2>8. ASSUME NEW i \in (n + 1)..Len(x) PROVE y[i + 1] = x[i]
    <3>1. i - n \in 1..(Len(x) - n) /\ n + 1 + (i - n) = i + 1 /\ n + (i - n) = i
      BY <1>1
    <3>2. QED
      BY <2>5, <2>6, <3>1
  <2>9. n + 1 \in 1..(n + 1)
    OBVIOUS
  <2>10. QED
    BY <2>4, <2>5, <2>6, <2>7, <2>8, <2>9 DEF Texts
<1> HIDE DEF y
<1>3. y \in Texts
  BY <1>2 DEF Texts
<1>4. Entry!Kept(y, characters) = Entry!Kept(x, characters)
  BY <1>2, <1>3, InsertSkipped
<1>5. QED
  BY <1>3, <1>4 DEF y

LEMMA EndsKept ==
  ASSUME NEW x \in Texts, NEW c \in 0..40, NEW characters, c \notin characters
  PROVE  /\ <<c>> \o x \in Texts /\ Entry!Kept(<<c>> \o x, characters) = Entry!Kept(x, characters)
         /\ x \o <<c>> \in Texts /\ Entry!Kept(x \o <<c>>, characters) = Entry!Kept(x, characters)
<1> DEFINE y == <<c>> \o x
           z == x \o <<c>>
<1>1. x \in Seq(0..40) /\ Len(x) \in Nat
  BY TextType
<1>2. /\ y \in Seq(0..40) /\ Len(y) = Len(x) + 1 /\ y[0 + 1] = c
      /\ \A i \in (0 + 1)..Len(x) : y[i + 1] = x[i]
      /\ z \in Seq(0..40) /\ Len(z) = Len(x) + 1 /\ z[Len(x) + 1] = c
      /\ \A i \in 1..Len(x) : z[i] = x[i]
  BY <1>1
<1> HIDE DEF y, z
<1>3. y \in Texts /\ z \in Texts
  BY <1>2 DEF Texts
<1>4. Entry!Kept(y, characters) = Entry!Kept(x, characters)
  <2>1. ASSUME NEW n, n = 0 PROVE n \in 0..Len(x) /\ y[n + 1] \notin characters
               /\ (\A i \in 1..n : y[i] = x[i]) /\ (\A i \in (n + 1)..Len(x) : y[i + 1] = x[i])
    BY <1>1, <1>2, <2>1
  <2>2. QED
    BY <1>2, <1>3, <2>1, InsertSkipped
<1>5. Entry!Kept(z, characters) = Entry!Kept(x, characters)
  <2>1. Len(x) \in 0..Len(x) /\ \A i \in (Len(x) + 1)..Len(x) : z[i + 1] = x[i]
    BY <1>1
  <2>2. QED
    BY <1>2, <1>3, <2>1, InsertSkipped
<1>6. QED
  BY <1>3, <1>4, <1>5 DEF y, z

\* What conforms, scheme by scheme.
LEMMA Conforming ==
  ASSUME NEW x
  PROVE  /\ Entry!Conforms("it_partita_iva", x) = Entry!ItPartitaIva(x)
         /\ Entry!Conforms("it_codice_fiscale", x) = Entry!ItCodiceFiscale(x)
         /\ Entry!Conforms("fr_siren", x) = Entry!FrSiren(x)
         /\ Entry!Conforms("fr_siret", x) = Entry!FrSiret(x)
         /\ Entry!Conforms("fr_tva_intra", x) = Entry!FrTvaIntra(x)
         /\ Entry!Conforms("br_cpf", x) = Entry!BrCpf(x)
         /\ Entry!Conforms("br_cnpj", x) = Entry!BrCnpj(x)
         /\ Entry!Conforms("pl_nip", x) = Entry!PlNip(x)
         /\ Entry!Conforms("pl_regon", x) = Entry!PlRegon(x)
         /\ Entry!Conforms("sg_uen", x) = Entry!SgUen(x)
         /\ Entry!Conforms("de_vat", x) = Entry!DeVat(x)
         /\ Entry!Conforms("be_vat", x) = Entry!BeVat(x)
         /\ Entry!Conforms("es_nif", x) = Entry!EsNif(x)
         /\ Entry!Conforms("es_nie", x) = Entry!EsNie(x)
         /\ Entry!Conforms("es_cif", x) = Entry!EsCif(x)
         /\ Entry!Conforms("de_leitweg", x) = Entry!DeLeitweg(x)
         /\ Entry!Conforms("be_ogm", x) = Entry!BeOgm(x)
         /\ Entry!Conforms("ae_trn", x) = Entry!AeTrn(x)
         /\ Entry!Conforms("in_gstin", x) = Entry!InGstin(x)
<1>1. Entry!Conforms("it_partita_iva", x) = Entry!ItPartitaIva(x)
  BY Zenon DEF Entry!Conforms
<1>2. Entry!Conforms("it_codice_fiscale", x) = Entry!ItCodiceFiscale(x)
  BY Zenon DEF Entry!Conforms
<1>3. Entry!Conforms("fr_siren", x) = Entry!FrSiren(x)
  BY Zenon DEF Entry!Conforms
<1>4. Entry!Conforms("fr_siret", x) = Entry!FrSiret(x)
  BY Zenon DEF Entry!Conforms
<1>5. Entry!Conforms("fr_tva_intra", x) = Entry!FrTvaIntra(x)
  BY Zenon DEF Entry!Conforms
<1>6. Entry!Conforms("br_cpf", x) = Entry!BrCpf(x)
  BY Zenon DEF Entry!Conforms
<1>7. Entry!Conforms("br_cnpj", x) = Entry!BrCnpj(x)
  BY Zenon DEF Entry!Conforms
<1>8. Entry!Conforms("pl_nip", x) = Entry!PlNip(x)
  BY Zenon DEF Entry!Conforms
<1>9. Entry!Conforms("pl_regon", x) = Entry!PlRegon(x)
  BY Zenon DEF Entry!Conforms
<1>10. Entry!Conforms("sg_uen", x) = Entry!SgUen(x)
  BY Zenon DEF Entry!Conforms
<1>11. Entry!Conforms("de_vat", x) = Entry!DeVat(x)
  BY Zenon DEF Entry!Conforms
<1>12. Entry!Conforms("be_vat", x) = Entry!BeVat(x)
  BY Zenon DEF Entry!Conforms
<1>13. Entry!Conforms("es_nif", x) = Entry!EsNif(x)
  BY Zenon DEF Entry!Conforms
<1>14. Entry!Conforms("es_nie", x) = Entry!EsNie(x)
  BY Zenon DEF Entry!Conforms
<1>15. Entry!Conforms("es_cif", x) = Entry!EsCif(x)
  BY Zenon DEF Entry!Conforms
<1>16. Entry!Conforms("de_leitweg", x) = Entry!DeLeitweg(x)
  BY Zenon DEF Entry!Conforms
<1>17. Entry!Conforms("be_ogm", x) = Entry!BeOgm(x)
  BY Zenon DEF Entry!Conforms
<1>18. Entry!Conforms("ae_trn", x) = Entry!AeTrn(x)
  BY Zenon DEF Entry!Conforms
<1>19. Entry!Conforms("in_gstin", x) = Entry!InGstin(x)
  BY Zenon DEF Entry!Conforms
<1>20. QED
  BY <1>1, <1>2, <1>3, <1>4, <1>5, <1>6, <1>7, <1>8, <1>9, <1>10,
     <1>11, <1>12, <1>13, <1>14, <1>15, <1>16, <1>17, <1>18, <1>19

LEMMA LongEnough ==
  ASSUME NEW s \in Entry!Schemes, s # "de_leitweg", NEW x \in Texts, Entry!Conforms(s, x)
  PROVE  Len(x) >= 9
<1>1. Entry!ItPartitaIva(x) => Len(x) >= 9
  BY DEF Entry!ItPartitaIva
<1>2. Entry!ItCodiceFiscale(x) => Len(x) >= 9
  BY DEF Entry!ItCodiceFiscale
<1>3. Entry!FrSiren(x) => Len(x) >= 9
  BY DEF Entry!FrSiren
<1>4. Entry!FrSiret(x) => Len(x) >= 9
  BY DEF Entry!FrSiret
<1>5. Entry!FrTvaIntra(x) => Len(x) >= 9
  BY DEF Entry!FrTvaIntra
<1>6. Entry!BrCpf(x) => Len(x) >= 9
  BY DEF Entry!BrCpf
<1>7. Entry!BrCnpj(x) => Len(x) >= 9
  BY DEF Entry!BrCnpj
<1>8. Entry!PlNip(x) => Len(x) >= 9
  BY DEF Entry!PlNip
<1>9. Entry!PlRegon(x) => Len(x) >= 9
  <2> SUFFICES ASSUME Entry!PlRegon(x) PROVE Len(x) >= 9
    OBVIOUS
  <2>1. Len(x) = 9 \/ Len(x) = 14
    BY Zenon DEF Entry!PlRegon
  <2>2. CASE Len(x) = 9
    BY <2>2
  <2>3. CASE Len(x) = 14
    BY <2>3
  <2>4. QED
    BY <2>1, <2>2, <2>3
<1>10. Entry!SgUen(x) => Len(x) >= 9
  BY SMTT(30) DEF Entry!SgUen
<1>11. Entry!DeVat(x) => Len(x) >= 9
  BY DEF Entry!DeVat
<1>12. Entry!BeVat(x) => Len(x) >= 9
  BY DEF Entry!BeVat
<1>13. Entry!EsNif(x) => Len(x) >= 9
  BY DEF Entry!EsNif
<1>14. Entry!EsNie(x) => Len(x) >= 9
  BY DEF Entry!EsNie
<1>15. Entry!EsCif(x) => Len(x) >= 9
  BY DEF Entry!EsCif
<1>16. Entry!BeOgm(x) => Len(x) >= 9
  BY DEF Entry!BeOgm
<1>17. Entry!AeTrn(x) => Len(x) >= 9
  BY DEF Entry!AeTrn
<1>18. Entry!InGstin(x) => Len(x) >= 9
  BY DEF Entry!InGstin
<1>19. QED
  BY <1>1, <1>2, <1>3, <1>4, <1>5, <1>6, <1>7, <1>8, <1>9, <1>10,
     <1>11, <1>12, <1>13, <1>14, <1>15, <1>16, <1>17, <1>18, Conforming DEF Entry!Schemes

\* Blanks around the digits.
LEMMA BlankKept ==
  ASSUME NEW x \in Texts
  PROVE  Entry!OnlyDigits(<<Entry!Space>> \o x \o <<Entry!Space>>) = Entry!OnlyDigits(x)
<1> DEFINE y == <<Entry!Space>> \o x
<1>1. Entry!Space \in 0..40 /\ Entry!Space \notin 0..9
  BY DEF Entry!Space
<1>2. y \in Texts /\ Entry!Kept(y, 0..9) = Entry!Kept(x, 0..9)
  BY <1>1, EndsKept
<1> HIDE DEF y
<1>3. Entry!Kept(y \o <<Entry!Space>>, 0..9) = Entry!Kept(y, 0..9)
  BY <1>1, <1>2, EndsKept
<1>4. QED
  BY <1>2, <1>3 DEF y, Entry!OnlyDigits

\* A country prefix before the digits.
LEMMA PrefixBare ==
  ASSUME NEW x \in Texts, Plain(x), NEW a \in 10..35, NEW b \in 10..35
  PROVE  <<a, b>> \o x \in Texts /\ Plain(<<a, b>> \o x)
<1>1. <<a, b>> \in Texts /\ Len(<<a, b>>) = 2 /\ <<a, b>>[1] = a /\ <<a, b>>[2] = b
  BY DEF Texts
<1> DEFINE y == <<a, b>> \o x
<1>2. /\ y \in Texts /\ Len(y) = 2 + Len(x) /\ \A i \in 1..2 : y[i] = <<a, b>>[i]
      /\ \A i \in 1..Len(x) : y[2 + i] = x[i]
  BY <1>1, Concatenated
<1> HIDE DEF y
<1>3. ASSUME NEW i \in 1..Len(y) PROVE y[i] \in 0..35
  <2>1. CASE i \in 1..2
    <3>1. i = 1 \/ i = 2
      BY <2>1
    <3>2. \A c \in 10..35 : c \in 0..35
      OBVIOUS
    <3>3. QED
      BY <1>1, <1>2, <2>1, <3>1, <3>2
  <2>2. CASE i \notin 1..2
    <3>1. i - 2 \in 1..Len(x) /\ 2 + (i - 2) = i
      BY <1>2, <2>2, TextType
    <3>2. QED
      BY <1>2, <3>1 DEF Plain
  <2>3. QED
    BY <2>1, <2>2
<1>4. QED
  BY <1>2, <1>3 DEF Plain, y

\* +++ before the number.
LEMMA PlusesKept ==
  ASSUME NEW x \in Texts, NEW characters, Entry!Plus \notin characters
  PROVE  Entry!Kept(<<Entry!Plus, Entry!Plus, Entry!Plus>> \o x, characters)
           = Entry!Kept(x, characters)
<1> DEFINE one == <<Entry!Plus>> \o x
           two == <<Entry!Plus>> \o one
           three == <<Entry!Plus>> \o two
<1>1. Entry!Plus \in 0..40
  BY DEF Entry!Plus
<1>2. one \in Texts /\ Entry!Kept(one, characters) = Entry!Kept(x, characters)
  BY <1>1, EndsKept
<1> HIDE DEF one
<1>3. two \in Texts /\ Entry!Kept(two, characters) = Entry!Kept(one, characters)
  BY <1>1, <1>2, EndsKept
<1> HIDE DEF two
<1>4. Entry!Kept(three, characters) = Entry!Kept(two, characters)
  BY <1>1, <1>3, EndsKept
<1>5. <<Entry!Plus, Entry!Plus, Entry!Plus>> \o x = three
  <2> DEFINE u == <<Entry!Plus>>
             v == <<Entry!Plus, Entry!Plus>>
             w == <<Entry!Plus, Entry!Plus, Entry!Plus>>
  <2>1. /\ u \in Texts /\ Len(u) = 1 /\ u[1] = Entry!Plus
        /\ v \in Texts /\ Len(v) = 2 /\ v[1] = Entry!Plus /\ v[2] = Entry!Plus
        /\ w \in Texts /\ Len(w) = 3
        /\ w[1] = Entry!Plus /\ w[2] = Entry!Plus /\ w[3] = Entry!Plus
    BY <1>1 DEF Texts
  <2> HIDE DEF u, v, w
  <2>2. u \o u = v
    <3>1. /\ u \o u \in Texts /\ Len(u \o u) = Len(u) + Len(u)
          /\ \A i \in 1..Len(u) : (u \o u)[i] = u[i]
          /\ \A i \in 1..Len(u) : (u \o u)[Len(u) + i] = u[i]
      BY <2>1, Concatenated, Zenon
    <3>2. Len(u \o u) = 2 /\ (u \o u)[1] = Entry!Plus /\ (u \o u)[2] = Entry!Plus
      BY <2>1, <3>1
    <3> DEFINE uu == u \o u
    <3> HIDE DEF uu
    <3>3. uu \in Texts /\ Len(uu) = 2 /\ uu[1] = Entry!Plus /\ uu[2] = Entry!Plus
      BY <3>1, <3>2 DEF uu
    <3>4. \A i \in 1..Len(uu) : uu[i] = v[i]
      BY <2>1, <3>3
    <3>5. uu = v
      BY <2>1, <3>3, <3>4, SameText DEF Texts
    <3>6. QED
      BY <3>5 DEF uu
  <2>3. v \o u = w
    <3>1. /\ v \o u \in Texts /\ Len(v \o u) = Len(v) + Len(u)
          /\ \A i \in 1..Len(v) : (v \o u)[i] = v[i]
          /\ \A i \in 1..Len(u) : (v \o u)[Len(v) + i] = u[i]
      BY <2>1, Concatenated, Zenon
    <3>2. /\ Len(v \o u) = 3 /\ (v \o u)[1] = Entry!Plus /\ (v \o u)[2] = Entry!Plus
          /\ (v \o u)[3] = Entry!Plus
      BY <2>1, <3>1
    <3> DEFINE vu == v \o u
    <3> HIDE DEF vu
    <3>3. /\ vu \in Texts /\ Len(vu) = 3
          /\ vu[1] = Entry!Plus /\ vu[2] = Entry!Plus /\ vu[3] = Entry!Plus
      BY <3>1, <3>2 DEF vu
    <3>4. \A i \in 1..Len(vu) : vu[i] = w[i]
      BY <2>1, <3>3
    <3>5. vu = w
      BY <2>1, <3>3, <3>4, SameText DEF Texts
    <3>6. QED
      BY <3>5 DEF vu
  <2>4. u \o (u \o (u \o x)) = w \o x
    <3>1. /\ u \o x \in Seq(0..40) /\ u \in Seq(0..40) /\ v \in Seq(0..40)
          /\ x \in Seq(0..40)
      BY <2>1, Concatenated DEF Texts
    <3>2. u \o (u \o (u \o x)) = (u \o u) \o (u \o x)
      BY <3>1, SMTT(30)
    <3>3. v \o (u \o x) = (v \o u) \o x
      BY <3>1
    <3>4. QED
      BY <2>2, <2>3, <3>2, <3>3
  <2>5. QED
    BY <2>4 DEF u, w, one, two
<1>6. QED
  BY <1>2, <1>3, <1>4, <1>5

Blank(x) == <<Entry!Space>> \o x \o <<Entry!Space>>
Grouped(x, n, c) == SubSeq(x, 1, n) \o <<c>> \o SubSeq(x, n + 1, Len(x))
Prefixed(x, a, b) == <<a, b>> \o x
Starred(x) == <<Entry!Plus, Entry!Plus, Entry!Plus>> \o x

\* What the validators take off leaves the text that was spelled.
LEMMA Unspelled ==
  ASSUME NEW x \in Texts, Plain(x), Len(x) >= 9
  PROVE  /\ \A n \in 0..Len(x), c \in Separators, S \in SUBSET Separators :
              c \in S => Entry!Without(Grouped(x, n, c), S) = x
         /\ Entry!Without(Starred(x),
                          {Entry!Plus, Entry!Slash, Entry!Space, Entry!Dot, Entry!Dash}) = x
         /\ Entry!Strip(Blank(x)) = x
<1>1. ASSUME NEW n \in 0..Len(x), NEW c \in Separators, NEW S \in SUBSET Separators, c \in S
      PROVE  Entry!Without(Grouped(x, n, c), S) = x
  <2>1. c \in 0..40 /\ c \notin Entry!Characters \ S
    BY <1>1, Separate
  <2>2. Entry!Without(Grouped(x, n, c), S) = Entry!Without(x, S)
    BY <2>1, GroupedKept DEF Grouped, Entry!Without
  <2>3. QED
    BY <2>2, BareKept
<1>2. Entry!Without(Starred(x), {Entry!Plus, Entry!Slash, Entry!Space, Entry!Dot, Entry!Dash}) = x
  <2> DEFINE S == {Entry!Plus, Entry!Slash, Entry!Space, Entry!Dot, Entry!Dash}
  <2>1. S \in SUBSET Separators /\ Entry!Plus \in S
    BY DEF Separators
  <2> HIDE DEF S
  <2>2. Entry!Plus \notin Entry!Characters \ S
    BY <2>1
  <2>3. Entry!Without(Starred(x), S) = Entry!Without(x, S)
    BY <2>2, PlusesKept DEF Starred, Entry!Without
  <2>4. Entry!Without(Starred(x), S) = x
    BY <2>1, <2>3, BareKept
  <2>5. QED
    BY <2>4 DEF S
<1>3. Entry!Strip(Blank(x)) = x
  <2>1. \A i \in 1..Len(x) : x[i] # Entry!Space
    <3>1. Entry!Space \notin 0..35
      BY DEF Entry!Space
    <3>2. QED
      BY <3>1 DEF Plain
  <2>2. x # <<>>
    <3>1. Len(<<>>) = 0
      OBVIOUS
    <3>2. Len(x) # 0
      BY TextType, SMTT(30)
    <3>3. QED
      BY <3>1, <3>2
  <2>3. QED
    BY <2>1, <2>2, Stripped DEF Blank
<1>4. QED
  BY <1>1, <1>2, <1>3

LEMMA UnspelledDigits ==
  ASSUME NEW x \in Texts, Plain(x), Entry!AllDigits(x), Len(x) >= 9
  PROVE  /\ Entry!OnlyDigits(Blank(x)) = x
         /\ \A n \in 0..Len(x), c \in Separators : Entry!OnlyDigits(Grouped(x, n, c)) = x
         /\ \A a, b \in 10..35 :
              /\ Entry!Unprefixed(x, <<a, b>>) = x
              /\ \A S \in SUBSET Separators :
                   Entry!Unprefixed(Entry!Without(Prefixed(x, a, b), S), <<a, b>>) = x
              /\ Entry!Unprefixed(Entry!Strip(Prefixed(x, a, b)), <<a, b>>) = x
<1>1. Entry!OnlyDigits(x) = x
  BY BareKept
<1>2. Entry!OnlyDigits(Blank(x)) = x
  BY <1>1, BlankKept DEF Blank
<1>3. ASSUME NEW n \in 0..Len(x), NEW c \in Separators
      PROVE  Entry!OnlyDigits(Grouped(x, n, c)) = x
  <2>1. c \in 0..40 /\ c \notin 0..9
    BY Separate
  <2>2. Entry!OnlyDigits(Grouped(x, n, c)) = Entry!OnlyDigits(x)
    BY <2>1, GroupedKept DEF Grouped, Entry!OnlyDigits
  <2>3. QED
    BY <1>1, <2>2
<1>4. ASSUME NEW a \in 10..35, NEW b \in 10..35
      PROVE  /\ Entry!Unprefixed(x, <<a, b>>) = x
             /\ \A S \in SUBSET Separators :
                  Entry!Unprefixed(Entry!Without(Prefixed(x, a, b), S), <<a, b>>) = x
             /\ Entry!Unprefixed(Entry!Strip(Prefixed(x, a, b)), <<a, b>>) = x
  <2>1. Prefixed(x, a, b) \in Texts /\ Plain(Prefixed(x, a, b))
    BY PrefixBare, Zenon DEF Prefixed
  <2>2. /\ \A S \in SUBSET Separators : Entry!Without(Prefixed(x, a, b), S) = Prefixed(x, a, b)
        /\ Entry!Strip(Prefixed(x, a, b)) = Prefixed(x, a, b)
    BY <2>1, BareKept, SMTT(30)
  <2>3. /\ Entry!Unprefixed(x, <<a, b>>) = x
        /\ Entry!Unprefixed(Prefixed(x, a, b), <<a, b>>) = x
    BY PrefixGone, Zenon DEF Prefixed
  <2>4. QED
    BY <2>2, <2>3
<1>5. QED
  BY <1>2, <1>3, <1>4, Zenon

\* Every documented spelling of an identifier has it for its normal form.
LEMMA SpellingNormal ==
  ASSUME scheme \in Entry!Schemes, NEW x, Entry!IsBare(scheme, x), Entry!Conforms(scheme, x),
         NEW y \in Entry!Spellings(x)
  PROVE  Entry!Normal(scheme, y) = x
<1>1. CASE scheme = "de_leitweg"
  <2>1. y = x
    BY <1>1 DEF Entry!Spellings
  <2>2. QED
    BY <2>1, NormalBare
<1>2. CASE scheme # "de_leitweg"
  <2>1. /\ x \in Texts /\ Plain(x) /\ Len(x) >= 9
        /\ scheme \in Entry!DigitSchemes => Entry!AllDigits(x)
    BY <1>2, BareText, LongEnough
  <2>2. /\ 2 \in 0..Len(x) /\ 3 \in 0..Len(x) /\ 4 \in 0..Len(x) /\ 6 \in 0..Len(x)
        /\ Len(x) - 2 \in 0..Len(x)
    BY <2>1, TextType
  <2>3. /\ Entry!Space \in Separators /\ Entry!Dash \in Separators /\ Entry!Dot \in Separators
        /\ Entry!Slash \in Separators
        /\ {Entry!Space} \in SUBSET Separators
        /\ {Entry!Dot, Entry!Dash, Entry!Slash} \in SUBSET Separators
        /\ {Entry!Dot, Entry!Space} \in SUBSET Separators
        /\ {Entry!Plus, Entry!Slash, Entry!Space, Entry!Dot, Entry!Dash} \in SUBSET Separators
    BY DEF Separators
  <2>4. /\ \A n \in 0..Len(x), c \in Separators, S \in SUBSET Separators :
             c \in S => Entry!Without(Grouped(x, n, c), S) = x
        /\ Entry!Without(Starred(x),
                          {Entry!Plus, Entry!Slash, Entry!Space, Entry!Dot, Entry!Dash}) = x
        /\ Entry!Strip(Blank(x)) = x
    BY <2>1, Unspelled, Zenon
  <2>5. ASSUME scheme \in Entry!DigitSchemes
        PROVE  /\ Entry!OnlyDigits(Blank(x)) = x
               /\ \A n \in 0..Len(x), c \in Separators : Entry!OnlyDigits(Grouped(x, n, c)) = x
               /\ \A a, b \in 10..35 :
                    /\ Entry!Unprefixed(x, <<a, b>>) = x
                    /\ \A S \in SUBSET Separators :
                         Entry!Unprefixed(Entry!Without(Prefixed(x, a, b), S), <<a, b>>) = x
                    /\ Entry!Unprefixed(Entry!Strip(Prefixed(x, a, b)), <<a, b>>) = x
    BY <2>1, <2>5, UnspelledDigits, Zenon
  <2>6. 15 \in 10..35 /\ 27 \in 10..35 /\ 13 \in 10..35 /\ 14 \in 10..35 /\ 11 \in 10..35
    BY SMTT(30)
  <2>7. CASE scheme \in {"fr_siren", "fr_siret", "pl_regon", "pl_nip", "br_cpf"}
    <3>1. scheme \in Entry!DigitSchemes
      BY <2>7 DEF Entry!DigitSchemes
    <3>2. Entry!Normal(scheme, y) = Entry!OnlyDigits(y)
      BY <2>7 DEF Entry!Normal
    <3>3. \/ y = Blank(x)
          \/ \E n \in {3, 6, Len(x) - 2}, c \in {Entry!Space, Entry!Dash, Entry!Dot} :
               y = Grouped(x, n, c)
      <4>1. CASE scheme \in {"fr_siren", "fr_siret", "pl_regon"}
        <5>1. y \in {Blank(x), Grouped(x, 3, Entry!Space)}
          BY <4>1, Zenon DEF Entry!Spellings, Blank, Grouped
        <5>2. QED
          BY <5>1
      <4>2. CASE scheme = "pl_nip"
        <5>1. y \in {Grouped(x, 3, Entry!Dash), Grouped(x, 6, Entry!Space)}
          BY <4>2 DEF Entry!Spellings, Grouped
        <5>2. QED
          BY <5>1
      <4>3. CASE scheme = "br_cpf"
        <5>1. y \in {Grouped(x, 3, Entry!Dot), Grouped(x, Len(x) - 2, Entry!Dash)}
          BY <4>3 DEF Entry!Spellings, Grouped
        <5>2. QED
          BY <5>1
      <4>4. QED
        BY <2>7, <4>1, <4>2, <4>3
    <3>4. QED
      BY <2>2, <2>3, <2>5, <3>1, <3>2, <3>3, Zenon
  <2>8. CASE scheme = "fr_tva_intra"
    <3>1. y = Prefixed(x, 15, 27) \/ y = Grouped(x, 2, Entry!Space)
      BY <2>8 DEF Entry!Spellings, Prefixed, Grouped
    <3>2. Entry!Normal(scheme, y) = Entry!Unprefixed(Entry!Without(y, {Entry!Space}), <<15, 27>>)
      BY <2>8 DEF Entry!Normal
    <3>3. scheme \in Entry!DigitSchemes
      BY <2>8 DEF Entry!DigitSchemes
    <3>4. CASE y = Prefixed(x, 15, 27)
      BY <2>3, <2>5, <2>6, <3>2, <3>3, <3>4, Zenon
    <3>5. CASE y = Grouped(x, 2, Entry!Space)
      <4>1. Entry!Without(y, {Entry!Space}) = x
        BY <2>2, <2>3, <2>4, <3>5
      <4>2. QED
        BY <2>5, <2>6, <3>2, <3>3, <4>1, Zenon
    <3>6. QED
      BY <3>1, <3>4, <3>5
  <2>9. CASE scheme = "br_cnpj"
    <3>1. y = Grouped(x, 3, Entry!Dot) \/ y = Grouped(x, Len(x) - 2, Entry!Dash)
      BY <2>9 DEF Entry!Spellings, Grouped
    <3>2. Entry!Normal(scheme, y) = Entry!Without(y, {Entry!Dot, Entry!Dash, Entry!Slash})
      BY <2>9 DEF Entry!Normal
    <3>3. QED
      BY <2>2, <2>3, <2>4, <3>1, <3>2
  <2>10. CASE scheme = "de_vat"
    <3>1. y = Prefixed(x, 13, 14) \/ y = Blank(x)
      BY <2>10 DEF Entry!Spellings, Prefixed, Blank
    <3>2. Entry!Normal(scheme, y) = Entry!Unprefixed(Entry!Strip(y), <<13, 14>>)
      BY <2>10 DEF Entry!Normal
    <3>3. scheme \in Entry!DigitSchemes
      BY <2>10 DEF Entry!DigitSchemes
    <3>4. CASE y = Prefixed(x, 13, 14)
      BY <2>5, <2>6, <3>2, <3>3, <3>4, Zenon
    <3>5. CASE y = Blank(x)
      <4>1. Entry!Strip(y) = x
        BY <2>4, <3>5
      <4>2. QED
        BY <2>5, <2>6, <3>2, <3>3, <4>1, Zenon
    <3>6. QED
      BY <3>1, <3>4, <3>5
  <2>11. CASE scheme = "be_vat"
    <3>1. y = Prefixed(x, 11, 14) \/ y = Grouped(x, 4, Entry!Dot)
      BY <2>11 DEF Entry!Spellings, Prefixed, Grouped
    <3>2. Entry!Normal(scheme, y)
            = Entry!Unprefixed(Entry!Without(y, {Entry!Dot, Entry!Space}), <<11, 14>>)
      BY <2>11 DEF Entry!Normal
    <3>3. scheme \in Entry!DigitSchemes
      BY <2>11 DEF Entry!DigitSchemes
    <3>4. CASE y = Prefixed(x, 11, 14)
      BY <2>3, <2>5, <2>6, <3>2, <3>3, <3>4, Zenon
    <3>5. CASE y = Grouped(x, 4, Entry!Dot)
      <4>1. Entry!Without(y, {Entry!Dot, Entry!Space}) = x
        BY <2>2, <2>3, <2>4, <3>5
      <4>2. QED
        BY <2>5, <2>6, <3>2, <3>3, <4>1, Zenon
    <3>6. QED
      BY <3>1, <3>4, <3>5
  <2>12. CASE scheme = "be_ogm"
    <3>1. y = Grouped(x, 3, Entry!Slash) \/ y = Starred(x)
      BY <2>12 DEF Entry!Spellings, Starred, Grouped
    <3>2. Entry!Normal(scheme, y)
            = Entry!Without(y, {Entry!Plus, Entry!Slash, Entry!Space, Entry!Dot, Entry!Dash})
      BY <2>12 DEF Entry!Normal
    <3>3. CASE y = Grouped(x, 3, Entry!Slash)
      BY <2>2, <2>3, <2>4, <3>2, <3>3
    <3>4. QED
      BY <2>4, <3>1, <3>2, <3>3
  <2>13. CASE scheme \notin {"fr_siren", "fr_siret", "pl_regon", "pl_nip", "br_cpf", "fr_tva_intra",
                            "br_cnpj", "de_vat", "be_vat", "be_ogm"}
    <3>1. y = Blank(x)
      BY <1>2, <2>13 DEF Entry!Spellings, Blank
    <3>2. Entry!Normal(scheme, y) = Entry!Strip(y)
      BY <1>2, <2>13 DEF Entry!Normal
    <3>3. QED
      BY <2>4, <3>1, <3>2
  <2>14. QED
    BY <2>7, <2>8, <2>9, <2>10, <2>11, <2>12, <2>13
<1>3. QED
  BY <1>1, <1>2

-----------------------------------------------------------------------------
(* Entries *)

\* A slip leaves a text without separators what it is.
LEMMA SlipBare ==
  ASSUME NEW s \in Entry!Schemes, NEW x, Entry!IsBare(s, x), NEW y, NEW j,
         OneDigit(x, y, j) \/ Exchanged(x, y, j)
  PROVE  Entry!IsBare(s, y)
<1> DEFINE T == (0..35) \cup (IF s = "de_leitweg" THEN {Entry!Dash} ELSE {})
<1>1. x \in Seq(T) /\ x \in Texts /\ y \in Texts /\ Len(y) = Len(x)
  BY BareText DEF Entry!IsBare, OneDigit, Exchanged
<1>2. 0..9 \subseteq T
  OBVIOUS
<1> HIDE DEF T
<1>3. \A i \in 1..Len(x) : x[i] \in T
  BY <1>1, ElementOfSeq
<1>4. \A i \in 1..Len(x) : y[i] \in 0..9 \/ y[i] = x[i]
  BY DEF OneDigit, Exchanged
<1>5. y \in Seq(T)
  <2>1. \A i \in 1..Len(y) : y[i] \in T
    BY <1>1, <1>2, <1>3, <1>4
  <2>2. Len(y) \in Nat /\ y = [i \in 1..Len(y) |-> y[i]]
    BY <1>1, LenProperties DEF Texts
  <2>3. y \in [1..Len(y) -> T]
    BY <2>1, <2>2
  <2>4. QED
    BY <2>2, <2>3, SeqDef
<1>6. ASSUME s \in Entry!DigitSchemes PROVE Entry!AllDigits(y)
  <2>1. \A i \in 1..Len(x) : x[i] \in 0..9
    BY <1>6, BareText
  <2>2. \A i \in 1..Len(y) : y[i] \in 0..9
    BY <1>1, <1>4, <2>1
  <2>3. DOMAIN y = 1..Len(y)
    BY <1>1, LenProperties DEF Texts
  <2>4. QED
    BY <2>2, <2>3 DEF Entry!AllDigits, Entry!IsDigit
<1>7. QED
  BY <1>5, <1>6 DEF Entry!IsBare, T

LEMMA WrongDigit ==
  ASSUME NEW s \in Entry!Schemes, s \notin Entry!WeakSchemes, NEW x, Entry!IsBare(s, x),
         Entry!Conforms(s, x), NEW y, NEW j, OneDigit(x, y, j)
  PROVE  ~Entry!Conforms(s, y)
<1>1. x \in Texts
  BY BareText
<1>2. CASE s = "de_leitweg"
  BY <1>1, <1>2, LeitwegSlip, Conforming
<1>3. CASE s # "de_leitweg"
  <2>1. Plain(x) /\ (s \in Entry!DigitSchemes => Entry!AllDigits(x))
    BY <1>3, BareText
  <2>2. CASE s \in {"fr_siren", "fr_siret"}
    <3>1. Entry!Luhn(x) # Entry!Luhn(y)
      BY <1>1, <2>1, <2>2, LuhnDigit DEF Entry!DigitSchemes
    <3>2. Entry!Luhn(x) = 0
      BY <2>2, Conforming DEF Entry!FrSiren, Entry!FrSiret
    <3>3. QED
      BY <2>2, <3>1, <3>2, Conforming DEF Entry!FrSiren, Entry!FrSiret
  <2>3. CASE s \in {"fr_tva_intra", "be_vat", "be_ogm"}
    BY <1>1, <2>3, KeyedDigit, Conforming
  <2>4. CASE s \in {"es_nif", "es_nie", "es_cif"}
    BY <1>1, <2>1, <2>4, NifSlip, NieSlip, CifDigitWrong, Conforming
  <2>5. CASE s \in {"it_partita_iva", "it_codice_fiscale", "pl_nip"}
    BY <1>1, <2>1, <2>5, PartitaIvaDigit, CodiceFiscaleDigit, NipDigit, Conforming
  <2>6. CASE s \in {"sg_uen", "de_vat"}
    BY <1>1, <2>1, <2>6, UenDigit, DeVatDigit, Conforming
  <2>7. QED
    BY <1>3, <2>2, <2>3, <2>4, <2>5, <2>6 DEF Entry!Schemes, Entry!WeakSchemes
<1>4. QED
  BY <1>2, <1>3

LEMMA WrongOrder ==
  ASSUME NEW s \in Entry!OrderedSchemes, NEW x, Entry!IsBare(s, x),
         Entry!Conforms(s, x), NEW y, NEW j, Exchanged(x, y, j)
  PROVE  ~Entry!Conforms(s, y)
<1>1. x \in Texts /\ (s # "de_leitweg" => Plain(x))
  BY BareText
<1>2. CASE s = "de_leitweg"
  BY <1>1, <1>2, LeitwegSlip, Conforming
<1>3. CASE s \in {"fr_tva_intra", "be_vat", "be_ogm"}
  BY <1>1, <1>3, KeyedExchanged, Conforming
<1>4. CASE s \in {"es_nif", "es_nie"}
  BY <1>1, <1>4, NifSlip, NieSlip, Conforming
<1>5. QED
  BY <1>2, <1>3, <1>4 DEF Entry!OrderedSchemes

\* An entry before and after what happens to it.
EntryInv ==
  kind = "entry" =>
    /\ scheme \in Entry!Schemes /\ Entry!IsBare(scheme, issued)
    /\ Entry!Valid(scheme, issued)
    /\ Entry!EntriesJudged

LEMMA Judged ==
  ASSUME scheme \in Entry!Schemes, Entry!IsBare(scheme, issued), Entry!Valid(scheme, issued),
         Entry!Next
  PROVE  Entry!EntriesJudged'
<1>1. Entry!Conforms(scheme, issued)
  BY NormalBare DEF Entry!Valid
<1>2. issued \in Texts /\ DOMAIN issued = 1..Len(issued) /\ scheme' = scheme
  <2>1. issued \in Texts
    BY BareText
  <2>2. QED
    BY <2>1, LenProperties
       DEF Texts, Entry!Next, Entry!Mistype, Entry!Swap, Entry!Stray, Entry!Spell, Entry!Enter
<1>3. ASSUME NEW i \in DOMAIN issued, NEW d \in 0..9, Entry!Mistype(i, d)
      PROVE  Entry!EntriesJudged'
  <2> DEFINE y == [issued EXCEPT ![i] = d]
  <2>1. entered' = y /\ slip' = "digit" /\ issued[i] \in 0..9 /\ d # issued[i]
    BY <1>3 DEF Entry!Mistype, Entry!Enter, Entry!IsDigit
  <2>2. y \in Texts /\ Len(y) = Len(issued)
    <3>1. issued \in Seq(0..40) /\ i \in 1..Len(issued) /\ d \in 0..40
      BY <1>2 DEF Texts
    <3>2. QED
      BY <3>1, ExceptSeq DEF Texts
  <2>3. OneDigit(issued, y, i)
    BY <1>2, <2>1, <2>2 DEF OneDigit
  <2> HIDE DEF y
  <2>4. ASSUME scheme \notin Entry!WeakSchemes PROVE ~Entry!Valid(scheme, y)
    <3>1. ~Entry!Conforms(scheme, y)
      BY <1>1, <2>3, <2>4, WrongDigit
    <3>2. Entry!Normal(scheme, y) = y
      BY <2>3, SlipBare, NormalBare
    <3>3. QED
      BY <3>1, <3>2 DEF Entry!Valid
  <2>5. QED
    BY <1>2, <2>1, <2>4 DEF Entry!EntriesJudged
<1>4. ASSUME NEW i \in DOMAIN issued, Entry!Swap(i)
      PROVE  Entry!EntriesJudged'
  <2> DEFINE y == [issued EXCEPT ![i] = issued[i + 1], ![i + 1] = issued[i]]
  <2>1. /\ entered' = y /\ slip' = "swap" /\ i < Len(issued)
        /\ issued[i] \in 0..9 /\ issued[i + 1] \in 0..9 /\ issued[i] # issued[i + 1]
    BY <1>4 DEF Entry!Swap, Entry!Enter, Entry!IsDigit
  <2>2. i \in 1..Len(issued) /\ i + 1 \in 1..Len(issued)
    BY <1>2, <2>1, TextType
  <2>3. y \in Texts /\ Len(y) = Len(issued)
    <3> DEFINE z == [issued EXCEPT ![i] = issued[i + 1]]
    <3>1. issued \in Seq(0..40) /\ issued[i] \in 0..40 /\ issued[i + 1] \in 0..40
      BY <1>2, <2>1 DEF Texts
    <3>2. z \in Seq(0..40) /\ Len(z) = Len(issued)
      BY <2>2, <3>1, ExceptSeq
    <3>3. y = [z EXCEPT ![i + 1] = issued[i]]
      OBVIOUS
    <3> HIDE DEF y, z
    <3>4. QED
      BY <2>2, <3>1, <3>2, <3>3, ExceptSeq DEF Texts
  <2>4. Exchanged(issued, y, i)
    BY <1>2, <2>1, <2>2, <2>3 DEF Exchanged
  <2> HIDE DEF y
  <2>5. ASSUME scheme \in Entry!OrderedSchemes PROVE ~Entry!Valid(scheme, y)
    <3>1. ~Entry!Conforms(scheme, y)
      BY <1>1, <2>4, <2>5, WrongOrder
    <3>2. Entry!Normal(scheme, y) = y
      BY <2>4, SlipBare, NormalBare
    <3>3. QED
      BY <3>1, <3>2 DEF Entry!Valid
  <2>6. QED
    BY <1>2, <2>1, <2>5 DEF Entry!EntriesJudged
<1>5. ASSUME NEW i \in 0..Len(issued), Entry!Stray(i)
      PROVE  Entry!EntriesJudged'
  BY <1>5 DEF Entry!Stray, Entry!Enter, Entry!EntriesJudged
<1>6. ASSUME Entry!Spell PROVE Entry!EntriesJudged'
  <2>1. PICK y \in Entry!Spellings(issued) : entered' = y /\ slip' = "spelling"
    BY <1>6 DEF Entry!Spell, Entry!Enter
  <2>2. Entry!Normal(scheme, y) = issued
    BY <1>1, SpellingNormal
  <2>3. Entry!Valid(scheme, y)
    BY <1>1, <2>2 DEF Entry!Valid
  <2>4. QED
    BY <1>2, <2>1, <2>3 DEF Entry!EntriesJudged
<1>7. QED
  BY <1>3, <1>4, <1>5, <1>6 DEF Entry!Next

LEMMA EntryInit == DataInit => EntryInv
<1> SUFFICES ASSUME DataInit, kind = "entry"
             PROVE  /\ scheme \in Entry!Schemes /\ Entry!IsBare(scheme, issued)
                    /\ Entry!Valid(scheme, issued) /\ Entry!EntriesJudged
  BY DEF EntryInv
<1>1. Entry!Init
  BY DEF DataInit
<1>2. scheme \in Entry!Schemes /\ Entry!IsBare(scheme, issued) /\ Entry!Valid(scheme, issued)
  BY <1>1, DataAssumption DEF Entry!Init, Entry!CandidatesBare
<1>3. Entry!EntriesJudged
  BY <1>1 DEF Entry!Init, Entry!EntriesJudged
<1>4. QED
  BY <1>2, <1>3

LEMMA EntryNext == EntryInv /\ [DataNext]_data_vars => EntryInv'
<1> SUFFICES ASSUME EntryInv, [DataNext]_data_vars, kind' = "entry" PROVE EntryInv'
  BY DEF EntryInv
<1>1. /\ kind = "entry" /\ scheme \in Entry!Schemes /\ Entry!IsBare(scheme, issued)
      /\ Entry!Valid(scheme, issued) /\ Entry!EntriesJudged
  BY DEF EntryInv, DataNext, data_vars
<1>2. CASE UNCHANGED entry_vars
  BY <1>1, <1>2 DEF EntryInv, entry_vars, Entry!EntriesJudged
<1>3. CASE Entry!Next
  <2>1. Entry!EntriesJudged'
    BY <1>1, <1>3, Judged
  <2>2. scheme' = scheme /\ issued' = issued
    BY <1>3 DEF Entry!Next, Entry!Mistype, Entry!Swap, Entry!Stray, Entry!Spell, Entry!Enter
  <2>3. QED
    BY <1>1, <2>1, <2>2 DEF EntryInv
<1>4. QED
  BY <1>1, <1>2, <1>3 DEF DataNext, data_vars

\* One wrong digit never turns an identifier into another valid one, whatever the
\* identifiers issued, the position and the digit, nor do two digits in the wrong order
\* where the weights are made for it, and every documented spelling is accepted
\* (the validators of TaxIdentifier and RoutingIdentifier).
THEOREM EntriesAreJudged == DataSpec => []EntriesJudged
<1>1. EntryInv => EntriesJudged
  BY DEF EntryInv, EntriesJudged
<1>2. QED
  BY <1>1, EntryInit, EntryNext, PTL DEF DataSpec
=============================================================================
