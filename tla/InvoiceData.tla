-------------------------------- MODULE InvoiceData --------------------------------
(***************************************************************************)
(* What happens to the data of an invoice: documents are signed,           *)
(* identifiers entered, documents converted.  These share no state: a      *)
(* behaviour is of one kind.                                               *)
(***************************************************************************)
EXTENDS LocalSigning, Integers

CONSTANTS Candidates, Invoices, Foreign, MaxHops

VARIABLES
  kind,  \* "signing", "entry" or "conversion"
  scheme, issued, entered, slip,
  source, converted, past, hops, dropped, billing

Entry == INSTANCE IdentifierEntry
Conversion == INSTANCE DocumentConversion WITH doc <- converted

\* Identifiers are issued bare.  Foreign documents have no empty elements, and totals in
\* cents.  None is no amount, no type code and no code of a payment means.
ASSUME DataAssumption ==
  /\ Entry!CandidatesBare
  /\ \A inv \in Invoices : Conversion!IsInvoice(inv)
  /\ \A d \in Foreign : Conversion!IsDocument(d)
  /\ None \notin Int \cup {"1", "380", "381", "384"}

entry_vars == <<scheme, issued, entered, slip>>
conversion_vars == <<source, converted, past, hops, dropped, billing>>
data_vars == <<kind, vars, entry_vars, conversion_vars>>

\* The parts that are not of the behaviour's kind are absent, or at rest.
DataInit ==
  /\ kind \in {"signing", "entry", "conversion"}
  /\ Init /\ (kind = "signing" \/ (signer = "XAdES" /\ held = Nothing))
  /\ IF kind = "entry" THEN Entry!Init
     ELSE scheme = None /\ issued = None /\ entered = None /\ slip = None
  /\ IF kind = "conversion" THEN Conversion!Init
     ELSE /\ source = None /\ converted = None /\ past = None /\ hops = None
          /\ dropped = None /\ billing = None

DataNext ==
  /\ \/ kind = "signing" /\ Next /\ UNCHANGED <<entry_vars, conversion_vars>>
     \/ kind = "entry" /\ Entry!Next /\ UNCHANGED <<vars, conversion_vars>>
     \/ kind = "conversion" /\ Conversion!Next /\ UNCHANGED <<vars, entry_vars>>
  /\ UNCHANGED kind

DataSpec == DataInit /\ [][DataNext]_data_vars

EntriesJudged == kind = "entry" => Entry!EntriesJudged
CarriedFieldsKept == kind = "conversion" => Conversion!CarriedFieldsKept
TotalsReconcile == kind = "conversion" => Conversion!TotalsReconcile
CreditRefersHome == kind = "conversion" => Conversion!CreditRefersHome
ConversionSettles == [][kind = "conversion" => Conversion!Settles]_data_vars
=============================================================================
