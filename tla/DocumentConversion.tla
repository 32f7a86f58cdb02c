----------------------------- MODULE DocumentConversion -----------------------------
(***************************************************************************)
(* A document on its way from one system to the next: issued by this       *)
(* library or by another producer, converted between the syntaxes again    *)
(* and again, and credited on the way.                                     *)
(***************************************************************************)
EXTENDS WireFormats

CONSTANTS
  Invoices,  \* EN16931Invoice values a caller may serialise
  Foreign,   \* documents of other producers
  MaxHops    \* bound: conversions of a document

VARIABLES
  source,  \* the first document
  doc,     \* the document it has become
  past,    \* per syntax, the last document in it that was converted, or None
  hops,    \* conversions since the first document
  dropped, \* the rounding amount that a CII document on the way does not carry
  billing  \* the invoice a credit note was made out for, or None

vars == <<source, doc, past, hops, dropped, billing>>

Syntax(d) == IF d.root = "CrossIndustryInvoice" THEN "CII" ELSE "UBL"
Amount(d, t) == IF d.total[t] = None THEN 0 ELSE d.total[t]

Becomes(first) ==
  /\ source' = first
  /\ doc' = first
  /\ past' = [s \in Syntaxes |-> None]
  /\ hops' = 0
  /\ dropped' = 0

Init ==
  /\ source \in Foreign \cup
       {Build(inv, s) : inv \in {i \in Invoices : ~Refused(i)}, s \in Syntaxes}
  /\ doc = source
  /\ past = [s \in Syntaxes |-> None]
  /\ hops = 0
  /\ dropped = 0
  /\ billing = None

\* convert_wire_format
Convert(target) ==
  /\ hops < MaxHops
  /\ ~ConversionRaises(doc, target)
  /\ doc' = ConvertWireFormat(doc, target)
  /\ past' = [past EXCEPT ![Syntax(doc)] = doc]
  /\ hops' = hops + 1
  /\ dropped' = dropped + Amount(doc, "rounding_amount")
  /\ UNCHANGED <<source, billing>>

\* A caller parses the document and makes out a credit note for it: its fields, a
\* number of its own, and a billing reference to it.
Credit(code, target) ==
  /\ billing = None
  /\ ~Refused(Parse(doc))
  /\ LET inv == Parse(doc)
         credited == [number |-> inv.text["invoice_number"], date |-> inv.date["invoice_date"],
                      precedes |-> inv.text["preceding_invoice_reference"]]
     IN /\ Becomes(Build(CreditNote(inv, code, "CN", credited), target))
        /\ billing' = credited

Next == \E s \in Syntaxes : Convert(s) \/ \E code \in {"381", "384"} : Credit(code, s)

Spec == Init /\ [][Next]_vars
-----------------------------------------------------------------------------
(* Properties *)

\* What both syntaxes carry reaches the end of any chain of conversions: the texts
\* but the UUID and the business process, every date, parties, VAT breakdown,
\* allowances and charges, lines and totals, to the cent; and an account with its
\* name and its bank, where it has an IBAN (a bank without does not survive in UBL).
Carried(inv) ==
  [type |-> inv.type,
   text |-> [f \in DOMAIN inv.text \ {"document_uuid", "business_process"} |-> inv.text[f]],
   date |-> DatesWritten(inv), seller |-> inv.seller, buyer |-> inv.buyer,
   taxes |-> Each(inv.taxes, BuildTax), charges |-> Each(inv.charges, BuildCharge),
   lines |-> Each(inv.lines, BuildLine),
   total |-> [TotalsWritten(inv) EXCEPT !["rounding_amount"] = 0]]
Account(means) == If(means # None, <<means.iban, means.account_name, means.bic>>)
CarriedFieldsKept ==
  LET before == Parse(source) after == Parse(doc)
  IN /\ Carried(after) = Carried(before)
     /\ before.means # None /\ before.means.iban \notin {None, "", Blank}
          => Account(after.means) = Account(before.means)

\* What is lost is lost in the first round trip: a second one gives the same
\* documents again.
Settles == hops' > hops /\ hops >= 3 => doc' = past'[Syntax(doc')]
ConversionSettles == [][Settles]_vars

\* An invoice whose totals add up to the cent is never converted into one whose
\* totals do not, but for the rounding amount that CII documents leave out.
WithVat(d) ==
  Amount(d, "tax_inclusive_amount") - Amount(d, "tax_exclusive_amount") - Amount(d, "tax_total")
ToPay(d) ==
  Amount(d, "amount_due") - Amount(d, "tax_inclusive_amount") + Amount(d, "prepaid_amount")
    - Amount(d, "rounding_amount")
TotalsReconcile == WithVat(doc) = WithVat(source) /\ ToPay(doc) = ToPay(source) + dropped

\* A credit note, converted or not, refers to the invoice it was made out for, by
\* number and date, unless that invoice refers to an earlier one itself or has no
\* number.
Reference(d) == <<d.text["preceding_invoice_reference"], d.date["preceding_invoice_date"]>>
CreditRefersHome ==
  billing # None /\ billing.precedes = None /\ Given(billing.number)
    => Reference(doc) = <<billing.number, billing.date>>

\* "Keep the base class preceding_invoice_* fields in sync with billing_reference":
\* violated when the credited invoice has a preceding invoice of its own.
BillingInSync == billing # None => Reference(doc) = <<billing.number, billing.date>>

\* "national extensions are silently ignored": violated, the legal registration of a
\* party without VAT number is read, and written on, as its VAT number.
VatNumbers(party) ==
  IF party = None THEN {}
  ELSE {c.id : c \in {d \in ToSet(party.company_ids) : d.of = "VAT"}}
VatNumberOnly ==
  \A role \in {"seller", "buyer"} : VatNumbers(doc[role]) \subseteq VatNumbers(source[role])
=============================================================================
