-------------------------------- MODULE WireFormats --------------------------------
(***************************************************************************)
(* The EN 16931 serialisers and parsers of wire_formats.py and the         *)
(* conversion of convert.py.  An invoice is a record of texts, dates and   *)
(* amounts; an XML document is what its elements hold, None where the      *)
(* element is absent.  An element both syntaxes only move to another place *)
(* is one entry here, under the field's name.  Amounts are in thousandths. *)
(***************************************************************************)
EXTENDS Integers, Sequences, SequencesExt

CONSTANT None

Blank == " "  \* the white space between two elements
Today == "today"

OrElse(v, default) == IF v \in {None, ""} THEN default ELSE v
If(condition, v) == IF condition THEN v ELSE None
Given(v) == v \notin {None, ""}

-----------------------------------------------------------------------------
(* Amounts *)

\* format_amount: to cents, half up or half even.
Cents(n, half_even) ==
  LET size == IF n < 0 THEN -n ELSE n
      low == size \div 10
      up == size % 10 > 5 \/ (size % 10 = 5 /\ (half_even => low % 2 = 1))
      rounded == IF up THEN low + 1 ELSE low
  IN IF n < 0 THEN -10 * rounded ELSE 10 * rounded

\* Mutant of Fmt: half a cent is added before the rounding that adds it again.
Bug_Fmt(n) == Cents(n + 5, FALSE)

Fmt(n) == Cents(n, FALSE)
FmtVat(n) == Cents(n, TRUE)
FmtOpt(n) == IF n = None THEN None ELSE Fmt(n)

-----------------------------------------------------------------------------
(* Fields *)

Dates == {"invoice_date", "due_date", "delivery_date", "billing_period_start",
          "billing_period_end", "preceding_invoice_date"}
VatAmount == "tax_total"

\* The date of the preceding invoice is written inside its reference.
DatesWritten(inv) ==
  [inv.date EXCEPT !["preceding_invoice_date"] =
     If(Given(inv.text["preceding_invoice_reference"]), inv.date["preceding_invoice_date"])]

TotalsWritten(inv) ==
  [t \in DOMAIN inv.total |-> IF t = VatAmount THEN FmtVat(inv.total[t]) ELSE Fmt(inv.total[t])]

TotalsRead(doc, lost) ==
  [t \in DOMAIN doc.total |-> IF doc.total[t] = None \/ t \in lost THEN 0 ELSE doc.total[t]]

HeaderRead(doc, lost) ==
  [f \in DOMAIN doc.text |->
     IF f \in lost THEN None
     ELSE CASE f \in {"profile", "invoice_number"} -> OrElse(doc.text[f], "")
            [] f = "currency_code" -> OrElse(doc.text[f], "EUR")
            [] OTHER -> doc.text[f]]

\* What EN16931Invoice and its parts refuse: no VAT breakdown, a rate outside
\* 0 to 100, a negative allowance or charge.
Refused(inv) ==
  \/ inv.taxes = <<>>
  \/ \E tax \in ToSet(inv.taxes) : tax.rate < 0 \/ tax.rate > 100000
  \/ \E charge \in ToSet(inv.charges) : charge.amount < 0
  \/ \E line \in ToSet(inv.lines) : \E charge \in ToSet(line.charges) : charge.amount < 0

Each(items, Op(_)) == [i \in DOMAIN items |-> Op(items[i])]

BuildTax(tax) ==
  [tax EXCEPT !.rate = Fmt(@), !.taxable = Fmt(@), !.amount = FmtVat(@)]
ParseTax(el) == [el EXCEPT !.category = OrElse(@, "S")]

BuildCharge(charge) ==
  [charge EXCEPT !.amount = Fmt(@), !.base = FmtOpt(@), !.percentage = FmtOpt(@), !.rate = Fmt(@)]
ParseCharge(el) == [el EXCEPT !.category = OrElse(@, "S")]

\* A base quantity of 1 is not written, and read where there is none; the scheme
\* of an article identifier is an attribute of it.
BuildLine(line) ==
  [line EXCEPT !.price = Fmt(@), !.net = Fmt(@), !.rate = Fmt(@),
               !.article_scheme = If(Given(line.article), @), !.charges = Each(@, BuildCharge)]
ParseLine(el) ==
  [el EXCEPT !.category = OrElse(@, "S"), !.charges = Each(@, ParseCharge)]

-----------------------------------------------------------------------------
(* UBL *)

Contact(party) == If(\E c \in DOMAIN party.contact : Given(party.contact[c]), party.contact)
NoContact == [c \in {"name", "phone", "email"} |-> None]
NoAddress == [line_one |-> "", city |-> "", postcode |-> "", country |-> "XX"]
NoParty == [name |-> "", vat_id |-> None, endpoint |-> None, endpoint_scheme |-> None,
            address |-> NoAddress, contact |-> NoContact]

\* company_ids: the CompanyID elements in document order, the tax scheme's and
\* then the legal entity's, which the base serialiser never writes.
BuildPartyUbl(party) ==
  [name |-> party.name,
   company_ids |-> IF Given(party.vat_id) THEN <<[of |-> "VAT", id |-> party.vat_id]>> ELSE <<>>,
   endpoint |-> party.endpoint,
   endpoint_scheme |-> If(Given(party.endpoint), party.endpoint_scheme),
   address |-> party.address, contact |-> Contact(party)]

\* The VAT number is the first CompanyID below the party, whichever it is.
ParseParty(el) ==
  IF el = None THEN NoParty
  ELSE [name |-> OrElse(el.name, ""),
        vat_id |-> IF el.company_ids = <<>> THEN None ELSE el.company_ids[1].id,
        endpoint |-> el.endpoint, endpoint_scheme |-> el.endpoint_scheme,
        address |-> IF el.address = None THEN NoAddress ELSE el.address,
        contact |-> IF el.contact = None THEN NoContact ELSE el.contact]

\* Account name and BIC are written inside the account, the creditor inside the mandate.
BuildMeansUbl(inv) ==
  LET pm == IF inv.means # None THEN inv.means
            ELSE [code |-> "1", iban |-> None, bic |-> None, account_name |-> None,
                  payment_id |-> None, mandate |-> None, creditor |-> None]
  IN If(inv.means # None \/ inv.date["due_date"] # None,
        [code |-> pm.code, due |-> inv.date["due_date"], payment_id |-> pm.payment_id,
         account |-> If(Given(pm.iban),
                        [id |-> pm.iban, name |-> pm.account_name, bic |-> pm.bic]),
         mandate |-> If(Given(pm.mandate), [id |-> pm.mandate, creditor |-> pm.creditor])])

\* An account without an ID gives the white space before its first child as IBAN.
Stripped(text) == IF text = Blank THEN "" ELSE text
ParseMeansUbl(el) ==
  If(el # None,
     [code |-> OrElse(el.code, "30"), payment_id |-> el.payment_id,
      iban |-> If(el.account # None,
                  IF el.account.id = None THEN Blank ELSE Stripped(el.account.id)),
      bic |-> If(el.account # None, el.account.bic),
      account_name |-> If(el.account # None, el.account.name),
      mandate |-> If(el.mandate # None, el.mandate.id),
      creditor |-> If(el.mandate # None, el.mandate.creditor)])

UblRoot(inv) == IF inv.type = "381" THEN "CreditNote" ELSE "Invoice"

\* serialize / _build_root of EN16931UBLSerializer; the line tag follows the root.
UblDocument(inv, line_tag) ==
  [root |-> UblRoot(inv), type |-> inv.type, text |-> inv.text, date |-> DatesWritten(inv),
   seller |-> BuildPartyUbl(inv.seller), buyer |-> BuildPartyUbl(inv.buyer),
   means |-> BuildMeansUbl(inv), charges |-> Each(inv.charges, BuildCharge),
   total |-> TotalsWritten(inv), taxes |-> Each(inv.taxes, BuildTax),
   line_tag |-> line_tag, lines |-> Each(inv.lines, BuildLine)]
\* Mutant of BuildUbl: a credit note has InvoiceLine elements.
Bug_BuildUbl(inv) == UblDocument(inv, "Invoice")

BuildUbl(inv) == UblDocument(inv, UblRoot(inv))

\* parse / _extract of EN16931UBLParser: document_uuid is not read, the due date
\* of the payment means is a fallback, the lines are those the root calls for.
ParseUbl(doc) ==
  LET due == IF doc.date["due_date"] # None \/ doc.means = None THEN doc.date["due_date"]
             ELSE doc.means.due
  IN [type |-> OrElse(doc.type, IF doc.root = "CreditNote" THEN "381" ELSE "380"),
      text |-> HeaderRead(doc, {"document_uuid"}),
      date |-> [doc.date EXCEPT !["due_date"] = due, !["invoice_date"] = OrElse(@, Today)],
      seller |-> ParseParty(doc.seller), buyer |-> ParseParty(doc.buyer),
      means |-> ParseMeansUbl(doc.means), charges |-> Each(doc.charges, ParseCharge),
      total |-> TotalsRead(doc, {}),
      taxes |-> Each(doc.taxes, ParseTax),
      lines |-> IF doc.line_tag = doc.root THEN Each(doc.lines, ParseLine) ELSE <<>>]

-----------------------------------------------------------------------------
(* CII *)

\* Parties, VAT breakdown, allowances, charges and lines have other elements and the
\* same contents, defaults and gaps; company_ids are the tax registrations, of
\* scheme VA when written here.
BuildPartyCii(party) == BuildPartyUbl(party)
ParsePartyCii(el) == ParseParty(el)
BuildTaxCii(tax) == BuildTax(tax)
ParseTaxCii(el) == ParseTax(el)
BuildChargeCii(charge) == BuildCharge(charge)
ParseChargeCii(el) == ParseCharge(el)
BuildLineCii(line) == BuildLine(line)
ParseLineCii(el) == ParseLine(el)

\* The bank is an element of its own; a mandate has none, and the payment
\* identifier is the settlement's PaymentReference.
BuildMeansCii(inv) ==
  If(inv.means # None,
     [code |-> inv.means.code,
      account |-> If(Given(inv.means.iban),
                     [id |-> inv.means.iban, name |-> inv.means.account_name]),
      bic |-> inv.means.bic])
ParseMeansCii(el) ==
  If(el # None,
     [code |-> OrElse(el.code, "30"),
      iban |-> If(el.account # None, Stripped(el.account.id)),
      account_name |-> If(el.account # None, el.account.name),
      bic |-> el.bic, payment_id |-> None, mandate |-> None, creditor |-> None])

\* Mutant of CiiTotals: the prepaid amount is not written.
Bug_CiiTotals(inv) ==
  [TotalsWritten(inv) EXCEPT !["rounding_amount"] = None, !["prepaid_amount"] = None]

\* _build_monetary_summary: no rounding amount.
CiiTotals(inv) == [TotalsWritten(inv) EXCEPT !["rounding_amount"] = None]

\* serialize / _build_root of EN16931CIISerializer: no UUID.
BuildCii(inv) ==
  [root |-> "CrossIndustryInvoice", type |-> inv.type,
   text |-> [inv.text EXCEPT !["document_uuid"] = None], date |-> DatesWritten(inv),
   seller |-> BuildPartyCii(inv.seller), buyer |-> BuildPartyCii(inv.buyer),
   means |-> BuildMeansCii(inv),
   reference |-> If(inv.means # None, inv.means.payment_id),
   charges |-> Each(inv.charges, BuildChargeCii),
   total |-> CiiTotals(inv),
   taxes |-> Each(inv.taxes, BuildTaxCii), lines |-> Each(inv.lines, BuildLineCii)]

\* parse / _extract of EN16931CIIParser: the business process, the payment reference
\* and the rounding amount are not read.
ParseCii(doc) ==
  [type |-> OrElse(doc.type, "380"),
   text |-> HeaderRead(doc, {"document_uuid", "business_process"}),
   date |-> [doc.date EXCEPT !["invoice_date"] = OrElse(@, Today)],
   seller |-> ParsePartyCii(doc.seller), buyer |-> ParsePartyCii(doc.buyer),
   means |-> ParseMeansCii(doc.means), charges |-> Each(doc.charges, ParseChargeCii),
   total |-> TotalsRead(doc, {"rounding_amount"}),
   taxes |-> Each(doc.taxes, ParseTaxCii), lines |-> Each(doc.lines, ParseLineCii)]

-----------------------------------------------------------------------------
(* Conversion and credit notes *)

Syntaxes == {"UBL", "CII"}
Mention == "a note that names CrossIndustryInvoice"

\* _detect_syntax: by what stands in the first bytes, the note included.
DetectSyntax(doc) ==
  IF doc.root = "CrossIndustryInvoice" \/ doc.text["note"] = Mention THEN "CII" ELSE "UBL"

Build(inv, syntax) == IF syntax = "UBL" THEN BuildUbl(inv) ELSE BuildCii(inv)
Parse(doc) == IF doc.root = "CrossIndustryInvoice" THEN ParseCii(doc) ELSE ParseUbl(doc)

\* convert_wire_format raises: the target is the detected syntax, the parser of
\* the detected syntax finds nothing, or the model refuses what it finds.
ConversionRaises(doc, target) ==
  \/ DetectSyntax(doc) = target
  \/ DetectSyntax(doc) = "CII" /\ doc.root # "CrossIndustryInvoice"
  \/ Refused(Parse(doc))
ConvertWireFormat(doc, target) == Build(Parse(doc), target)

\* Mutant of CreditNote: the date is not filled in.
Bug_CreditNote(inv, code, number, billing) ==
  [inv EXCEPT
     !.type = code,
     !.text["invoice_number"] = number,
     !.text["preceding_invoice_reference"] = IF @ = None THEN billing.number ELSE @]
\* EN16931CreditNote: the preceding invoice fields are filled where they are None.
CreditNote(inv, code, number, billing) ==
  [inv EXCEPT
     !.type = code,
     !.text["invoice_number"] = number,
     !.text["preceding_invoice_reference"] = IF @ = None THEN billing.number ELSE @,
     !.date["preceding_invoice_date"] = IF @ = None THEN billing.date ELSE @]

-----------------------------------------------------------------------------
(* What invoices and documents are *)

TotalFields == {"tax_exclusive_amount", "tax_total", "tax_inclusive_amount",
                "prepaid_amount", "rounding_amount", "amount_due"}
TextFields == {"profile", "invoice_number", "currency_code", "note", "business_process",
               "document_uuid", "preceding_invoice_reference"}

IsText(text) == TextFields \subseteq DOMAIN text /\ text = [f \in DOMAIN text |-> text[f]]
IsDate(date) == DOMAIN date = Dates /\ date = [d \in Dates |-> date[d]]

\* Parts of EN16931Invoice, and the elements written for them.
IsTax(tax) ==
  tax \in [category : {tax.category}, rate : Int, taxable : Int, amount : Int,
           reason : {tax.reason}]
IsCharge(charge) ==
  charge \in [is_charge : {charge.is_charge}, amount : Int, base : Int \cup {None},
              percentage : Int \cup {None}, reason : {charge.reason},
              category : {charge.category}, rate : Int]
IsLine(line) ==
  /\ line \in [id : {line.id}, quantity : {line.quantity}, base : {line.base}, price : Int,
               net : Int, category : {line.category}, rate : Int, article : {line.article},
               article_scheme : {line.article_scheme}, charges : {line.charges}]
  /\ \A i \in DOMAIN line.charges : IsCharge(line.charges[i])
HasParts(d) ==
  /\ IsText(d.text) /\ IsDate(d.date)
  /\ \A i \in DOMAIN d.taxes : IsTax(d.taxes[i])
  /\ \A i \in DOMAIN d.charges : IsCharge(d.charges[i])
  /\ \A i \in DOMAIN d.lines : IsLine(d.lines[i])

\* EN16931Invoice
IsInvoice(inv) ==
  /\ inv = [type |-> inv.type, text |-> inv.text, date |-> inv.date, seller |-> inv.seller,
            buyer |-> inv.buyer, means |-> inv.means, charges |-> inv.charges,
            total |-> inv.total, taxes |-> inv.taxes, lines |-> inv.lines]
  /\ HasParts(inv)
  /\ inv.total \in [TotalFields -> Int]

\* The element of a party has nothing empty below it: an empty VAT number is read, but
\* not written again.
IsParty(el) ==
  \/ el = None
  \/ /\ el.company_ids = <<>> \/ Given(el.company_ids[1].id)
     /\ Given(el.endpoint) \/ el.endpoint_scheme = None
     /\ el.contact = None \/ \E c \in DOMAIN el.contact : Given(el.contact[c])

\* A document of either syntax, with totals in cents; the date of a preceding invoice
\* stands inside the reference to it.
InCents(amount) == amount = None \/ (amount \in Int /\ amount % 10 = 0)
IsDocument(d) ==
  /\ d.root \in {"CrossIndustryInvoice", "Invoice", "CreditNote"}
  /\ HasParts(d)
  /\ Given(d.text["preceding_invoice_reference"]) \/ d.date["preceding_invoice_date"] = None
  /\ IsParty(d.seller) /\ IsParty(d.buyer)
  /\ DOMAIN d.total = TotalFields
  /\ \A t \in TotalFields : InCents(d.total[t])
=============================================================================
