------------------------------ MODULE SampleDocuments ------------------------------
EXTENDS WireFormats

Address == [line_one |-> "street", city |-> "city", postcode |-> "1000", country |-> "BE"]
Party(vat) ==
  [name |-> "company", vat_id |-> vat, endpoint |-> "208", endpoint_scheme |-> "0208",
   address |-> Address, contact |-> [c \in {"name", "phone", "email"} |-> If(c = "email", "mail")]]
Charge == [is_charge |-> FALSE, amount |-> 5005, base |-> None, percentage |-> 3335,
           reason |-> None, category |-> "S", rate |-> 21000]
Line(price) ==
  [id |-> "1", quantity |-> 3, base |-> 1, price |-> price, net |-> 3 * price, category |-> "S",
   rate |-> 21000, article |-> None, article_scheme |-> "0160", charges |-> <<Charge>>]
Means(iban, bic) ==
  [code |-> "58", iban |-> iban, bic |-> bic, account_name |-> If(bic # None, "holder"),
   payment_id |-> "RF18", mandate |-> "M1", creditor |-> "C1"]
Header == DOMAIN [profile |-> 0, invoice_number |-> 0, currency_code |-> 0, note |-> 0,
                  buyer_reference |-> 0, payment_terms |-> 0, business_process |-> 0,
                  document_uuid |-> 0, preceding_invoice_reference |-> 0]
Text(note, preceding, optional) ==
  [f \in Header |-> CASE f = "profile" -> "urn" [] f = "invoice_number" -> "INV" [] f = "currency_code" -> "EUR"
                      [] f = "note" -> note [] f = "preceding_invoice_reference" -> preceding
                      [] OTHER -> optional]
DatesOf(due, preceding) ==
  [d \in Dates |-> CASE d = "invoice_date" -> "d2" [] d = "due_date" -> due
                     [] d = "preceding_invoice_date" -> preceding [] d = "delivery_date" -> None
                     [] OTHER -> "d1"]
\* Totals that add up: tax and rounding in thousandths.
Totals(tax, rounding) ==
  [tax_exclusive_amount |-> 100000, tax_total |-> tax, tax_inclusive_amount |-> 100000 + tax,
   prepaid_amount |-> 20000, rounding_amount |-> rounding,
   amount_due |-> 80000 + tax + rounding]
ForeignTotals(rounding) ==
  IF rounding = None THEN [Totals(21010, 0) EXCEPT !["rounding_amount"] = None] ELSE Totals(21010, rounding)
Tax(amount) == [category |-> "S", rate |-> 21000, taxable |-> 100000, amount |-> amount, reason |-> None]

SampleInvoices ==
  {[type |-> type, text |-> Text(note, preceding[1], optional), date |-> DatesOf(due, preceding[2]),
    seller |-> Party("VAT1"), buyer |-> Party(vat), means |-> means, charges |-> <<Charge>>,
    total |-> Totals(tax[1], tax[2]), taxes |-> taxes, lines |-> <<Line(tax[3])>>] :
     type \in {"380", "381", "384"}, note \in {None, "text", Mention},
     preceding \in {<<None, None>>, <<None, "d0">>, <<"OLD", None>>, <<"OLD", "d0">>},
     optional \in {None, "x"}, due \in {None, "d3"}, vat \in {None, "VAT2"},
     means \in {None, Means(None, "BIC"), Means("IBAN", None), Means("IBAN", "BIC")},
     tax \in {<<21000, 0, 5>>, <<21000, 30, 1125>>, <<21005, -40, 1000>>, <<21015, 0, 333335>>},
     taxes \in {<<>>, <<Tax(21005)>>}}

\* As another producer writes them: no due date but in the payment means, a legal
\* registration, a tax number before the VAT number, an account without ID, no
\* seller, a self-billed credit note, prices of three decimals.
ForeignUbl ==
  {[root |-> root, type |-> type, text |-> Text("text", None, None), date |-> DatesOf(due, None),
    seller |-> seller, buyer |-> BuildPartyUbl(Party("VAT2")), means |-> means,
    charges |-> <<Charge>>, total |-> ForeignTotals(rounding), taxes |-> <<Tax(21010)>>,
    line_tag |-> root, lines |-> <<Line(1125)>>] :
     root \in {"Invoice", "CreditNote"}, type \in {None, "396"}, due \in {None, "d3"}, rounding \in {None, 30},
     seller \in {None} \cup {[BuildPartyUbl(Party(None)) EXCEPT !.company_ids = ids] :
                               ids \in {<<[of |-> "legal", id |-> "LEGAL"]>>,
                                        <<[of |-> "VAT", id |-> "VAT1"], [of |-> "legal", id |-> "LEGAL"]>>}},
     means \in {None} \cup {[code |-> "30", due |-> d, payment_id |-> None, mandate |-> None,
                             account |-> [id |-> id, name |-> "holder", bic |-> "BIC"]] :
                              d \in {None, "d4"}, id \in {None, "IBAN"}}}
ForeignCii ==
  {[root |-> "CrossIndustryInvoice", type |-> "380",
    text |-> [Text("text", None, "x") EXCEPT !["invoice_number"] = number],
    date |-> DatesOf(None, None), seller |-> [BuildPartyCii(Party(None)) EXCEPT !.company_ids = ids],
    buyer |-> BuildPartyCii(Party("VAT2")), means |-> None, reference |-> None, charges |-> <<>>,
    total |-> ForeignTotals(r), taxes |-> taxes, lines |-> <<>>] :
     r \in {None, 40}, number \in {None, "INV"}, taxes \in {<<>>, <<Tax(21010)>>},
     ids \in {<<>>, <<[of |-> "FC", id |-> "TAXNO"], [of |-> "VAT", id |-> "VAT1"]>>}}
ForeignDocuments == ForeignUbl \cup ForeignCii
=============================================================================
