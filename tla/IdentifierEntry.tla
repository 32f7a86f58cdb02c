------------------------------ MODULE IdentifierEntry ------------------------------
(***************************************************************************)
(* Issued identifiers on their way into an invoice: one is entered as it   *)
(* is, in the spelling its validator documents, or with one slip of the    *)
(* keyboard, and validated.                                                *)
(***************************************************************************)
EXTENDS TaxIdentifiers

CONSTANT Candidates  \* per scheme, texts of its format, the valid ones among them issued

VARIABLES
  scheme,
  issued,   \* a valid identifier
  entered,  \* what the validator is given
  slip      \* what happened to it

vars == <<scheme, issued, entered, slip>>

Schemes ==
  {"it_partita_iva", "it_codice_fiscale", "fr_siren", "fr_siret", "fr_tva_intra", "br_cpf",
   "br_cnpj", "pl_nip", "pl_regon", "sg_uen", "de_vat", "be_vat", "es_nif", "es_nie", "es_cif",
   "de_leitweg", "be_ogm", "ae_trn", "in_gstin"}

\* The schemes whose identifiers are digits, after the country prefix if there is one.
DigitSchemes ==
  {"fr_siren", "fr_siret", "fr_tva_intra", "br_cpf", "pl_nip", "pl_regon", "de_vat", "be_vat"}

\* An identifier is issued without separators, but those of a Leitweg-ID, and without
\* a country prefix.
IsBare(s, x) ==
  /\ x \in Seq((0..35) \cup (IF s = "de_leitweg" THEN {Dash} ELSE {}))
  /\ s \in DigitSchemes => AllDigits(x)

CandidatesBare ==
  \A s \in DOMAIN Candidates : s \in Schemes /\ \A x \in Candidates[s] : IsBare(s, x)

Init ==
  /\ scheme \in DOMAIN Candidates
  /\ issued \in {x \in Candidates[scheme] : Valid(scheme, x)}
  /\ entered = issued
  /\ slip = "none"

Enter(text, how) ==
  /\ slip = "none"
  /\ entered' = text
  /\ slip' = how
  /\ UNCHANGED <<scheme, issued>>

\* One digit becomes another.
Mistype(i, d) ==
  /\ IsDigit(issued[i]) /\ d # issued[i]
  /\ Enter([issued EXCEPT ![i] = d], "digit")

\* Two neighbouring digits change places.
Swap(i) ==
  /\ i < Len(issued)
  /\ IsDigit(issued[i]) /\ IsDigit(issued[i + 1]) /\ issued[i] # issued[i + 1]
  /\ Enter([issued EXCEPT ![i] = issued[i + 1], ![i + 1] = issued[i]], "swap")

\* A letter slips in.
Stray(i) ==
  Enter(SubSeq(issued, 1, i) \o <<24>> \o SubSeq(issued, i + 1, Len(issued)), "stray")

\* The spellings the validators document: surrounding blanks, a country prefix,
\* separators.
Spellings(x) ==
  LET blank == <<Space>> \o x \o <<Space>>
      Grouped(n, c) == SubSeq(x, 1, n) \o <<c>> \o SubSeq(x, n + 1, Len(x))
  IN CASE scheme \in {"fr_siren", "fr_siret", "pl_regon"} -> {blank, Grouped(3, Space)}
       [] scheme = "pl_nip" -> {Grouped(3, Dash), Grouped(6, Space)}
       [] scheme = "fr_tva_intra" -> {<<15, 27>> \o x, Grouped(2, Space)}
       [] scheme \in {"br_cpf", "br_cnpj"} -> {Grouped(3, Dot), Grouped(Len(x) - 2, Dash)}
       [] scheme = "de_vat" -> {<<13, 14>> \o x, blank}
       [] scheme = "be_vat" -> {<<11, 14>> \o x, Grouped(4, Dot)}
       [] scheme = "be_ogm" -> {Grouped(3, Slash), <<Plus, Plus, Plus>> \o x}
       [] scheme = "de_leitweg" -> {x}
       [] OTHER -> {blank}
Spell == \E x \in Spellings(issued) : Enter(x, "spelling")

Next ==
  \/ \E i \in DOMAIN issued : (\E d \in 0..9 : Mistype(i, d)) \/ Swap(i)
  \/ \E i \in 0..Len(issued) : Stray(i)
  \/ Spell

Spec == Init /\ [][Next]_vars
-----------------------------------------------------------------------------
(* Properties *)

\* One wrong digit never turns an identifier into another valid one, whatever the
\* position, at the remainders 0 and 10 too, and two digits in the wrong order do
\* not either where the weights are made for it; the spellings the validators
\* document are all accepted.  A REGON, whose 10 counts as 0, a CPF and a CNPJ,
\* whose remainders 0 and 1 both count as 0, can be mistaken; TRN and GSTIN have no
\* check digit.
WeakSchemes == {"pl_regon", "br_cpf", "br_cnpj", "ae_trn", "in_gstin"}
OrderedSchemes == {"fr_tva_intra", "be_vat", "be_ogm", "de_leitweg", "es_nif", "es_nie"}
EntriesJudged ==
  /\ slip = "digit" /\ scheme \notin WeakSchemes => ~Valid(scheme, entered)
  /\ slip = "swap" /\ scheme \in OrderedSchemes => ~Valid(scheme, entered)
  /\ slip = "spelling" => Valid(scheme, entered)

\* "Dashes and spaces are stripped": violated, the validators that keep the digits only also
\* drop a letter.
StrayRejected == slip = "stray" => ~Valid(scheme, entered)
=============================================================================
