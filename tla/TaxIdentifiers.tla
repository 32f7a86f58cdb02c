------------------------------ MODULE TaxIdentifiers ------------------------------
(***************************************************************************)
(* The check-digit validators of TaxIdentifier (models.py) and              *)
(* RoutingIdentifier (routing.py).                                         *)
(*                                                                         *)
(* A text is a sequence of characters: 0..9 are the digits, 10..35 the     *)
(* letters A..Z (the validators that accept lower case convert it), and    *)
(* Space, Dash, Dot, Slash and Plus are separators.  Each validator sees   *)
(* the text in its Normal form.                                            *)
(***************************************************************************)
EXTENDS Integers, Sequences

Space == 36
Dash == 37
Dot == 38
Slash == 39
Plus == 40
Characters == 0..40

IsDigit(c) == c \in 0..9
IsLetter(c) == c \in 10..35
AllDigits(x) == \A i \in DOMAIN x : IsDigit(x[i])

\* The characters of a text that are in a set, in their order.
Kept(x, characters) ==
  LET kept[i \in 0..Len(x)] ==
        IF i = 0 THEN <<>>
        ELSE IF x[i] \in characters THEN Append(kept[i - 1], x[i]) ELSE kept[i - 1]
  IN kept[Len(x)]

\* "".join(c for c in identifier if c.isdigit())
OnlyDigits(x) == Kept(x, 0..9)
Without(x, separators) == Kept(x, Characters \ separators)
\* str.strip()
Strip(x) ==
  LET at == {i \in DOMAIN x : x[i] # Space}
      first == CHOOSE i \in at : \A j \in at : i <= j
      last == CHOOSE i \in at : \A j \in at : j <= i
  IN IF at = {} THEN <<>> ELSE SubSeq(x, first, last)
\* removeprefix of a country code
Unprefixed(x, country) ==
  IF Len(x) >= 2 /\ SubSeq(x, 1, 2) = country THEN SubSeq(x, 3, Len(x)) ELSE x

\* sum(f[1..n])
Sum(f, n) == LET s[i \in 0..n] == IF i = 0 THEN 0 ELSE s[i - 1] + f[i] IN s[n]
Weighted(x, weights) == Sum([i \in 1..Len(weights) |-> x[i] * weights[i]], Len(weights))

\* int(x) % m; a letter counts for two digits, as in ISO 7064
Modulo(x, m) ==
  LET r[i \in 0..Len(x)] ==
        IF i = 0 THEN 0 ELSE (r[i - 1] * (IF IsDigit(x[i]) THEN 10 ELSE 100) + x[i]) % m
  IN r[Len(x)]
Value(x) == LET v[i \in 0..Len(x)] == IF i = 0 THEN 0 ELSE v[i - 1] * 10 + x[i] IN v[Len(x)]
-----------------------------------------------------------------------------
(* Italy, France: Luhn sums *)

Doubled(d) == IF 2 * d > 9 THEN 2 * d - 9 ELSE 2 * d

ItPartitaIva(x) ==
  LET total == Sum([i \in 1..10 |-> IF i % 2 = 0 THEN Doubled(x[i]) ELSE x[i]], 10)
  IN Len(x) = 11 /\ AllDigits(x) /\ x[11] = (10 - (total % 10)) % 10

\* Every second digit from the right is doubled.
Luhn(x) ==
  LET n == Len(x)
  IN Sum([i \in 1..n |-> IF (n - i) % 2 = 1 THEN Doubled(x[i]) ELSE x[i]], n) % 10

FrSiren(x) == Len(x) = 9 /\ Luhn(x) = 0
FrSiret(x) == Len(x) = 14 /\ Luhn(x) = 0

FrTvaIntra(x) ==
  /\ Len(x) = 11 /\ AllDigits(x)
  /\ Value(SubSeq(x, 1, 2)) = (12 + 3 * Modulo(SubSeq(x, 3, 11), 97)) % 97

\* _IT_CF_ODD_MAP: a digit counts as the letter at its place.
OddMap == <<1, 0, 5, 7, 9, 13, 15, 17, 19, 21, 2, 4, 18, 20, 11, 3, 6, 8, 12, 14,
            16, 10, 22, 25, 24, 23>>
Place(c) == IF IsDigit(c) THEN c ELSE c - 10
ItCodiceFiscale(x) ==
  LET total == Sum([i \in 1..15 |-> IF i % 2 = 1 THEN OddMap[Place(x[i]) + 1] ELSE Place(x[i])], 15)
  IN /\ Len(x) = 16
     /\ \A i \in (1..6) \cup {9, 16} : IsLetter(x[i])
     /\ \A i \in {7, 8, 10, 11} : IsDigit(x[i])
     /\ \A i \in 12..15 : IsDigit(x[i]) \/ IsLetter(x[i])
     /\ x[16] = 10 + (total % 26)
-----------------------------------------------------------------------------
(* Brazil, Poland, Singapore: weighted sums modulo 11 *)

\* _br_check_digit, on ord(c) - 48.
BrCheckDigit(x, weights) ==
  LET ord == [i \in DOMAIN x |-> IF IsDigit(x[i]) THEN x[i] ELSE x[i] + 7]
      remainder == Weighted(ord, weights) % 11
  IN IF remainder < 2 THEN 0 ELSE 11 - remainder

NotUniform(x) == \E i, j \in DOMAIN x : x[i] # x[j]

\* Two check digits; the weights of the first are those of the second but one.
BrChecked(base, checks, weights) ==
  LET check1 == BrCheckDigit(base, Tail(weights))
  IN checks = <<check1, BrCheckDigit(Append(base, check1), weights)>>

BrCpf(x) ==
  /\ Len(x) = 11 /\ NotUniform(x)
  /\ BrChecked(SubSeq(x, 1, 9), SubSeq(x, 10, 11), <<11, 10, 9, 8, 7, 6, 5, 4, 3, 2>>)

BrCnpj(x) ==
  LET base == SubSeq(x, 1, 12)
  IN /\ Len(x) = 14 /\ AllDigits(SubSeq(x, 13, 14))
     /\ \A i \in 1..12 : IsDigit(x[i]) \/ IsLetter(x[i])
     /\ NotUniform(base)
     /\ BrChecked(base, SubSeq(x, 13, 14), <<6, 5, 4, 3, 2, 9, 8, 7, 6, 5, 4, 3, 2>>)

\* Mutant of PlNip: the remainder 10 stands for 0, as in a REGON.
Bug_PlNip(x) ==
  Len(x) = 10 /\ x[10] = (Weighted(x, <<6, 5, 7, 2, 3, 4, 5, 6, 7>>) % 11) % 10

PlNip(x) ==
  Len(x) = 10 /\ x[10] = Weighted(x, <<6, 5, 7, 2, 3, 4, 5, 6, 7>>) % 11

PlRegon(x) ==
  LET weights == IF Len(x) = 9 THEN <<8, 9, 2, 3, 4, 5, 6, 7>>
                 ELSE <<2, 4, 8, 5, 0, 9, 7, 3, 6, 1, 2, 4, 8>>
  IN Len(x) \in {9, 14} /\ x[Len(x)] = (Weighted(x, weights) % 11) % 10

\* The letters of XMKECAWLJDB and ZKCMDNERGWH; LL and FC of the 38 entity types.
BusinessLetters == <<33, 22, 20, 14, 12, 10, 32, 21, 19, 13, 11>>
CompanyLetters == <<35, 20, 12, 22, 13, 23, 14, 27, 16, 32, 17>>
EntityTypes == {<<21, 21>>, <<15, 12>>}
\* The index in ABCDEFGHJKLMNPQRSTUVWX0123456789; I, O, Y and Z have none.
UenIndex(c) ==
  IF IsDigit(c) THEN c + 22 ELSE (c - 10) - (IF c > 18 THEN 1 ELSE 0) - (IF c > 24 THEN 1 ELSE 0)
UenLetter(i) == IF i < 8 THEN 10 + i ELSE 11 + i
SgUen(x) ==
  LET Index(n) == [i \in 1..n |-> UenIndex(x[i])]
  IN \/ /\ Len(x) = 9 /\ AllDigits(SubSeq(x, 1, 8))
        /\ x[9] = BusinessLetters[(Weighted(x, <<10, 4, 9, 3, 8, 2, 7, 1>>) % 11) + 1]
     \/ /\ Len(x) = 10 /\ AllDigits(SubSeq(x, 1, 9))
        /\ x[10] = CompanyLetters[(Weighted(x, <<10, 8, 6, 4, 9, 7, 5, 3, 1>>) % 11) + 1]
     \/ /\ Len(x) = 10 /\ x[1] \in 27..29 /\ SubSeq(x, 4, 5) \in EntityTypes
        /\ AllDigits(SubSeq(x, 2, 3)) /\ AllDigits(SubSeq(x, 6, 9))
        /\ x[10] = UenLetter((Weighted(Index(9), <<4, 3, 5, 3, 10, 2, 2, 5, 7>>) - 5) % 11)
-----------------------------------------------------------------------------
(* Germany, Belgium, Spain *)

DeVat(x) ==
  LET product[i \in 0..8] ==
        IF i = 0 THEN 10
        ELSE LET total == (x[i] + product[i - 1]) % 10
             IN ((IF total = 0 THEN 10 ELSE total) * 2) % 11
  IN Len(x) = 9 /\ AllDigits(x) /\ x[9] = (11 - product[8]) % 10

BeVat(x) ==
  /\ Len(x) = 10 /\ AllDigits(x) /\ x[1] \in {0, 1}
  /\ Value(SubSeq(x, 9, 10)) = 97 - Modulo(SubSeq(x, 1, 8), 97)

\* TRWAGMYFPDXBNJZSQVHLCKE
NifLetters == <<29, 27, 32, 10, 16, 22, 34, 15, 25, 13, 33, 11, 23, 19, 35, 28, 26,
                31, 17, 21, 12, 20, 14>>
EsNif(x) ==
  Len(x) = 9 /\ AllDigits(SubSeq(x, 1, 8)) /\ x[9] = NifLetters[Modulo(SubSeq(x, 1, 8), 23) + 1]
EsNie(x) ==
  Len(x) = 9 /\ x[1] \in 33..35 /\ EsNif([x EXCEPT ![1] = x[1] - 33])

\* The letters the format admits, those that need a digit, those that need a letter.
CifFormat == ((10..17) \cup (19..32)) \ {18, 20, 21, 22, 24, 29}
CifDigit == {10, 11, 14, 17}
CifLetter == {20, 25, 26, 28}
EsCif(x) ==
  LET even == x[3] + x[5] + x[7]
      Both(d) == (2 * d) \div 10 + ((2 * d) % 10)
      check == (10 - ((even + Both(x[2]) + Both(x[4]) + Both(x[6]) + Both(x[8])) % 10)) % 10
      letter == IF check = 0 THEN 19 ELSE 9 + check   \* JABCDEFGHI
  IN /\ Len(x) = 9 /\ x[1] \in CifFormat
     /\ AllDigits(SubSeq(x, 2, 8)) /\ x[9] \in 0..19
     /\ CASE x[1] \in CifDigit -> x[9] = check
          [] x[1] \in CifLetter -> x[9] = letter
          [] OTHER -> x[9] \in {check, letter}
-----------------------------------------------------------------------------
(* Routing identifiers *)

\* One to twelve digits, perhaps a second part of up to 30 letters and digits, two
\* check digits, with dashes between: the whole is 1 modulo 97.
DeLeitweg(x) ==
  LET dashes == {i \in DOMAIN x : x[i] = Dash}
      first == CHOOSE i \in dashes : \A j \in dashes : i <= j
      last == CHOOSE i \in dashes : \A j \in dashes : j <= i
  IN /\ dashes # {} /\ first \in 2..13 /\ last = Len(x) - 2
     /\ AllDigits(SubSeq(x, 1, first - 1)) /\ AllDigits(SubSeq(x, last + 1, Len(x)))
     /\ dashes = {first, last} /\ (first = last \/ last - first \in 2..31)
     /\ \A i \in DOMAIN x : IsDigit(x[i]) \/ IsLetter(x[i]) \/ x[i] = Dash
     /\ Modulo(Without(x, {Dash}), 97) = 1

BeOgm(x) ==
  LET remainder == Modulo(SubSeq(x, 1, 10), 97)
  IN /\ Len(x) = 12 /\ AllDigits(x)
     /\ Value(SubSeq(x, 11, 12)) = IF remainder = 0 THEN 97 ELSE remainder
-----------------------------------------------------------------------------
\* Letters and digits only, where no check digit is known.
AeTrn(x) == Len(x) = 15 /\ AllDigits(x)
InGstin(x) ==
  Len(x) = 15 /\ \A i \in 1..15 : IsDigit(x[i]) \/ (i > 2 /\ IsLetter(x[i]))

-----------------------------------------------------------------------------
\* What each validator takes off before it looks at the rest.
Normal(scheme, x) ==
  CASE scheme \in {"fr_siren", "fr_siret", "br_cpf", "pl_nip", "pl_regon"} -> OnlyDigits(x)
    [] scheme = "fr_tva_intra" -> Unprefixed(Without(x, {Space}), <<15, 27>>)
    [] scheme = "br_cnpj" -> Without(x, {Dot, Dash, Slash})
    [] scheme = "de_vat" -> Unprefixed(Strip(x), <<13, 14>>)
    [] scheme = "be_vat" -> Unprefixed(Without(x, {Dot, Space}), <<11, 14>>)
    [] scheme = "be_ogm" -> Without(x, {Plus, Slash, Space, Dot, Dash})
    [] scheme = "de_leitweg" -> x
    [] OTHER -> Strip(x)

Conforms(scheme, x) ==
  CASE scheme = "it_partita_iva" -> ItPartitaIva(x)
    [] scheme = "it_codice_fiscale" -> ItCodiceFiscale(x)
    [] scheme = "fr_siren" -> FrSiren(x)
    [] scheme = "fr_siret" -> FrSiret(x)
    [] scheme = "fr_tva_intra" -> FrTvaIntra(x)
    [] scheme = "br_cpf" -> BrCpf(x)
    [] scheme = "br_cnpj" -> BrCnpj(x)
    [] scheme = "pl_nip" -> PlNip(x)
    [] scheme = "pl_regon" -> PlRegon(x)
    [] scheme = "sg_uen" -> SgUen(x)
    [] scheme = "de_vat" -> DeVat(x)
    [] scheme = "be_vat" -> BeVat(x)
    [] scheme = "es_nif" -> EsNif(x)
    [] scheme = "es_nie" -> EsNie(x)
    [] scheme = "es_cif" -> EsCif(x)
    [] scheme = "de_leitweg" -> DeLeitweg(x)
    [] scheme = "be_ogm" -> BeOgm(x)
    [] scheme = "ae_trn" -> AeTrn(x)
    [] scheme = "in_gstin" -> InGstin(x)

Valid(scheme, x) == Conforms(scheme, Normal(scheme, x))
=============================================================================
