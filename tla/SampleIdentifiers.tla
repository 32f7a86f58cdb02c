----------------------------- MODULE SampleIdentifiers -----------------------------
EXTENDS TaxIdentifiers

\* Numbers of a scheme: a base with two of its digits varied, and every ending.
Numbers(base, i, j, endings) ==
  {[[base EXCEPT ![i] = a] EXCEPT ![j] = b] \o e : a \in 0..9, b \in 0..9, e \in endings}
Digit == {<<a>> : a \in 0..9}
Digits == {<<a, b>> : a \in 0..9, b \in 0..9}
Letter == {<<a>> : a \in 10..35}

Samples == [
  it_partita_iva |-> Numbers(<<0, 7, 6, 4, 3, 5, 2, 0, 1, 6>>, 2, 9, Digit),
  it_codice_fiscale |-> Numbers(<<27, 28, 28, 22, 27, 10, 8, 0, 10, 0, 1, 17, 2, 0, 5>>, 8, 14, Letter),
  fr_siren |-> Numbers(<<7, 3, 2, 8, 2, 9, 3, 2>>, 2, 7, Digit),
  fr_siret |-> Numbers(<<7, 3, 2, 8, 2, 9, 3, 2, 0, 0, 0, 0, 7>>, 9, 12, Digit),
  fr_tva_intra |-> {e \o b : e \in Digits, b \in Numbers(<<4, 0, 4, 8, 3, 3, 0, 4>>, 3, 8, {<<8>>})},
  br_cpf |-> Numbers(<<1, 1, 1, 4, 4, 4, 7, 7, 7>>, 1, 8, Digits),
  br_cnpj |-> Numbers(<<1, 2, 10, 11, 12, 3, 4, 5, 0, 1, 13, 14>>, 1, 6, Digits),
  pl_nip |-> Numbers(<<5, 2, 6, 0, 2, 5, 0, 2, 7>>, 2, 9, Digit),
  pl_regon |-> Numbers(<<1, 2, 3, 7, 8, 5, 7, 3>>, 3, 7, Digit)
               \cup Numbers(<<1, 2, 3, 7, 8, 5, 7, 3, 1, 4, 2, 3, 0>>, 3, 12, Digit),
  sg_uen |-> Numbers(<<0, 0, 1, 9, 2, 2, 0, 0>>, 3, 8, Letter)
             \cup Numbers(<<1, 9, 9, 9, 0, 2, 1, 1, 0>>, 5, 8, Letter)
             \cup Numbers(<<29, 0, 1, 15, 12, 6, 1, 2, 3>>, 2, 8, Letter),
  de_vat |-> Numbers(<<1, 3, 6, 6, 9, 5, 9, 7>>, 2, 8, Digit),
  be_vat |-> Numbers(<<0, 4, 2, 8, 7, 5, 9, 4>>, 2, 8, Digits),
  es_nif |-> Numbers(<<5, 4, 3, 6, 2, 3, 1, 5>>, 1, 8, Letter),
  es_nie |-> Numbers(<<33, 2, 4, 8, 2, 3, 0, 0>>, 2, 8, Letter),
  es_cif |-> Numbers(<<10, 5, 8, 8, 1, 8, 5, 0>>, 2, 7, Digit)
             \cup Numbers(<<25, 5, 8, 8, 1, 8, 5, 0>>, 2, 7, Letter),
  de_leitweg |-> Numbers(<<0, 4, 0, 1, 1, Dash, 1, 2, 10, 11, Dash>>, 2, 8, Digits),
  be_ogm |-> Numbers(<<0, 9, 0, 9, 3, 3, 7, 5, 5, 4>>, 1, 9, Digits),
  ae_trn |-> {<<1, 9, 8, 7, 6, 5, 4, 3, 2, 1, 0, 2, 0, 0, 3>>},
  in_gstin |-> {<<2, 9, 10, 11, 12, 12, 27, 1, 8, 3, 2, 12, 1, 35, 33>>}]
=============================================================================
