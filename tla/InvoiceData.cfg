\* Two signing sessions and an exchange of credentials; every scheme with a hundred
\* bases and every ending; invoices of all shapes through five conversions and a
\* credit note.
SPECIFICATION DataSpec
CONSTANTS
  Candidates <- Samples
  Invoices <- SampleInvoices
  Foreign <- ForeignDocuments
  MaxHops = 5
  Sessions = {s1, s2}
  MaxRotations = 1
  MaxSigns = 2
  None = None
CHECK_DEADLOCK FALSE
INVARIANTS
  SignedByItsCertificate
  FailuresExcused
  EntriesJudged
  CarriedFieldsKept
  TotalsReconcile
  CreditRefersHome
PROPERTY ConversionSettles
