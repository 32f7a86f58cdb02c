------------------------------ MODULE MC_InvoiceData ------------------------------
EXTENDS InvoiceData

IdentifierSamples == INSTANCE SampleIdentifiers
DocumentSamples == INSTANCE SampleDocuments

Samples == IdentifierSamples!Samples
SampleInvoices == DocumentSamples!SampleInvoices
ForeignDocuments == DocumentSamples!ForeignDocuments
=============================================================================
