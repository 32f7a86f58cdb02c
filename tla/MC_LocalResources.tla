----------------------------- MODULE MC_LocalResources -----------------------------
EXTENDS LocalResources

TwoFiles == <<"core.xslt", "national.xslt">>
FourReleases == <<<<8, 10>>, <<9, 8>>, <<9, 9>>, <<9, 10>>>>
=============================================================================
