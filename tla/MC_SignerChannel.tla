--------------------------- MODULE MC_SignerChannel ---------------------------
EXTENDS SignerChannelRefinement
=============================================================================
