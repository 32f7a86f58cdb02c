-------------------------- MODULE MC_ConfirmationGate --------------------------
EXTENDS ConfirmationGateRefinement
=============================================================================
