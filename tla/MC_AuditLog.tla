------------------------------- MODULE MC_AuditLog -------------------------------
EXTENDS AuditLogRefinement

\* Writers are interchangeable; contents are not, some are long.
Symmetry == Permutations(Writers)
=============================================================================
