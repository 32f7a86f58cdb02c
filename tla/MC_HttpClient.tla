------------------------------ MODULE MC_HttpClient ------------------------------
EXTENDS HttpClient, TLC

\* Calls and tokens are interchangeable: neither is ever ordered.
Symmetry == Permutations(Calls) \cup Permutations(Tokens)
=============================================================================
