--------------------------- MODULE MCApiConversion ---------------------------
EXTENDS ApiConversion, TLC

\* The clients differ in nothing but their names.
ClientSymmetry == Permutations(Clients)
=============================================================================
