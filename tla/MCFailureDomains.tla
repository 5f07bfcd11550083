--------------------------- MODULE MCFailureDomains ---------------------------
EXTENDS FailureDomains
=============================================================================
