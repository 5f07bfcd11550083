-------------------------- MODULE MCRemediationRetry --------------------------
EXTENDS RemediationRetry
=============================================================================
