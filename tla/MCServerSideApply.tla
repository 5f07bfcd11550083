-------------------------- MODULE MCServerSideApply --------------------------
EXTENDS ServerSideApply, IntentFilter
=============================================================================
