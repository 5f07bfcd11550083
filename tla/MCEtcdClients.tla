---------------------------- MODULE MCEtcdClients ----------------------------
EXTENDS EtcdClients
=============================================================================
