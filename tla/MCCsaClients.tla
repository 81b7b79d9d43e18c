---------------------------- MODULE MCCsaClients ----------------------------
EXTENDS CsaClients

MCThreshold == [p \in Parties |-> 0]

=============================================================================
