--------------------------- MODULE MCOperatorQueue --------------------------
EXTENDS OperatorQueue

=============================================================================
