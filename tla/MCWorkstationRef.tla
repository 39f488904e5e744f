------------------------- MODULE MCWorkstationRef -------------------------
EXTENDS WorkstationRef

CONSTANTS e1, e2, n1, ns1, ns2
=============================================================================
