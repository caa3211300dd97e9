------------------------------ MODULE MCSessions ------------------------------
EXTENDS Sessions

CONSTANTS c1, c2, p1, p2

OneImported == <<[cpr |-> c1, phone |-> p1]>>
=============================================================================
