--------------------------- MODULE MCCaptureUpdate ---------------------------
EXTENDS CaptureUpdate
\* Release 1 writes format 7, releases 2 and 3 write format 8.
ContractOf == [v \in Versions |-> IF v = 1 THEN 7 ELSE 8]
=============================================================================
