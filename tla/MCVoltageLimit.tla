--------------------------- MODULE MCVoltageLimit ---------------------------
\* VoltageLimit on the small instances of its cfg files.
EXTENDS VoltageLimit
=============================================================================
