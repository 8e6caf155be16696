--------------------------- MODULE MCLocalServing ---------------------------
EXTENDS LocalServing
=============================================================================
