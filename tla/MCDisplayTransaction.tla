------------------------- MODULE MCDisplayTransaction -------------------------
EXTENDS DisplayTransaction

===============================================================================
