----------------------------- MODULE MCPageHost -----------------------------
EXTENDS PageHost
=============================================================================
