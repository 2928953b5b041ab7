----------------------------- MODULE MCDraining -----------------------------
EXTENDS Draining
=============================================================================
