-------------------------- MODULE MCInterrogation --------------------------
EXTENDS Interrogation
=============================================================================
