------------------------------ MODULE MCValkey ------------------------------
EXTENDS Valkey
=============================================================================
