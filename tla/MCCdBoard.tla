------------------------------ MODULE MCCdBoard ------------------------------
EXTENDS CdBoard
=============================================================================
