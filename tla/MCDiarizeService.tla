-------------------------- MODULE MCDiarizeService --------------------------
EXTENDS DiarizeService
=============================================================================
