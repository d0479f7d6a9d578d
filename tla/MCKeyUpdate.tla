---------------------------- MODULE MCKeyUpdate ----------------------------
EXTENDS KeyUpdate
=============================================================================
