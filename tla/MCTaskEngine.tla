---------------------------- MODULE MCTaskEngine ----------------------------
EXTENDS TaskEngine
=============================================================================
