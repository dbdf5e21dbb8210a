---------------------------- MODULE MCParachainsDb ----------------------------
EXTENDS ParachainsDb
===============================================================================
