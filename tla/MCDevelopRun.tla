---------------------------- MODULE MCDevelopRun ----------------------------
EXTENDS DevelopRun
=============================================================================
