---------------------------- MODULE MCProcessData ----------------------------
\* ProcessData for TLC: the constants are in the .cfg files.
EXTENDS ProcessData
=============================================================================
