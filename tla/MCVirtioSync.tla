---------------------------- MODULE MCVirtioSync ----------------------------
EXTENDS VirtioSync
=============================================================================
