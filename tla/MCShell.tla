------------------------------ MODULE MCShell ------------------------------
EXTENDS Shell

\* The request of both modes, which returns until contracts have run, and the one that
\* may not return.
MCRequest  == {"FS_WRITE_REQ", "ATK_EXEC_REQ"}
MCKeyChar  == {"chr", "nl", "bs"}
MCUartChar == {"chr", "cr", "lbrace"}
=============================================================================
