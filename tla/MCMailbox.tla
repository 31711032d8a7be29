----------------------------- MODULE MCMailbox -----------------------------
EXTENDS Mailbox

\* A key press and one response type are enough to tell two queue entries apart.
MCMsgType == {"KEY_PRESS", "FS_WRITE_RESP"}
=============================================================================
