----------------------------- MODULE MCToolLock -----------------------------
EXTENDS ToolLock
=============================================================================
