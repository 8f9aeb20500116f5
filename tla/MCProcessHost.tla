---------------------------- MODULE MCProcessHost ----------------------------
EXTENDS ProcessHost
=============================================================================
