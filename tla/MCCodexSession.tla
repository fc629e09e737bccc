--------------------------- MODULE MCCodexSession --------------------------
EXTENDS CodexSession
=============================================================================
