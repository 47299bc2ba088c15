----------------------------- MODULE MCAutoWake -----------------------------
EXTENDS AutoWake

CONSTANTS orion, lyra
=============================================================================
