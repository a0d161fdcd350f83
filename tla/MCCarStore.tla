----------------------------- MODULE MCCarStore -----------------------------
EXTENDS CarStore
=============================================================================
