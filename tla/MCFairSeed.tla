----------------------------- MODULE MCFairSeed -----------------------------
EXTENDS FairSeed
=============================================================================
