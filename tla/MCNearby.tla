------------------------------ MODULE MCNearby ------------------------------
EXTENDS Nearby
=============================================================================
