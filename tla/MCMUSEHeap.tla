------------------------------ MODULE MCMUSEHeap ------------------------------
EXTENDS MUSEHeap
=============================================================================
