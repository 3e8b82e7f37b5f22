-------------------------------- MODULE MCMem --------------------------------
EXTENDS Mem

MCAlloc == {1, 2, 3}
=============================================================================
