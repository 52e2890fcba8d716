------------------------------- MODULE MCHeap -------------------------------
EXTENDS HeapMarking
=============================================================================
