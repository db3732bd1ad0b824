---------------------------------- MODULE MCPages ----------------------------------
EXTENDS Pages

CONSTANTS n1, n2, n3, n4
================================================================================
