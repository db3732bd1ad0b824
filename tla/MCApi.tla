----------------------------------- MODULE MCApi -----------------------------------
EXTENDS Api, Handlers, Services, Caches, Readers
================================================================================
