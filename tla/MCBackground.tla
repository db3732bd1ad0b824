------------------------------ MODULE MCBackground ------------------------------
EXTENDS Background

CONSTANTS r1, r2, c1, c2, t1, t2, t3

\* The second and the third version of the change log have the same length, and
\* the first and the third table of endpoints the same hash.
Lengths == <<4, 5, 5, 6>>
Hashes == [t \in {t1, t2, t3} |-> IF t = t2 THEN "g" ELSE "h"]
================================================================================
