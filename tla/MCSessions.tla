------------------------------ MODULE MCSessions ------------------------------
\* Two sign-ins, of one browser or of two, and two requests at a time.
EXTENDS Sessions, TLC

CONSTANTS b1, q1, q2, i1, i2, k1, k2

MCSymmetry == Permutations({q1, q2}) \cup Permutations({i1, i2}) \cup Permutations({k1, k2})
===============================================================================
