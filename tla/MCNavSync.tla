------------------------------- MODULE MCNavSync -------------------------------
EXTENDS NavSync, TLC
CONSTANTS a1, a2, f1, s1, s2
MCSymmetry == Permutations({a1, a2})
================================================================================
