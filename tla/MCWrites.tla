------------------------------ MODULE MCWrites ------------------------------
(* A small instance of Writes.                                                *)
EXTENDS Writes, TLC

CONSTANTS n1, n2, s1, s2, c1, c2

OneNode == {n1}
TwoNodes == {n1, n2}
TwoSchematics == {s1, s2}
OneCall == {c1}
TwoCalls == {c1, c2}
Interchangeable == Permutations({s1, s2}) \cup Permutations({c1, c2})
=============================================================================
