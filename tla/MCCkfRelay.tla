----------------------------- MODULE MCCkfRelay -----------------------------
(* A lane of two one-slot buckets and two hashes that prefer the same one.   *)
EXTENDS CkfRelay

CONSTANTS h1, h2, f1, f2

MCProbe == [h \in {h1, h2} |-> [fp |-> IF h = h1 THEN f1 ELSE f2, bucket |-> 0]]

MCAlt == [i \in {0, 1} |-> [f \in {f1, f2} |-> 1 - i]]
=============================================================================
