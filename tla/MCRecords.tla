----------------------------- MODULE MCRecords -----------------------------
EXTENDS Records, TLC

\* Requests are interchangeable, and so are connections and secrets.  Two parts
\* share these values, as only one part moves at a time: a smaller group of
\* permutations does for both.
Symmetry == Permutations(Requests) \cup Permutations(Conns)
=============================================================================
