---------------------------- MODULE MCBm25Corpus ----------------------------
EXTENDS Bm25Corpus
CONSTANTS d1, d2, e1, e2

\* A term twice, terms in common, and no term at all.
SomeTexts == { << >>, << 1, 1 >>, << 2, 3 >>, << 3, 1 >> }
SomeBatches == { << << 1, 2, 1 >>, << 3, 2 >> >>, << << 3 >> >> }
Alike == Permutations({d1, d2}) \cup Permutations({e1, e2})
=============================================================================
