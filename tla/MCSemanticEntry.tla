-------------------------- MODULE MCSemanticEntry --------------------------
\* Three upserts and two lookups of one text.
EXTENDS SemanticEntry

CONSTANTS w1, w2, w3, r1, r2

MCWriter == {w1, w2, w3}
MCReader == {r1, r2}
=============================================================================
