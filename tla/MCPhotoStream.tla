--------------------------- MODULE MCPhotoStream ---------------------------
\* PhotoStream for TLC: queries are interchangeable.
EXTENDS PhotoStream, TLC

QuerySymmetry == Permutations(Query)
=============================================================================
