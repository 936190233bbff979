--------------------------- MODULE MCProjectFiles ---------------------------
\* ProjectFiles for TLC: two operations one after another in one directory.
EXTENDS ProjectFiles, TLC
=============================================================================
