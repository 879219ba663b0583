------------------------- MODULE MC_CategoryImport -------------------------
EXTENDS CategoryImport
=============================================================================
