--------------------------- MODULE MCMainWindowTabs ---------------------------
(***************************************************************************)
(* MainWindowTabs for TLC.  Torn-off windows have no identity, nor have    *)
(* configurations: behaviours that differ in their names only are the same.*)
(***************************************************************************)
EXTENDS MainWindowTabs, TLC

Interchangeable == Permutations(Windows \ {Root}) \cup Permutations(Contents)
=============================================================================
