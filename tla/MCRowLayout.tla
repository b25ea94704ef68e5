---------------------------- MODULE MCRowLayout -----------------------------
(***************************************************************************)
(* Two rows, so that the stride counts, used twice.                        *)
(***************************************************************************)
EXTENDS RowLayout
=============================================================================
