----------------------------- MODULE MCEncoder ------------------------------
(***************************************************************************)
(* Small instances of Encoder: two good orders and one bad one, batches of *)
(* one to three orders.  A pool that keeps two rows (MaxRetained = 2)      *)
(* keeps the array of every batch but the longest, so that a reused array  *)
(* is longer than, as long as or shorter than the batch, and holds other   *)
(* orders or what a failed pack left.                                      *)
(***************************************************************************)
EXTENDS EncoderProperties

CONSTANTS a, b, bad

MCOrders    == {a, b, bad}
MCBadOrders == {bad}
MCBatches   == {<<a, a>>, <<b>>, <<b, bad>>, <<a, b, a>>}
MCPacked    == {<<b, a>>}
OneBatch    == {<<a>>}
NoBatch     == {}
OnePacked   == {<<a>>}
=============================================================================
