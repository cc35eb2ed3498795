---------------------------- MODULE MCPointSlot ----------------------------
(***************************************************************************)
(* Small instances of PointSlot for TLC: one or two writers, two readers,  *)
(* two data words, a counter that wraps after SeqModulus / 2 writes.       *)
(***************************************************************************)
EXTENDS PointSlot
=============================================================================
