------------------------ MODULE MCFileCloudLinkSpool ------------------------
(***************************************************************************)
(* A journal that is compacted after two mutations, crashed and reopened.  *)
(***************************************************************************)
EXTENDS FileCloudLinkSpool

CONSTANTS b1, b2, d1

MCInputs == {[batch |-> b1, digest |-> d1], [batch |-> b2, digest |-> d1]}

\* No definition tells the batches apart, and the properties are all safety.
BatchSymmetry == Permutations({b1, b2})
=============================================================================
