-------------------------- MODULE MCCloudLinkSpool --------------------------
(***************************************************************************)
(* A spool of one or two records, positions up to 5 and two epochs: enough *)
(* for evidence to be extended, acknowledged past and started again.       *)
(***************************************************************************)
EXTENDS CloudLinkSpool

CONSTANTS b1, b2, b3, d1, d2

\* Three batches; b1 also turns up with conflicting content.
MCInputs ==
  {[batch |-> b1, digest |-> d1], [batch |-> b1, digest |-> d2],
   [batch |-> b2, digest |-> d1], [batch |-> b3, digest |-> d1]}
=============================================================================
