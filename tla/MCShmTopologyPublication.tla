---------------------- MODULE MCShmTopologyPublication ----------------------
(***************************************************************************)
(* Instances of ShmTopologyPublication for TLC.  The two topologies differ *)
(* in a channel without points and share the point layout, so the point    *)
(* plane of one, replaced first, looks like that of the other.             *)
(***************************************************************************)
EXTENDS ShmTopologyPublication

CONSTANTS t1, t2

MCLayoutOf ==
  [t \in {t1, t2} |-> [p \in {"point", "health"} |->
     IF p = "point" THEN "p" ELSE IF t = t1 THEN "h1" ELSE "h2"]]
=============================================================================
