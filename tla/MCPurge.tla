-------------------------------- MODULE MCPurge --------------------------------
(***************************************************************************)
(* Purge on a trip that is old on the third day and one that still runs    *)
(* then.                                                                   *)
(***************************************************************************)
EXTENDS Purge

CONSTANTS t1, t2, f1, f2

MCStartDay == [t \in Trips |-> IF t = t1 THEN 0 ELSE 1]

=============================================================================
