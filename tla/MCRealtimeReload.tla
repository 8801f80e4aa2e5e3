--------------------------- MODULE MCRealtimeReload ---------------------------
(***************************************************************************)
(* Two processes and two trips a day apart; a kraken that loads the second *)
(* day, or everything.                                                     *)
(***************************************************************************)
EXTENDS RealtimeReload

CONSTANTS w1, w2, t1, t2

MCStartDay == [t \in Trips |-> IF t = t1 THEN 1 ELSE 2]

MCPeriods == {[begin |-> 2, end |-> 3], [begin |-> 0, end |-> 0]}

=============================================================================
