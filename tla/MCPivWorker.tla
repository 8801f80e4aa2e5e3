------------------------------ MODULE MCPivWorker ------------------------------
(***************************************************************************)
(* Two contributors, two brokers; settings that name one or the other, and *)
(* one that names no queue.                                                *)
(***************************************************************************)
EXTENDS PivWorker

CONSTANTS c1, c2, b1, b2, q1, n1

MCSettings == {[broker |-> b1, queue |-> q1, navitia |-> n1],
               [broker |-> b2, queue |-> q1, navitia |-> n1],
               [broker |-> b2, queue |-> None, navitia |-> n1]}

=============================================================================
