------------------------------ MODULE MCOutbox ------------------------------
(***************************************************************************)
(* Two consumers; the second event concerns only the second of them.       *)
(***************************************************************************)
EXTENDS Outbox

CONSTANTS e1, e2

MCConsumers == <<"settlement", "pricing">>

OneEvent == [e \in {e1} |-> {1, 2}]

TwoEvents == [e \in {e1, e2} |-> IF e = e1 THEN {1, 2} ELSE {2}]
=============================================================================
