------------------------------ MODULE MCOutbox ------------------------------
(* Instances of Outbox for TLC: tasks are model values. *)
EXTENDS Outbox

CONSTANTS t1, t2
=============================================================================
