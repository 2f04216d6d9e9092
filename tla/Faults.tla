---- MODULE Faults ----
(***************************************************************************)
(* Failing calls, stopped handlers and crashes, counted so that a model    *)
(* has finitely many.  Whatever is not a fault keeps NoFault.              *)
(***************************************************************************)
EXTENDS Integers
CONSTANT MaxFaults     \* bound of the model
VARIABLE faults        \* faults so far
Fault   == faults < MaxFaults /\ faults' = faults + 1
NoFault == UNCHANGED faults
====
