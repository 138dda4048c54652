-------------------------- MODULE MCOperationConsole --------------------------
(* The queue and the panel above it, with two operations on the two pool     *)
(* threads main() configures: they wait in the pool together, run one after  *)
(* the other or side by side, and one can end while the other one runs.      *)
EXTENDS OperationConsole
=============================================================================
