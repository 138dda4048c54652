---------------------------- MODULE MCSmbTransfer ----------------------------
(* Two files of one share and one of another.                                *)
EXTENDS SmbTransfer

CONSTANTS f1, f2, f3

MCTree == (f1 :> 1) @@ (f2 :> 1) @@ (f3 :> 2)
=============================================================================
