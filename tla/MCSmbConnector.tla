---------------------------- MODULE MCSmbConnector ----------------------------
(* A dialect of each way of signing and encrypting, three rounds at most.      *)
EXTENDS SmbConnector
=============================================================================
