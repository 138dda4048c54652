----------------------------- MODULE MCSmbSession -----------------------------
(* Two calls of any kinds in a row on one session; listings of up to three   *)
(* pages, copies of up to three blocks in chunks of two.                     *)
EXTENDS SmbSession
=============================================================================
