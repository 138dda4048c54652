---------------------------- MODULE MCOpenFiles ----------------------------
(* One remote file of two chunks, two threads. *)
EXTENDS OpenFiles

\* Bound: a behaviour is followed until a save is missed or a sync fails; from there on
\* the properties excuse what is lost.
Followed == ~Excused
=============================================================================
