-------------------------- MODULE OperationLifecycle --------------------------
(***************************************************************************)
(* What the operation queue promises its clients, without threads, pool,   *)
(* mutex or event loop: a submitted operation starts at most once, ends in *)
(* exactly one of three outcomes, never leaves it, and listeners are told  *)
(* a non-decreasing story that never runs ahead of the truth.              *)
(* OperationQueue implements this specification.                           *)
(***************************************************************************)
EXTENDS Naturals

CONSTANT Op     \* operation ids (QUuid strings in the code)

VARIABLES
  status,       \* what the queue holds for the operation
  told,         \* the last state its listeners were told
  closed        \* the queue has been destroyed

vars == <<status, told, closed>>

Outcome == {"Completed", "Failed", "Cancelled"}

Status == {"Unknown", "Queued", "Running"} \cup Outcome

\* Position of a state in an operation's life.
Age(s) == CASE s = "Unknown" -> 0
            [] s = "Queued"  -> 1
            [] s = "Running" -> 2
            [] OTHER         -> 3

Init == /\ status = [o \in Op |-> "Unknown"]
        /\ told = [o \in Op |-> "Unknown"]
        /\ closed = FALSE

Submit(o) == /\ ~closed
             /\ status[o] = "Unknown"
             /\ status' = [status EXCEPT ![o] = "Queued"]
             /\ UNCHANGED <<told, closed>>

Start(o) == /\ ~closed
            /\ status[o] = "Queued"
            /\ status' = [status EXCEPT ![o] = "Running"]
            /\ UNCHANGED <<told, closed>>

\* Only an operation that never started may skip Running, and then it cannot
\* have completed.
Finish(o, s) == /\ ~closed
                /\ \/ status[o] = "Running" /\ s \in Outcome
                   \/ status[o] = "Queued" /\ s \in {"Failed", "Cancelled"}
                /\ status' = [status EXCEPT ![o] = s]
                /\ UNCHANGED <<told, closed>>

\* Listeners learn of a state the operation is in or was in, never of an
\* earlier one than they already know, and an outcome only if it is the one
\* that was reached.
Tell(o, s) == /\ ~closed
              /\ Age(told[o]) <= Age(s)
              /\ Age(s) <= Age(status[o])
              /\ s \in Outcome => s = status[o]
              /\ told' = [told EXCEPT ![o] = s]
              /\ UNCHANGED <<status, closed>>

\* The queue is destroyed only when every submitted operation has an outcome.
Close == /\ ~closed
         /\ \A o \in Op : status[o] \in Outcome \cup {"Unknown"}
         /\ closed' = TRUE
         /\ UNCHANGED <<status, told>>

Next == \/ \E o \in Op : Submit(o) \/ Start(o)
        \/ \E o \in Op, s \in Status : Finish(o, s) \/ Tell(o, s)
        \/ Close

Spec == Init /\ [][Next]_vars
=============================================================================
