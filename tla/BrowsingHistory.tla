--------------------------- MODULE BrowsingHistory ----------------------------
(***************************************************************************)
(* What back, forward and up promise: one trail of visited folders with a  *)
(* cursor.  RemoteBrowser keeps the trail as two stacks around the current *)
(* folder, changed when a listing arrives and not when it is asked for.    *)
(***************************************************************************)
EXTENDS Naturals, Sequences

CONSTANT Path

VARIABLES trail,    \* folders in the order they were visited
          cursor    \* position of the folder shown; 0 before there is one

historyVars == <<trail, cursor>>

Init == trail = <<>> /\ cursor = 0

\* A connection is opened: the trail starts anew.
Begin(p) == trail' = <<p>> /\ cursor' = 1

\* Another folder is visited: what was ahead of the cursor is forgotten.
Visit(p) == /\ cursor > 0
            /\ p # trail[cursor]
            /\ trail' = Append(SubSeq(trail, 1, cursor), p)
            /\ cursor' = cursor + 1

Back == cursor > 1 /\ cursor' = cursor - 1 /\ UNCHANGED trail

Forward == cursor < Len(trail) /\ cursor' = cursor + 1 /\ UNCHANGED trail

Next == \/ \E p \in Path : Begin(p) \/ Visit(p)
        \/ Back
        \/ Forward

Spec == Init /\ [][Next]_historyVars
=============================================================================
