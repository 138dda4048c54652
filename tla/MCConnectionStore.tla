------------------------- MODULE MCConnectionStore -------------------------
(* Two connections, one group name. *)
EXTENDS ConnectionStore, TLC

Symmetry == Permutations(Ids)

\* States that differ in the results of checks alone are explored once: no guard and no
\* property reads a status.
Plain(row) == IF row = None THEN None ELSE [row EXCEPT !.status = "none"]
View ==
  <<kind, [id \in Ids |-> Plain(rows[id])], groups, secrets, fresh,
    [k \in 1..Len(stack) |-> [stack[k] EXCEPT !.row = Plain(@)]],
    [id \in Ids |-> Plain(checks[id])],
    file.groups, [id \in DOMAIN file.rows |-> Plain(file.rows[id])],
    refused, mishaps, deleted, wanted>>

\* Bound: of an edit cut off, refused or overlapped (followed until the actions under
\* way have returned), a secret not removed and a row replaced, one happens; a torn
\* vault, which excuses what is lost, is not followed.
Followed == \/ mishaps \in {{}, {"left"}, {"replaced"}}
            \/ mishaps = {"edit"} /\ stack # <<>>
=============================================================================
