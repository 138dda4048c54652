----------------------- MODULE ConnectionStoreProofs -----------------------
(***************************************************************************)
(* The invariants of ConnectionStore for any number of connections, nested  *)
(* actions, secrets and checks.  Neither invariant on the secrets is        *)
(* inductive: Sound adds what an action that waits in a dialog or for a job *)
(* knows of its connection, KeptInv and OwnedInv name the one action that   *)
(* may be about to change what they say.                                    *)
(***************************************************************************)
EXTENDS ConnectionStore, SequenceTheorems, TLAPS

\* Actions under way.  All but a delete have a row, and one past its dialog has
\* a job with a reference.
Frames ==
  {f \in [op : {"create", "edit", "delete"}, id : Ids,
          at : {"dialog", "job", "done", "failed"}, row : Rows \cup {None},
          job : {"write", "remove", None}, ref : Refs \cup {None}] :
     /\ f.op # "delete" => f.row \in Rows
     /\ f.at # "dialog" => f.job \in {"write", "remove"} /\ f.ref \in Refs}

\* The types of the state; an exported row has no reference.
Typed ==
  /\ rows \in [Ids -> Rows \cup {None}]
  /\ secrets \subseteq Refs /\ fresh \in Nat
  /\ stack \in Seq(Frames)
  /\ DOMAIN file.rows \subseteq Ids
  /\ \A id \in DOMAIN file.rows : file.rows[id] \in Rows /\ file.rows[id].ref = None

\* The foreign keys of the database, and of what is exported.
GroupsInv ==
  /\ \A id \in Ids : rows[id] # None => Fits(rows[id], groups)
  /\ \A id \in DOMAIN file.rows : Fits(file.rows[id], file.groups)
  /\ refused = {}

\* A reference made for connection id.
MadeFor(id, ref) == \E n \in 1..fresh : ref = <<id, n>>

\* The reference in the row of connection id.
Held(id) == IF rows[id] = None THEN None ELSE rows[id].ref

\* What an action refers to was made for its connection.
Refers(f) ==
  /\ f.row # None /\ f.row.ref # None => MadeFor(f.id, f.row.ref)
  /\ f.at # "dialog" => MadeFor(f.id, f.ref)

\* Every reference, wherever it is kept, was made for the connection it names.
RefsInv ==
  /\ \A id \in Ids : Held(id) # None => MadeFor(id, Held(id))
  /\ \A ref \in secrets : MadeFor(ref[1], ref)
  /\ \A k \in 1..Len(stack) : Refers(stack[k])

\* Two actions under way are for different connections, and only the innermost
\* may show a dialog.
StackInv ==
  /\ \A j, k \in 1..Len(stack) : stack[j].id = stack[k].id => j = k
  /\ \A k \in 1..(Len(stack) - 1) : stack[k].at # "dialog"

\* What an action under way knows of its connection and its secret.
Sound(f) ==
  /\ f.at = "dialog" =>
       /\ f.op \in {"edit", "delete"}
       /\ rows[f.id] # None /\ f.row # None /\ f.row.ref = Held(f.id)
  /\ f.at # "dialog" =>
       /\ f.op = "create" => f.row.ref = f.ref /\ Held(f.id) = None
       /\ f.op = "edit" => /\ f.row.ref = IF f.job = "write" THEN f.ref ELSE None
                           /\ Held(f.id) \in {None, f.ref}
       /\ f.op = "delete" => f.job = "remove" /\ Held(f.id) = None
  /\ f.at = "done" =>
       IF f.job = "write" THEN f.ref \in secrets \/ "torn" \in mishaps
       ELSE f.ref \notin secrets

\* Every action under way is sound.
FramesInv == \A k \in 1..Len(stack) : Sound(stack[k])

\* An edit that has removed the secret and will clear the row.
Clearing(f, id) == f.id = id /\ f.op = "edit" /\ f.job = "remove" /\ f.at = "done"

\* The reference of a row has its secret, unless an edit is about to clear it.
KeptInv ==
  \A id \in Ids :
    \/ Held(id) \in secrets \cup {None}
    \/ \E k \in 1..Len(stack) : Clearing(stack[k], id)

\* An action that will put the secret's reference into a row, or remove the secret.
Owner(f, ref) == /\ f.ref = ref
                 /\ \/ f.job = "write" /\ f.at = "done"
                    \/ f.job = "remove" /\ f.at = "job"

\* A secret belongs to a row, unless an action is about to store its reference
\* or to remove it.
OwnedInv ==
  \A ref \in secrets :
    \/ \E id \in Ids : Held(id) = ref
    \/ \E k \in 1..Len(stack) : Owner(stack[k], ref)

\* The vault was torn.
Torn == "torn" \in mishaps

\* A secret was not removed, or the row that names it was replaced.
Unowned == {"left", "replaced"} \cap mishaps # {}

\* What holds as long as no edit was cut off, refused or overlapped.
Orderly ==
  "edit" \notin mishaps =>
    /\ StackInv /\ FramesInv
    /\ Torn \/ KeptInv
    /\ Unowned \/ OwnedInv

\* The inductive invariant.
StoreInv == Typed /\ GroupsInv /\ RefsInv /\ Orderly

-----------------------------------------------------------------------------
(* The stack. *)

\* No group, reference or row is taken for None.
LEMMA NoneLemma == None \notin Groups /\ None \notin Refs /\ None \notin Rows
  BY NoneAssumption

\* A stack without its top.
LEMMA FrontLemma ==
  ASSUME NEW S, NEW s \in Seq(S), s # <<>>
  PROVE  /\ Front(s) \in Seq(S) /\ Len(Front(s)) = Len(s) - 1 /\ Len(s) \in Nat \ {0}
         /\ \A k \in 1..(Len(s) - 1) : Front(s)[k] = s[k]
         /\ s[Len(s)] \in S
  <1>1. Len(s) \in Nat /\ Len(s) # 0
    BY EmptySeq
  <1>2. SubSeq(s, 1, Len(s) - 1) \in Seq(S) /\ Len(SubSeq(s, 1, Len(s) - 1)) = Len(s) - 1
    <2> DEFINE n == Len(s) - 1
    <2>1. n \in Nat /\ n <= Len(s) /\ 1 \in 1..(Len(s) + 1) /\ n \in 0..Len(s)
      BY <1>1
    <2>2. \A i \in 1..n : i \in 1..Len(s)
      BY <1>1
    <2> HIDE DEF n
    <2>3. SubSeq(s, 1, n) \in Seq(S)
      BY <2>1, <2>2, SubSeqProperties
    <2>4. Len(SubSeq(s, 1, n)) = n
      BY <2>1, SubSeqProperties
    <2> QED BY <2>3, <2>4 DEF n
  <1>3. \A k \in 1..(Len(s) - 1) : SubSeq(s, 1, Len(s) - 1)[k] = s[k]
    BY <1>1
  <1>4. s[Len(s)] \in S
    BY <1>1
  <1> QED BY <1>1, <1>2, <1>3, <1>4 DEF Front

\* The innermost action ends.
LEMMA ReturnsLemma ==
  ASSUME Typed, stack # <<>>, Returns
  PROVE  /\ stack' \in Seq(Frames) /\ Len(stack') = Len(stack) - 1
         /\ Len(stack) \in Nat \ {0} /\ Top \in Frames
         /\ \A k \in 1..(Len(stack) - 1) : stack'[k] = stack[k]
  BY FrontLemma DEF Typed, Returns, Top

\* The innermost action goes on.
LEMMA GoesLemma ==
  ASSUME Typed, stack # <<>>, NEW g \in Frames, Goes(g)
  PROVE  /\ stack' \in Seq(Frames) /\ Len(stack') = Len(stack)
         /\ Len(stack) \in Nat \ {0} /\ Top \in Frames
         /\ \A k \in 1..(Len(stack) - 1) : stack'[k] = stack[k]
         /\ stack'[Len(stack)] = g
  BY FrontLemma DEF Typed, Goes, Top

\* An action begins.
LEMMA PushLemma ==
  ASSUME Typed, NEW g \in Frames, stack' = Append(stack, g)
  PROVE  /\ stack' \in Seq(Frames) /\ Len(stack') = Len(stack) + 1 /\ Len(stack) \in Nat
         /\ \A k \in 1..Len(stack) : stack'[k] = stack[k]
         /\ stack'[Len(stack) + 1] = g
  BY DEF Typed

\* A reference once made stays so.
LEMMA MadeForLemma ==
  ASSUME fresh \in Nat, fresh' \in Nat, fresh <= fresh', NEW id, NEW ref, MadeFor(id, ref)
  PROVE  MadeFor(id, ref)'
  BY DEF MadeFor

\* A reference tells its connection.
LEMMA MadeForOne ==
  ASSUME NEW i \in Ids, NEW j \in Ids, NEW ref, MadeFor(i, ref), MadeFor(j, ref), fresh \in Nat
  PROVE  i = j /\ ref[1] = i /\ ref \in Refs /\ ref # None
  <1>1. PICK n \in 1..fresh : ref = <<i, n>>
    BY DEF MadeFor
  <1>2. PICK m \in 1..fresh : ref = <<j, m>>
    BY DEF MadeFor
  <1>3. ref \in Refs
    BY <1>1 DEF Refs
  <1> QED BY <1>1, <1>2, <1>3, NoneLemma

\* The same, for what an action refers to.
LEMMA RefersLemma ==
  ASSUME fresh \in Nat, fresh' \in Nat, fresh <= fresh', NEW f, Refers(f)
  PROVE  Refers(f)'
  BY MadeForLemma DEF Refers

\* A row that does not change keeps its reference.
LEMMA HeldLemma ==
  ASSUME NEW id \in Ids, rows'[id] = rows[id]
  PROVE  Held(id)' = Held(id)
  BY DEF Held

\* A frame that a step leaves alone remains sound.
LEMMA SoundLemma ==
  ASSUME NEW f \in Frames, Sound(f), mishaps \subseteq mishaps',
         f.at = "dialog" => rows'[f.id] # None /\ Held(f.id)' = Held(f.id),
         f.at # "dialog" => Held(f.id)' \in {None, Held(f.id)},
         f.at = "done" => \/ f.ref \in secrets' <=> f.ref \in secrets
                          \/ "torn" \in mishaps' /\ secrets' = {}
  PROVE  Sound(f)'
  BY DEF Sound

-----------------------------------------------------------------------------
(* What the actions do to the invariants.  f is the innermost action. *)

\* Only a row changes, or the file: what is stored remains consistent.
LEMMA RowLemma ==
  ASSUME Typed, GroupsInv, RefsInv, NEW id \in Ids, NEW x \in Rows \cup {None},
         x # None => Fits(x, groups) /\ (x.ref # None => MadeFor(id, x.ref)),
         rows' = [rows EXCEPT ![id] = x], UNCHANGED <<groups, file, refused>>
  PROVE  /\ rows' \in [Ids -> Rows \cup {None}] /\ GroupsInv'
         /\ Held(id)' = (IF x = None THEN None ELSE x.ref)
         /\ \A j \in Ids : j # id => rows'[j] = rows[j]
         /\ \A j \in Ids : Held(j)' # None => MadeFor(j, Held(j)')
  <1>1. /\ rows' \in [Ids -> Rows \cup {None}] /\ rows'[id] = x
        /\ \A j \in Ids : j # id => rows'[j] = rows[j]
    BY DEF Typed
  <1>2. GroupsInv'
    BY <1>1 DEF GroupsInv, Fits
  <1>3. Held(id)' = (IF x = None THEN None ELSE x.ref)
    BY <1>1 DEF Held
  <1>4. ASSUME NEW j \in Ids, Held(j)' # None PROVE MadeFor(j, Held(j)')
    <2>1. CASE j = id
      BY <1>3, <1>4, <2>1
    <2>2. CASE j # id
      <3>1. Held(j)' = Held(j)
        BY <1>1, <2>2, HeldLemma
      <3> QED BY <1>4, <3>1 DEF RefsInv
    <2> QED BY <2>1, <2>2
  <1> QED BY <1>1, <1>2, <1>3, <1>4

\* No edit has removed the secret of f's connection, unless f has.
LEMMA NotClearing ==
  ASSUME Typed, StackInv, KeptInv, stack # <<>>, NEW f \in Frames, f = Top,
         ~Clearing(f, f.id)
  PROVE  Held(f.id) \in secrets \cup {None}
  <1>1. Len(stack) \in Nat \ {0} /\ f = stack[Len(stack)]
    BY FrontLemma DEF Typed, Top
  <1> SUFFICES ASSUME NEW k \in 1..Len(stack), Clearing(stack[k], f.id) PROVE FALSE
    BY DEF KeptInv, Frames
  <1>2. stack[k].id = stack[Len(stack)].id
    BY <1>1 DEF Clearing
  <1>3. k = Len(stack)
    BY <1>1, <1>2 DEF StackInv
  <1> QED BY <1>1, <1>3

\* The action returns; only the row of its connection may have changed.
LEMMA PopLemma ==
  ASSUME Typed, Orderly, stack # <<>>, Returns, NEW f \in Frames, f = Top,
         UNCHANGED secrets, mishaps \subseteq mishaps',
         \A j \in Ids : j # f.id => rows'[j] = rows[j],
         "edit" \notin mishaps' =>
           /\ Torn' \/ Held(f.id)' \in secrets \cup {None}
           /\ \/ Unowned'
              \/ \A ref \in secrets : Held(f.id) = ref \/ Owner(f, ref) => Held(f.id)' = ref
  PROVE  Orderly'
  <1> DEFINE n == Len(stack)
  <1>1. /\ n \in Nat \ {0} /\ Len(stack') = n - 1 /\ f = stack[n]
        /\ \A k \in 1..(n - 1) : stack'[k] = stack[k] /\ stack[k] \in Frames
    BY ReturnsLemma DEF Typed, Top
  <1> HIDE DEF n
  <1> SUFFICES ASSUME "edit" \notin mishaps'
               PROVE  /\ StackInv' /\ FramesInv'
                      /\ Torn' \/ KeptInv'
                      /\ Unowned' \/ OwnedInv'
    BY DEF Orderly
  <1>2. StackInv /\ FramesInv /\ (Torn \/ KeptInv) /\ (Unowned \/ OwnedInv)
    BY DEF Orderly
  <1>3. \A k \in 1..(n - 1) : stack[k].id # f.id /\ stack[k].id \in Ids
    BY <1>1, <1>2 DEF StackInv, Frames, n
  <1>4. StackInv'
    BY <1>1, <1>2 DEF StackInv, n
  <1>5. FramesInv'
    <2> SUFFICES ASSUME NEW k \in 1..Len(stack') PROVE Sound(stack[k])'
      BY DEF FramesInv
    <2>1. PICK g \in Frames : g = stack[k] /\ g = stack'[k]
      BY <1>1
    <2>2. Sound(g) /\ g.id # f.id /\ g.id \in Ids
      BY <1>1, <1>2, <1>3, <2>1 DEF FramesInv, n
    <2>3. rows'[g.id] = rows[g.id] /\ Held(g.id)' = Held(g.id)
      BY <2>2, HeldLemma
    <2>4. Sound(g)'
      <3>1. g.at = "dialog" => rows'[g.id] # None
        BY <2>2, <2>3 DEF Sound
      <3> QED BY <2>2, <2>3, <3>1, SoundLemma
    <2> QED BY <2>1, <2>4 DEF Sound
  <1>6. ASSUME ~Torn' PROVE KeptInv'
    <2> SUFFICES ASSUME NEW id \in Ids, Held(id)' \notin secrets \cup {None}
                 PROVE  \E k \in 1..Len(stack') : Clearing(stack'[k], id)
      BY DEF KeptInv, Clearing
    <2>1. KeptInv
      BY <1>2, <1>6 DEF Torn
    <2>2. id # f.id
      BY <1>6
    <2>3. Held(id)' = Held(id)
      BY <2>2, HeldLemma
    <2>4. PICK k \in 1..n : Clearing(stack[k], id)
      BY <2>1, <2>3 DEF KeptInv, n
    <2>5. k \in 1..(n - 1)
      BY <1>1, <2>2, <2>4 DEF Clearing
    <2> QED BY <1>1, <2>4, <2>5
  <1>7. ASSUME ~Unowned' PROVE OwnedInv'
    <2> SUFFICES ASSUME NEW ref \in secrets
                 PROVE  \/ \E id \in Ids : Held(id)' = ref
                        \/ \E k \in 1..Len(stack') : Owner(stack'[k], ref)
      BY DEF OwnedInv, Owner
    <2>1. OwnedInv
      BY <1>2, <1>7 DEF Unowned
    <2>2. f.id \in Ids
      BY DEF Frames
    <2>3. CASE Held(f.id) = ref \/ Owner(f, ref)
      BY <1>7, <2>2, <2>3
    <2>4. CASE ~(Held(f.id) = ref \/ Owner(f, ref))
      <3>1. CASE \E id \in Ids : Held(id) = ref
        BY <2>4, <3>1, HeldLemma
      <3>2. CASE \E k \in 1..n : Owner(stack[k], ref)
        <4>1. PICK k \in 1..n : Owner(stack[k], ref)
          BY <3>2
        <4>2. k \in 1..(n - 1)
          BY <1>1, <2>4, <4>1
        <4> QED BY <1>1, <4>1, <4>2
      <3> QED BY <2>1, <3>1, <3>2 DEF OwnedInv, n
    <2> QED BY <2>3, <2>4
  <1> QED BY <1>4, <1>5, <1>6, <1>7

\* The action goes on as g; only the row of its connection may have changed.
LEMMA TopLemma ==
  ASSUME Typed, Orderly, stack # <<>>, NEW f \in Frames, f = Top,
         NEW g \in Frames, Goes(g), g.id = f.id,
         UNCHANGED secrets, mishaps \subseteq mishaps',
         \A j \in Ids : j # f.id => rows'[j] = rows[j],
         "edit" \notin mishaps' =>
           /\ Sound(g)'
           /\ Torn' \/ Held(f.id)' \in secrets \cup {None}
           /\ \/ Unowned'
              \/ \A ref \in secrets : Held(f.id) = ref \/ Owner(f, ref)
                                        => Held(f.id)' = ref \/ Owner(g, ref)
  PROVE  Orderly'
  <1> DEFINE n == Len(stack)
  <1>1. /\ n \in Nat \ {0} /\ Len(stack') = n /\ f = stack[n] /\ stack'[n] = g
        /\ \A k \in 1..(n - 1) : stack'[k] = stack[k] /\ stack[k] \in Frames
    BY GoesLemma DEF Typed, Top
  <1> HIDE DEF n
  <1> SUFFICES ASSUME "edit" \notin mishaps'
               PROVE  /\ StackInv' /\ FramesInv'
                      /\ Torn' \/ KeptInv'
                      /\ Unowned' \/ OwnedInv'
    BY DEF Orderly
  <1>2. StackInv /\ FramesInv /\ (Torn \/ KeptInv) /\ (Unowned \/ OwnedInv)
    BY DEF Orderly
  <1>3. \A k \in 1..(n - 1) : stack[k].id # f.id /\ stack[k].id \in Ids
    BY <1>1, <1>2 DEF StackInv, Frames, n
  <1>4. StackInv'
    <2>1. \A k \in 1..n : stack'[k].id = stack[k].id
      <3> SUFFICES ASSUME NEW k \in 1..n PROVE stack'[k].id = stack[k].id
        OBVIOUS
      <3>1. CASE k = n
        BY <1>1, <3>1
      <3>2. CASE k # n
        BY <1>1, <3>2
      <3> QED BY <3>1, <3>2
    <2>2. \A k \in 1..(n - 1) : stack'[k].at # "dialog"
      BY <1>1, <1>2 DEF StackInv, n
    <2> QED BY <1>1, <1>2, <2>1, <2>2 DEF StackInv, n
  <1>5. FramesInv'
    <2> SUFFICES ASSUME NEW k \in 1..Len(stack') PROVE Sound(stack[k])'
      BY DEF FramesInv
    <2>1. CASE k = n
      BY <1>1, <2>1 DEF Sound
    <2>2. CASE k # n
      <3>1. PICK h \in Frames : h = stack[k] /\ h = stack'[k]
        BY <1>1, <2>2
      <3>2. Sound(h) /\ h.id # f.id /\ h.id \in Ids
        BY <1>1, <1>2, <1>3, <2>2, <3>1 DEF FramesInv, n
      <3>3. rows'[h.id] = rows[h.id] /\ Held(h.id)' = Held(h.id)
        BY <3>2, HeldLemma
      <3>4. Sound(h)'
        <4>1. h.at = "dialog" => rows'[h.id] # None
          BY <3>2, <3>3 DEF Sound
        <4> QED BY <3>2, <3>3, <4>1, SoundLemma
      <3> QED BY <3>1, <3>4 DEF Sound
    <2> QED BY <2>1, <2>2
  <1>6. ASSUME ~Torn' PROVE KeptInv'
    <2> SUFFICES ASSUME NEW id \in Ids, Held(id)' \notin secrets \cup {None}
                 PROVE  \E k \in 1..Len(stack') : Clearing(stack'[k], id)
      BY DEF KeptInv, Clearing
    <2>1. KeptInv
      BY <1>2, <1>6 DEF Torn
    <2>2. id # f.id
      BY <1>6
    <2>3. Held(id)' = Held(id)
      BY <2>2, HeldLemma
    <2>4. PICK k \in 1..n : Clearing(stack[k], id)
      BY <2>1, <2>3 DEF KeptInv, n
    <2>5. k \in 1..(n - 1)
      BY <1>1, <2>2, <2>4 DEF Clearing
    <2> QED BY <1>1, <2>4, <2>5
  <1>7. ASSUME ~Unowned' PROVE OwnedInv'
    <2> SUFFICES ASSUME NEW ref \in secrets
                 PROVE  \/ \E id \in Ids : Held(id)' = ref
                        \/ \E k \in 1..Len(stack') : Owner(stack'[k], ref)
      BY DEF OwnedInv, Owner
    <2>1. OwnedInv
      BY <1>2, <1>7 DEF Unowned
    <2>2. f.id \in Ids
      BY DEF Frames
    <2>3. CASE Held(f.id) = ref \/ Owner(f, ref)
      BY <1>1, <1>7, <2>2, <2>3
    <2>4. CASE ~(Held(f.id) = ref \/ Owner(f, ref))
      <3>1. CASE \E id \in Ids : Held(id) = ref
        BY <2>4, <3>1, HeldLemma
      <3>2. CASE \E k \in 1..n : Owner(stack[k], ref)
        <4>1. PICK k \in 1..n : Owner(stack[k], ref)
          BY <3>2
        <4>2. k \in 1..(n - 1)
          BY <1>1, <2>4, <4>1
        <4> QED BY <1>1, <4>1, <4>2
      <3> QED BY <2>1, <3>1, <3>2 DEF OwnedInv, n
    <2> QED BY <2>3, <2>4
  <1> QED BY <1>4, <1>5, <1>6, <1>7

\* A new action begins while the innermost waits for its job.
LEMMA BeginLemma ==
  ASSUME Typed, Orderly, Interactive, NEW g \in Frames, stack' = Append(stack, g),
         UNCHANGED <<secrets, rows>>, mishaps \subseteq mishaps',
         "edit" \notin mishaps' =>
           Sound(g)' /\ \A k \in 1..Len(stack) : stack[k].id # g.id
  PROVE  Orderly'
  <1> DEFINE n == Len(stack)
  <1>1. /\ n \in Nat /\ Len(stack') = n + 1 /\ stack'[n + 1] = g
        /\ \A k \in 1..n : stack'[k] = stack[k] /\ stack[k] \in Frames
    BY PushLemma DEF Typed
  <1>2. n # 0 => stack[n].at # "dialog"
    BY EmptySeq DEF Typed, Interactive, Top
  <1> HIDE DEF n
  <1> SUFFICES ASSUME "edit" \notin mishaps'
               PROVE  /\ StackInv' /\ FramesInv'
                      /\ Torn' \/ KeptInv'
                      /\ Unowned' \/ OwnedInv'
    BY DEF Orderly
  <1>3. StackInv /\ FramesInv /\ (Torn \/ KeptInv) /\ (Unowned \/ OwnedInv)
    BY DEF Orderly
  <1>4. \A id \in Ids : Held(id)' = Held(id)
    BY HeldLemma
  <1>5. StackInv'
    <2>1. \A k \in 1..n : stack[k].at # "dialog"
      BY <1>1, <1>2, <1>3 DEF StackInv, n
    <2>2. ASSUME NEW j \in 1..(n + 1), NEW k \in 1..(n + 1), stack'[j].id = stack'[k].id
          PROVE  j = k
      <3>1. CASE j = n + 1 /\ k = n + 1
        BY <3>1
      <3>2. CASE j = n + 1 /\ k # n + 1
        BY <1>1, <2>2, <3>2 DEF n
      <3>3. CASE j # n + 1 /\ k = n + 1
        BY <1>1, <2>2, <3>3 DEF n
      <3>4. CASE j # n + 1 /\ k # n + 1
        BY <1>1, <1>3, <2>2, <3>4 DEF StackInv, n
      <3> QED BY <3>1, <3>2, <3>3, <3>4
    <2> QED BY <1>1, <2>1, <2>2 DEF StackInv
  <1>6. FramesInv'
    <2> SUFFICES ASSUME NEW k \in 1..Len(stack') PROVE Sound(stack[k])'
      BY DEF FramesInv
    <2>1. CASE k = n + 1
      BY <1>1, <2>1 DEF Sound
    <2>2. CASE k # n + 1
      <3>1. PICK h \in Frames : h = stack[k] /\ h = stack'[k]
        BY <1>1, <2>2
      <3>2. Sound(h) /\ h.id \in Ids
        BY <1>1, <1>3, <2>2, <3>1 DEF FramesInv, n, Frames
      <3>3. Sound(h)'
        <4>1. h.at = "dialog" => rows'[h.id] # None
          BY <3>2 DEF Sound
        <4> QED BY <3>2, <1>4, <4>1, SoundLemma
      <3> QED BY <3>1, <3>3 DEF Sound
    <2> QED BY <2>1, <2>2
  <1>7. ASSUME ~Torn' PROVE KeptInv'
    <2>1. KeptInv
      BY <1>3, <1>7 DEF Torn
    <2>2. \A k \in 1..n : k \in 1..Len(stack') /\ stack'[k] = stack[k]
      BY <1>1
    <2> QED BY <1>4, <2>1, <2>2 DEF KeptInv, Clearing, n
  <1>8. ASSUME ~Unowned' PROVE OwnedInv'
    <2>1. OwnedInv
      BY <1>3, <1>8 DEF Unowned
    <2>2. \A k \in 1..n : k \in 1..Len(stack') /\ stack'[k] = stack[k]
      BY <1>1
    <2> QED BY <1>4, <2>1, <2>2 DEF OwnedInv, Owner, n
  <1> QED BY <1>5, <1>6, <1>7, <1>8

\* The stack and the secrets remain; a row may change, or lose its reference.
LEMMA StillLemma ==
  ASSUME Typed, Orderly, UNCHANGED <<stack, secrets>>, mishaps \subseteq mishaps',
         \A id \in Ids : Held(id)' \in {None, Held(id)},
         "edit" \notin mishaps =>
           \A id \in Ids : \A k \in 1..Len(stack) :
             stack[k].id = id /\ stack[k].at = "dialog" =>
               Held(id)' = Held(id) /\ (rows[id] # None => rows'[id] # None),
         Unowned' \/ \A id \in Ids : Held(id)' = Held(id)
  PROVE  Orderly'
  <1> SUFFICES ASSUME "edit" \notin mishaps'
               PROVE  /\ StackInv' /\ FramesInv'
                      /\ Torn' \/ KeptInv'
                      /\ Unowned' \/ OwnedInv'
    BY DEF Orderly
  <1>1. StackInv /\ FramesInv /\ (Torn \/ KeptInv) /\ (Unowned \/ OwnedInv)
    BY DEF Orderly
  <1>2. StackInv'
    BY <1>1 DEF StackInv
  <1>3. FramesInv'
    <2> SUFFICES ASSUME NEW k \in 1..Len(stack) PROVE Sound(stack[k])'
      BY DEF FramesInv
    <2>1. PICK h \in Frames : h = stack[k] /\ h = stack'[k]
      BY DEF Typed
    <2>2. Sound(h) /\ h.id \in Ids
      BY <1>1, <2>1 DEF FramesInv, Frames
    <2>3. h.at = "dialog" => rows'[h.id] # None /\ Held(h.id)' = Held(h.id)
      BY <2>1, <2>2 DEF Sound
    <2>4. Sound(h)'
      BY <2>2, <2>3, SoundLemma
    <2> QED BY <2>1, <2>4 DEF Sound
  <1>4. ASSUME ~Torn' PROVE KeptInv'
    <2>1. KeptInv
      BY <1>1, <1>4 DEF Torn
    <2> SUFFICES ASSUME NEW id \in Ids
                 PROVE  \/ Held(id)' \in secrets \cup {None}
                        \/ \E k \in 1..Len(stack) : Clearing(stack[k], id)
      BY DEF KeptInv, Clearing
    <2> QED BY <2>1 DEF KeptInv
  <1>5. ASSUME ~Unowned' PROVE OwnedInv'
    <2>1. OwnedInv
      BY <1>1, <1>5 DEF Unowned
    <2> QED BY <1>5, <2>1 DEF OwnedInv, Owner
  <1> QED BY <1>2, <1>3, <1>4, <1>5

\* References stay those made for their connection if new ones are.
LEMMA RefsLemma ==
  ASSUME Typed, RefsInv, fresh' \in Nat, fresh <= fresh',
         \A ref \in secrets' : ref \in secrets \/ MadeFor(ref[1], ref),
         \A j \in Ids : Held(j)' # None => MadeFor(j, Held(j)'),
         \A k \in 1..Len(stack') : \/ \E j \in 1..Len(stack) : stack'[k] = stack[j]
                                   \/ Refers(stack[k])'
  PROVE  RefsInv'
  <1>1. fresh \in Nat
    BY DEF Typed
  <1>2. ASSUME NEW id \in Ids, Held(id)' # None PROVE MadeFor(id, Held(id))'
    <2>1. PICK ref : ref = Held(id)'
      OBVIOUS
    <2>2. MadeFor(id, ref)
      BY <1>2, <2>1
    <2>3. MadeFor(id, ref)'
      BY <1>1, <2>2, MadeForLemma
    <2> QED BY <2>1, <2>3 DEF MadeFor
  <1>3. ASSUME NEW ref \in secrets' PROVE MadeFor(ref[1], ref)'
    <2>1. MadeFor(ref[1], ref)
      BY DEF RefsInv
    <2> QED BY <1>1, <2>1, MadeForLemma
  <1>4. ASSUME NEW k \in 1..Len(stack') PROVE Refers(stack[k])'
    <2>1. CASE \E j \in 1..Len(stack) : stack'[k] = stack[j]
      <3>1. PICK j \in 1..Len(stack) : stack'[k] = stack[j]
        BY <2>1
      <3>2. PICK g : g = stack[j] /\ g = stack'[k]
        BY <3>1
      <3>3. Refers(g)
        BY <3>2 DEF RefsInv
      <3>4. Refers(g)'
        BY <1>1, <3>3, RefersLemma
      <3> QED BY <3>2, <3>4 DEF Refers, MadeFor
    <2> QED BY <1>4, <2>1
  <1> QED BY <1>2, <1>3, <1>4 DEF RefsInv

\* The row of a connection keeps its reference.
LEMMA RowsSame ==
  ASSUME Typed, RefsInv, UNCHANGED rows
  PROVE  \A j \in Ids : Held(j)' = Held(j) /\ (Held(j)' # None => MadeFor(j, Held(j)'))
  BY HeldLemma DEF RefsInv

-----------------------------------------------------------------------------
(* Beginning and ending an action. *)

\* The dialog returns a row that keeps the reference.
LEMMA EnteredLemma ==
  ASSUME NEW row, NEW x \in Entered(row), row \in Rows \/ row = Row("password", None, None)
  PROVE  x \in Rows /\ x.ref = row.ref
  <1>1. PICK auth \in Auths, group \in Groups \cup {None} :
          x = [auth |-> auth, ref |-> row.ref, group |-> group, status |-> row.status]
    BY DEF Entered
  <1>2. CASE row \in Rows
    BY <1>1, <1>2 DEF Rows
  <1>3. CASE row = Row("password", None, None)
    BY <1>1, <1>3 DEF Rows, Row
  <1> QED BY <1>2, <1>3

\* Add preserves the invariant.
LEMMA AddStep == StoreInv /\ Add => StoreInv'
  <1> SUFFICES ASSUME StoreInv, Add PROVE StoreInv'
    OBVIOUS
  <1> USE DEF StoreInv
  <1>1. PICK id \in NewIds, row \in Entered(Row("password", None, None)) :
          IF row.auth = "password"
          THEN /\ stack' = Append(stack, Frame("create", id, "job",
                                               [row EXCEPT !.ref = NewRef(id)],
                                               "write", NewRef(id)))
               /\ fresh' = fresh + 1 /\ UNCHANGED rows
          ELSE /\ rows' = IF Fits(row, groups) THEN [rows EXCEPT ![id] = row] ELSE rows
               /\ UNCHANGED <<stack, fresh>>
    BY DEF Add
  <1>2. /\ Interactive /\ UNCHANGED <<kind, groups, secrets, checks, file, refused, mishaps, deleted>>
        /\ fresh \in Nat /\ stack \in Seq(Frames)
    BY DEF Add, Typed
  <1>3. /\ id \in Ids /\ rows[id] = None
        /\ \A k \in 1..Len(stack) : stack[k].id # id
    BY DEF NewIds
  <1>4. row \in Rows /\ row.ref = None
    BY EnteredLemma DEF Row
  <1>5. CASE row.auth = "password"
    <2>0. PICK ref, new : ref = NewRef(id) /\ new = [row EXCEPT !.ref = ref]
      OBVIOUS
    <2>1. ref = <<id, fresh + 1>> /\ ref \in Refs /\ fresh + 1 \in 1..(fresh + 1)
      BY <1>2, <1>3, <2>0 DEF NewRef, Refs
    <2>2. new \in Rows /\ new.ref = ref
      BY <1>4, <2>0, <2>1 DEF Rows
    <2>3. PICK g : g = Frame("create", id, "job", new, "write", ref)
      OBVIOUS
    <2>4. /\ g.op = "create" /\ g.id = id /\ g.at = "job" /\ g.row = new /\ g.job = "write"
          /\ g.ref = ref
      BY <2>3 DEF Frame
    <2>5. g \in Frames
      BY <2>1, <2>2, <2>3, <1>3 DEF Frame, Frames
    <2>6. stack' = Append(stack, g) /\ fresh' = fresh + 1 /\ UNCHANGED rows
      BY <1>1, <1>5, <2>0, <2>3
    <2>7. Typed'
      BY <1>2, <2>5, <2>6, PushLemma DEF Typed
    <2>8. MadeFor(id, ref)'
      BY <1>2, <2>1, <2>6 DEF MadeFor
    <2>9. RefsInv'
      <3>1. Refers(g)'
        BY <2>2, <2>4, <2>8 DEF Refers
      <3>2. \A k \in 1..Len(stack') : \/ \E j \in 1..Len(stack) : stack'[k] = stack[j]
                                      \/ stack'[k] = g
        BY <2>5, <2>6, PushLemma
      <3>3. \A k \in 1..Len(stack') : \/ \E j \in 1..Len(stack) : stack'[k] = stack[j]
                                      \/ Refers(stack[k])'
        BY <3>1, <3>2 DEF Refers, MadeFor
      <3> QED BY <1>2, <2>6, <3>3, RowsSame, RefsLemma
    <2>10. Sound(g)'
      <3>1. Held(id)' = None
        BY <1>3, <2>6 DEF Held
      <3> QED BY <2>2, <2>4, <3>1 DEF Sound
    <2>11. Orderly'
      BY <1>2, <1>3, <2>4, <2>5, <2>6, <2>10, BeginLemma
    <2> QED BY <1>2, <2>6, <2>7, <2>9, <2>11 DEF GroupsInv, Fits
  <1>6. CASE row.auth # "password"
    <2>1. UNCHANGED <<stack, fresh>>
      BY <1>1, <1>6
    <2>2. CASE ~Fits(row, groups)
      <3>1. UNCHANGED rows
        BY <1>1, <1>6, <2>2
      <3> QED BY <1>2, <2>1, <3>1 DEF Typed, GroupsInv, RefsInv, Orderly, StackInv, FramesInv,
               KeptInv, OwnedInv, Torn, Unowned, Fits, Held, Refers, MadeFor, Sound, Clearing, Owner
    <2>3. CASE Fits(row, groups)
      <3>1. rows' = [rows EXCEPT ![id] = row]
        BY <1>1, <1>6, <2>3
      <3>2. /\ rows' \in [Ids -> Rows \cup {None}] /\ GroupsInv' /\ Held(id)' = None
            /\ \A j \in Ids : j # id => rows'[j] = rows[j]
            /\ \A j \in Ids : Held(j)' # None => MadeFor(j, Held(j)')
        BY <1>2, <1>3, <1>4, <2>3, <3>1, RowLemma, NoneLemma
      <3>3. \A j \in Ids : Held(j)' = Held(j)
        BY <1>3, <3>2, HeldLemma DEF Held
      <3>4. Typed'
        BY <1>2, <2>1, <3>2 DEF Typed
      <3>5. RefsInv'
        BY <1>2, <2>1, <3>2, RefsLemma
      <3>6. Orderly'
        BY <1>2, <1>3, <2>1, <3>2, <3>3, StillLemma
      <3> QED BY <3>2, <3>4, <3>5, <3>6
    <2> QED BY <2>2, <2>3
  <1> QED BY <1>5, <1>6

\* Ask preserves the invariant.
LEMMA AskStep ==
  ASSUME StoreInv, NEW op \in {"edit", "delete"}, Ask(op)
  PROVE  StoreInv'
  <1> USE DEF StoreInv
  <1>1. PICK id \in Ids :
          /\ rows[id] # None
          /\ stack' = Append(stack, Frame(op, id, "dialog", rows[id], None, None))
          /\ mishaps' = mishaps \cup (IF \E k \in 1..Len(stack) : stack[k].id = id
                                      THEN {"edit"} ELSE {})
    BY DEF Ask
  <1>2. /\ Interactive /\ fresh \in Nat /\ stack \in Seq(Frames)
        /\ UNCHANGED <<kind, rows, groups, secrets, fresh, checks, file, refused, deleted>>
    BY DEF Ask, Typed
  <1>3. PICK g : g = Frame(op, id, "dialog", rows[id], None, None)
    OBVIOUS
  <1>4. /\ g.op = op /\ g.id = id /\ g.at = "dialog" /\ g.row = rows[id]
    BY <1>3 DEF Frame
  <1>5. rows[id] \in Rows
    BY <1>1 DEF Typed
  <1>6. g \in Frames
    BY <1>3, <1>5 DEF Frame, Frames
  <1>7. stack' = Append(stack, g)
    BY <1>1, <1>3
  <1>8. Typed'
    BY <1>2, <1>6, <1>7, PushLemma DEF Typed
  <1>9. RefsInv'
    <2>1. Refers(g)
      BY <1>4, <1>5, NoneLemma DEF Refers, RefsInv, Held
    <2>2. Refers(g)'
      BY <1>2, <2>1, RefersLemma
    <2>3. \A k \in 1..Len(stack') : \/ \E j \in 1..Len(stack) : stack'[k] = stack[j]
                                    \/ stack'[k] = g
      BY <1>6, <1>7, PushLemma
    <2>4. \A k \in 1..Len(stack') : \/ \E j \in 1..Len(stack) : stack'[k] = stack[j]
                                    \/ Refers(stack[k])'
      BY <2>2, <2>3 DEF Refers, MadeFor
    <2> QED BY <1>2, <2>4, RowsSame, RefsLemma
  <1>10. Orderly'
    <2>1. Sound(g)'
      BY <1>1, <1>2, <1>4, <1>5, NoneLemma DEF Sound, Held
    <2>2. "edit" \notin mishaps' => \A k \in 1..Len(stack) : stack[k].id # g.id
      BY <1>1, <1>4
    <2>3. mishaps \subseteq mishaps'
      BY <1>1
    <2> QED BY <1>2, <1>6, <1>7, <2>1, <2>2, <2>3, BeginLemma
  <1> QED BY <1>2, <1>8, <1>9, <1>10 DEF GroupsInv, Fits

\* The innermost action returns and leaves the rows alone.
LEMMA ReturnLemma ==
  ASSUME StoreInv, stack # <<>>, Returns, NEW f \in Frames, f = Top,
         UNCHANGED <<rows, groups, secrets, fresh, file, refused>>,
         mishaps \subseteq mishaps',
         "edit" \notin mishaps' =>
           /\ ~Clearing(f, f.id)
           /\ Unowned' \/ \A ref \in secrets : Owner(f, ref) => Held(f.id) = ref
  PROVE  StoreInv'
  <1> USE DEF StoreInv
  <1>1. fresh \in Nat /\ f.id \in Ids
    BY DEF Typed, Frames
  <1>2. Typed'
    BY ReturnsLemma DEF Typed
  <1>3. GroupsInv'
    BY DEF GroupsInv, Fits
  <1>4. RefsInv'
    <2>1. \A k \in 1..Len(stack') : \E j \in 1..Len(stack) : stack'[k] = stack[j]
      BY ReturnsLemma
    <2> QED BY <1>1, <2>1, RowsSame, RefsLemma
  <1>5. Orderly'
    <2>1. Held(f.id)' = Held(f.id)
      BY <1>1, HeldLemma
    <2>2. "edit" \notin mishaps' /\ ~Torn' => Held(f.id)' \in secrets \cup {None}
      BY <2>1, NotClearing DEF Orderly, Torn
    <2> QED BY <2>1, <2>2, PopLemma
  <1> QED BY <1>2, <1>3, <1>4, <1>5

\* The innermost action writes x as the row of its connection, and returns.
LEMMA WriteLemma ==
  ASSUME StoreInv, stack # <<>>, Returns, NEW f \in Frames, f = Top,
         NEW x \in Rows \cup {None},
         x # None => Fits(x, groups) /\ (x.ref # None => MadeFor(f.id, x.ref)),
         rows' = [rows EXCEPT ![f.id] = x],
         UNCHANGED <<groups, secrets, fresh, file, refused>>,
         mishaps \subseteq mishaps',
         NEW named, named = (IF x = None THEN None ELSE x.ref),
         "edit" \notin mishaps' =>
           /\ Torn' \/ named \in secrets \cup {None}
           /\ \/ Unowned'
              \/ \A ref \in secrets : Held(f.id) = ref \/ Owner(f, ref) => named = ref
  PROVE  StoreInv'
  <1> USE DEF StoreInv
  <1>1. fresh \in Nat /\ f.id \in Ids
    BY DEF Typed, Frames
  <1>2. /\ rows' \in [Ids -> Rows \cup {None}] /\ GroupsInv' /\ Held(f.id)' = named
        /\ \A j \in Ids : j # f.id => rows'[j] = rows[j]
        /\ \A j \in Ids : Held(j)' # None => MadeFor(j, Held(j)')
    BY <1>1, RowLemma
  <1>3. Typed'
    BY <1>2, ReturnsLemma DEF Typed
  <1>4. RefsInv'
    <2>1. \A k \in 1..Len(stack') : \E j \in 1..Len(stack) : stack'[k] = stack[j]
      BY ReturnsLemma
    <2> QED BY <1>1, <1>2, <2>1, RefsLemma
  <1>5. Orderly'
    BY <1>2, PopLemma
  <1> QED BY <1>2, <1>3, <1>4, <1>5

\* The innermost action goes on as g, perhaps with its row removed.
LEMMA GoOnLemma ==
  ASSUME StoreInv, stack # <<>>, NEW f \in Frames, f = Top,
         NEW g \in Frames, Goes(g), g.id = f.id,
         fresh' \in Nat, fresh <= fresh', UNCHANGED <<groups, secrets, file, refused>>,
         mishaps \subseteq mishaps', Refers(g)',
         UNCHANGED rows \/ rows' = [rows EXCEPT ![f.id] = None],
         "edit" \notin mishaps' =>
           /\ Sound(g)' /\ ~Clearing(f, f.id)
           /\ \/ Unowned'
              \/ \A ref \in secrets : Held(f.id) = ref \/ Owner(f, ref)
                                        => Held(f.id)' = ref \/ Owner(g, ref)
  PROVE  StoreInv'
  <1> USE DEF StoreInv
  <1>1. fresh \in Nat /\ f.id \in Ids
    BY DEF Typed, Frames
  <1>2. /\ rows' \in [Ids -> Rows \cup {None}] /\ GroupsInv'
        /\ Held(f.id)' \in {None, Held(f.id)}
        /\ \A j \in Ids : j # f.id => rows'[j] = rows[j]
        /\ \A j \in Ids : Held(j)' # None => MadeFor(j, Held(j)')
    <2>1. CASE UNCHANGED rows
      <3>1. GroupsInv' /\ rows' \in [Ids -> Rows \cup {None}]
        BY <2>1 DEF GroupsInv, Fits, Typed
      <3> QED BY <1>1, <2>1, <3>1, RowsSame
    <2>2. CASE rows' = [rows EXCEPT ![f.id] = None]
      <3>1. None \in Rows \cup {None}
        OBVIOUS
      <3> QED BY <1>1, <2>2, <3>1, RowLemma
    <2> QED BY <2>1, <2>2
  <1>3. Typed'
    BY <1>2, GoesLemma DEF Typed
  <1>4. RefsInv'
    <2>1. \A k \in 1..Len(stack') : \/ \E j \in 1..Len(stack) : stack'[k] = stack[j]
                                    \/ stack'[k] = g
      BY GoesLemma
    <2>2. \A k \in 1..Len(stack') : \/ \E j \in 1..Len(stack) : stack'[k] = stack[j]
                                    \/ Refers(stack[k])'
      BY <2>1 DEF Refers, MadeFor
    <2> QED BY <1>2, <2>2, RefsLemma
  <1>5. Orderly'
    <2>1. "edit" \notin mishaps' /\ ~Torn' => Held(f.id)' \in secrets \cup {None}
      BY <1>2, NotClearing DEF Orderly, Torn
    <2> QED BY <1>2, <2>1, TopLemma
  <1> QED BY <1>2, <1>3, <1>4, <1>5

\* What is known of the innermost action.
LEMMA TopFacts ==
  ASSUME StoreInv, stack # <<>>, NEW f, f = Top
  PROVE  /\ f \in Frames /\ f.id \in Ids /\ Refers(f) /\ fresh \in Nat
         /\ f.op \in {"create", "edit", "delete"}
         /\ f.at \in {"dialog", "job", "done", "failed"}
         /\ f.op # "delete" => f.row \in Rows
         /\ f.at # "dialog" => f.job \in {"write", "remove"}
         /\ "edit" \notin mishaps => /\ Sound(f)
                                     /\ ~Torn /\ ~Clearing(f, f.id)
                                          => Held(f.id) \in secrets \cup {None}
  <1>1. Len(stack) \in 1..Len(stack) /\ f = stack[Len(stack)] /\ f \in Frames
    BY FrontLemma DEF StoreInv, Typed, Top
  <1>2. Refers(f) /\ ("edit" \notin mishaps => Sound(f))
    BY <1>1 DEF StoreInv, RefsInv, Orderly, FramesInv
  <1>3. "edit" \notin mishaps /\ ~Torn /\ ~Clearing(f, f.id)
          => Held(f.id) \in secrets \cup {None}
    BY <1>1, NotClearing DEF StoreInv, Orderly
  <1> QED BY <1>1, <1>2, <1>3 DEF Frames, StoreInv, Typed

\* Cancel preserves the invariant.
LEMMA CancelStep == StoreInv /\ Cancel => StoreInv'
  <1> SUFFICES ASSUME StoreInv, Cancel PROVE StoreInv'
    OBVIOUS
  <1>1. PICK f : f = Top
    OBVIOUS
  <1>2. /\ stack # <<>> /\ f.at = "dialog" /\ Returns
        /\ UNCHANGED <<rows, groups, secrets, fresh, file, refused, mishaps>>
    BY <1>1 DEF Cancel
  <1>3. f \in Frames
    BY <1>1, <1>2, TopFacts
  <1>4. ~Clearing(f, f.id) /\ \A ref \in secrets : ~Owner(f, ref)
    BY <1>2 DEF Clearing, Owner
  <1> QED BY <1>1, <1>2, <1>3, <1>4, ReturnLemma

\* ConnectionRepository::update at the end of an edit, in any of its forms.
LEMMA WriteRowLemma ==
  ASSUME StoreInv, stack # <<>>, NEW f, f = Top, NEW x \in Rows, WriteRow(f.id, x),
         UNCHANGED <<groups, secrets, fresh, file, refused>>,
         x.ref # None => MadeFor(f.id, x.ref),
         "edit" \notin mishaps =>
           /\ Torn \/ x.ref \in secrets \cup {None}
           /\ \A ref \in secrets : Held(f.id) = ref \/ Owner(f, ref) => x.ref = ref
  PROVE  StoreInv'
  <1>1. f \in Frames
    BY TopFacts
  <1>2. Returns /\ mishaps \subseteq mishaps'
    BY DEF WriteRow, Mishap
  <1>3. CASE rows[f.id] # None /\ Fits(x, groups)
    <2>1. rows' = [rows EXCEPT ![f.id] = x] /\ UNCHANGED mishaps
      BY <1>3 DEF WriteRow
    <2>2. x.ref = (IF x = None THEN None ELSE x.ref)
      BY NoneLemma
    <2>3. Torn' = Torn
      BY <2>1 DEF Torn
    <2> QED BY <1>1, <1>2, <1>3, <2>1, <2>2, <2>3, WriteLemma
  <1>4. CASE ~(rows[f.id] # None /\ Fits(x, groups))
    <2>1. "edit" \in mishaps' /\ UNCHANGED rows
      BY <1>4 DEF WriteRow, Mishap
    <2> QED BY <1>1, <1>2, <2>1, ReturnLemma
  <1> QED BY <1>3, <1>4

\* No two rows have a reference in common.
LEMMA NeverShared ==
  ASSUME StoreInv, NEW id \in Ids, NEW ref, ref # None, Held(id) = ref
  PROVE  ~Shared(ref, id)
  <1> SUFFICES ASSUME NEW other \in Ids \ {id}, rows[other] # None, rows[other].ref = ref
               PROVE  FALSE
    BY DEF Shared
  <1>1. MadeFor(id, ref) /\ MadeFor(other, ref)
    BY DEF StoreInv, RefsInv, Held
  <1> QED BY <1>1, MadeForOne DEF StoreInv, Typed

\* AcceptEdit preserves the invariant.
LEMMA AcceptEditStep == StoreInv /\ AcceptEdit => StoreInv'
  <1> SUFFICES ASSUME StoreInv, AcceptEdit PROVE StoreInv'
    OBVIOUS
  <1>1. PICK f : f = Top
    OBVIOUS
  <1>2. /\ stack # <<>> /\ f.op = "edit" /\ f.at = "dialog"
        /\ UNCHANGED <<groups, secrets, file, refused>>
    BY <1>1 DEF AcceptEdit
  <1>3. PICK row \in Entered(f.row), given \in BOOLEAN : Accepted(f, row, given)
    BY <1>1 DEF AcceptEdit
  <1>4. /\ f \in Frames /\ f.id \in Ids /\ Refers(f) /\ fresh \in Nat /\ f.row \in Rows
        /\ "edit" \notin mishaps => /\ Sound(f)
                                    /\ Torn \/ Held(f.id) \in secrets \cup {None}
    BY <1>1, <1>2, TopFacts DEF Clearing
  <1>5. row \in Rows /\ row.ref = f.row.ref /\ row.auth \in Auths
    BY <1>4, EnteredLemma DEF Rows
  <1>6. row.ref # None => MadeFor(f.id, row.ref)
    BY <1>4, <1>5, NoneLemma DEF Refers
  <1>7. ~Clearing(f, f.id) /\ \A ref : ~Owner(f, ref)
    BY <1>2 DEF Clearing, Owner
  <1>8. "edit" \notin mishaps => rows[f.id] # None /\ row.ref = Held(f.id)
    BY <1>2, <1>4, <1>5 DEF Sound
  <1>9. [row EXCEPT !.ref = None] \in Rows /\ [row EXCEPT !.ref = None].ref = None
    BY <1>5 DEF Rows
  <1>10. CASE rows[f.id] = None \/ (row.auth = "password" /\ ~given /\ row.ref = None)
    <2>1. Returns /\ UNCHANGED <<rows, fresh, mishaps>>
      BY <1>3, <1>10 DEF Accepted
    <2> QED BY <1>1, <1>2, <1>4, <1>7, <2>1, ReturnLemma
  <1>11. CASE rows[f.id] # None /\ row.auth = "password" /\ given /\ row.ref = None
    <2>1. PICK ref, new : ref = NewRef(f.id) /\ new = [row EXCEPT !.ref = ref]
      OBVIOUS
    <2>2. ref = <<f.id, fresh + 1>> /\ ref \in Refs /\ fresh + 1 \in 1..(fresh + 1)
      BY <1>4, <2>1 DEF NewRef, Refs
    <2>3. new \in Rows /\ new.ref = ref
      BY <1>5, <2>1, <2>2 DEF Rows
    <2>4. PICK g : g = Frame("edit", f.id, "job", new, "write", ref)
      OBVIOUS
    <2>5. /\ g.op = "edit" /\ g.id = f.id /\ g.at = "job" /\ g.row = new /\ g.job = "write"
          /\ g.ref = ref
      BY <2>4 DEF Frame
    <2>6. g \in Frames
      BY <2>2, <2>3, <2>4, <1>4 DEF Frame, Frames
    <2>7. Goes(g) /\ fresh' = fresh + 1 /\ UNCHANGED <<rows, mishaps>>
      BY <1>3, <1>11, <2>1, <2>3, <2>4 DEF Accepted
    <2>8. Refers(g)'
      <3>1. MadeFor(f.id, ref)'
        BY <2>2, <2>7 DEF MadeFor
      <3> QED BY <2>3, <2>5, <3>1 DEF Refers
    <2>9. Held(f.id)' = Held(f.id)
      BY <1>4, <2>7, HeldLemma
    <2>10. "edit" \notin mishaps => Sound(g)'
      BY <1>8, <1>11, <2>3, <2>5, <2>9 DEF Sound
    <2> QED BY <1>1, <1>2, <1>4, <1>7, <2>5, <2>6, <2>7, <2>8, <2>9, <2>10, GoOnLemma
  <1>12. CASE rows[f.id] # None /\ row.auth = "password" /\ given /\ row.ref # None
    <2>1. PICK g : g = Frame("edit", f.id, "job", row, "write", row.ref)
      OBVIOUS
    <2>2. /\ g.op = "edit" /\ g.id = f.id /\ g.at = "job" /\ g.row = row /\ g.job = "write"
          /\ g.ref = row.ref
      BY <2>1 DEF Frame
    <2>3. row.ref \in Refs
      BY <1>5, <1>12 DEF Rows
    <2>4. g \in Frames
      BY <1>4, <1>5, <2>1, <2>3 DEF Frame, Frames
    <2>5. Goes(g) /\ UNCHANGED <<rows, fresh, mishaps>>
      BY <1>3, <1>12, <2>1 DEF Accepted
    <2>6. Refers(g)'
      <3>1. MadeFor(f.id, row.ref)'
        BY <1>4, <1>6, <1>12, <2>5, MadeForLemma
      <3> QED BY <2>2, <3>1 DEF Refers
    <2>7. Held(f.id)' = Held(f.id)
      BY <1>4, <2>5, HeldLemma
    <2>8. "edit" \notin mishaps => Sound(g)'
      BY <1>8, <2>2, <2>7 DEF Sound
    <2> QED BY <1>1, <1>2, <1>4, <1>7, <2>2, <2>4, <2>5, <2>6, <2>7, <2>8, GoOnLemma
  <1>13. CASE rows[f.id] # None /\ row.auth = "password" /\ ~given /\ row.ref # None
    <2>1. WriteRow(f.id, row) /\ UNCHANGED fresh
      BY <1>3, <1>13 DEF Accepted
    <2> QED BY <1>1, <1>2, <1>4, <1>5, <1>6, <1>7, <1>8, <2>1, WriteRowLemma
  <1>14. CASE rows[f.id] # None /\ row.auth = "other" /\ rows[f.id].ref # None
    <2>1. PICK ref, new : ref = rows[f.id].ref /\ new = [row EXCEPT !.ref = None]
      OBVIOUS
    <2>2. Held(f.id) = ref /\ ref # None /\ ref \in Refs /\ MadeFor(f.id, ref)
      BY <1>4, <1>14, <2>1 DEF Held, StoreInv, Typed, RefsInv, Rows
    <2>3. ~Shared(ref, f.id)
      BY <1>4, <2>2, NeverShared
    <2>4. PICK g : g = Frame("edit", f.id, "job", new, "remove", ref)
      OBVIOUS
    <2>5. /\ g.op = "edit" /\ g.id = f.id /\ g.at = "job" /\ g.row = new /\ g.job = "remove"
          /\ g.ref = ref
      BY <2>4 DEF Frame
    <2>6. g \in Frames
      BY <1>4, <1>9, <2>1, <2>2, <2>4 DEF Frame, Frames
    <2>7. Goes(g) /\ UNCHANGED <<rows, fresh, mishaps>>
      BY <1>3, <1>14, <2>1, <2>3, <2>4 DEF Accepted
    <2>8. Refers(g)'
      <3>1. MadeFor(f.id, ref)'
        BY <1>4, <2>2, <2>7, MadeForLemma
      <3> QED BY <1>9, <2>1, <2>5, <3>1 DEF Refers
    <2>9. Held(f.id)' = Held(f.id)
      BY <1>4, <2>7, HeldLemma
    <2>10. Sound(g)'
      BY <1>9, <2>1, <2>2, <2>5, <2>9 DEF Sound
    <2> QED BY <1>1, <1>2, <1>4, <1>7, <2>5, <2>6, <2>7, <2>8, <2>9, <2>10, GoOnLemma
  <1>15. CASE rows[f.id] # None /\ row.auth = "other" /\ rows[f.id].ref = None
    <2>1. PICK new : new = [row EXCEPT !.ref = None]
      OBVIOUS
    <2>2. WriteRow(f.id, new) /\ UNCHANGED fresh
      BY <1>3, <1>15, <2>1 DEF Accepted
    <2>3. Held(f.id) = None /\ None \notin secrets
      BY <1>15, NoneLemma DEF Held, StoreInv, Typed
    <2> QED BY <1>1, <1>2, <1>7, <1>9, <2>1, <2>2, <2>3, WriteRowLemma
  <1>16. row.auth = "password" \/ row.auth = "other"
    BY <1>5 DEF Auths
  <1> QED BY <1>10, <1>11, <1>12, <1>13, <1>14, <1>15, <1>16

\* AcceptDelete preserves the invariant.
LEMMA AcceptDeleteStep == StoreInv /\ AcceptDelete => StoreInv'
  <1> SUFFICES ASSUME StoreInv, AcceptDelete PROVE StoreInv'
    OBVIOUS
  <1>1. PICK f, ref : f = Top /\ ref = rows[f.id].ref
    OBVIOUS
  <1>2. /\ stack # <<>> /\ f.op = "delete" /\ f.at = "dialog"
        /\ UNCHANGED <<groups, secrets, fresh, file, refused, mishaps>>
        /\ IF rows[f.id] = None THEN Returns /\ UNCHANGED rows
           ELSE /\ rows' = [rows EXCEPT ![f.id] = None]
                /\ IF ref = None \/ Shared(ref, f.id) THEN Returns
                   ELSE Goes(Frame("delete", f.id, "job", None, "remove", ref))
    BY <1>1 DEF AcceptDelete
  <1>3. f \in Frames /\ f.id \in Ids /\ fresh \in Nat
    BY <1>1, <1>2, TopFacts
  <1>4. ~Clearing(f, f.id) /\ \A r : ~Owner(f, r)
    BY <1>2 DEF Clearing, Owner
  <1>5. CASE rows[f.id] = None
    BY <1>1, <1>2, <1>3, <1>4, <1>5, ReturnLemma
  <1>6. CASE rows[f.id] # None /\ ref = None
    <2>1. Returns /\ rows' = [rows EXCEPT ![f.id] = None]
      BY <1>2, <1>6
    <2>2. Held(f.id) = None /\ None \notin secrets
      BY <1>1, <1>6, NoneLemma DEF Held, StoreInv, Typed
    <2>3. PICK x \in Rows \cup {None} : x = None
      OBVIOUS
    <2>4. /\ mishaps \subseteq mishaps' /\ None \in secrets \cup {None}
          /\ None = (IF x = None THEN None ELSE x.ref)
      BY <1>2, <2>3
    <2>5. \A r \in secrets : Held(f.id) = r \/ Owner(f, r) => None = r
      BY <1>4, <2>2
    <2> QED BY <1>1, <1>2, <1>3, <2>1, <2>3, <2>4, <2>5, WriteLemma
  <1>7. CASE rows[f.id] # None /\ ref # None
    <2>1. Held(f.id) = ref /\ ref \in Refs /\ MadeFor(f.id, ref)
      BY <1>1, <1>3, <1>7 DEF Held, StoreInv, Typed, RefsInv, Rows
    <2>2. ~Shared(ref, f.id)
      BY <1>3, <1>7, <2>1, NeverShared
    <2>3. PICK g : g = Frame("delete", f.id, "job", None, "remove", ref)
      OBVIOUS
    <2>4. /\ g.op = "delete" /\ g.id = f.id /\ g.at = "job" /\ g.row = None
          /\ g.job = "remove" /\ g.ref = ref
      BY <2>3 DEF Frame
    <2>5. g \in Frames
      BY <1>3, <2>1, <2>3 DEF Frame, Frames
    <2>6. Goes(g) /\ rows' = [rows EXCEPT ![f.id] = None]
      BY <1>2, <1>7, <2>2, <2>3
    <2>7. Refers(g)'
      <3>1. MadeFor(f.id, ref)'
        BY <1>2, <1>3, <2>1, MadeForLemma
      <3> QED BY <2>4, <3>1 DEF Refers
    <2>8. Held(f.id)' = None
      BY <1>3, <2>6 DEF Held, StoreInv, Typed
    <2>9. Sound(g)'
      BY <2>4, <2>8 DEF Sound
    <2>10. \A r \in secrets : Held(f.id) = r \/ Owner(f, r) => Held(f.id)' = r \/ Owner(g, r)
      BY <1>4, <2>1, <2>4 DEF Owner
    <2>11. fresh' \in Nat /\ fresh <= fresh' /\ mishaps \subseteq mishaps'
      BY <1>2, <1>3
    <2> QED BY <1>1, <1>2, <1>3, <1>4, <2>4, <2>5, <2>6, <2>7, <2>9, <2>10, <2>11, GoOnLemma
  <1> QED BY <1>5, <1>6, <1>7

\* Resume preserves the invariant.
LEMMA ResumeStep == StoreInv /\ Resume => StoreInv'
  <1> SUFFICES ASSUME StoreInv, Resume PROVE StoreInv'
    OBVIOUS
  <1>1. PICK f : f = Top
    OBVIOUS
  <1>2. /\ stack # <<>> /\ f.at \in {"done", "failed"}
        /\ UNCHANGED <<groups, secrets, fresh, file, refused>>
        /\ f.op = "create" => Created(f) /\ UNCHANGED mishaps
        /\ f.op = "edit" => Edited(f)
        /\ f.op = "delete" => Deleted(f) /\ UNCHANGED <<rows, mishaps>>
    BY <1>1 DEF Resume
  <1>3. /\ f \in Frames /\ f.id \in Ids /\ Refers(f) /\ fresh \in Nat
        /\ f.op \in {"create", "edit", "delete"} /\ f.job \in {"write", "remove"}
        /\ f.op # "delete" => f.row \in Rows
        /\ "edit" \notin mishaps => Sound(f)
    BY <1>1, <1>2, TopFacts
  <1>4. None \notin secrets
    BY NoneLemma DEF StoreInv, Typed
  <1>5. \A ref : Owner(f, ref) => f.job = "write" /\ f.at = "done" /\ f.ref = ref
    BY <1>2 DEF Owner
  <1>6. f.op # "delete" /\ f.row.ref # None => MadeFor(f.id, f.row.ref)
    BY <1>3, NoneLemma DEF Refers
  <1>7. CASE f.op = "create" /\ (f.job = "remove" \/ f.at = "failed")
    <2>1. Returns /\ UNCHANGED <<rows, mishaps>>
      BY <1>2, <1>7 DEF Created
    <2>2. ~Clearing(f, f.id) /\ \A ref : ~Owner(f, ref)
      BY <1>5, <1>7 DEF Clearing
    <2> QED BY <1>1, <1>2, <1>3, <2>1, <2>2, ReturnLemma
  <1>8. CASE f.op = "create" /\ f.job = "write" /\ f.at = "done" /\ Fits(f.row, groups)
    <2>1. Returns /\ rows' = [rows EXCEPT ![f.id] = f.row] /\ UNCHANGED mishaps
      BY <1>2, <1>8 DEF Created
    <2>2. PICK x, named : x \in Rows /\ x = f.row /\ named = x.ref
      BY <1>3, <1>8
    <2>3. /\ named = (IF x = None THEN None ELSE x.ref)
          /\ x \in Rows \cup {None} /\ mishaps \subseteq mishaps'
          /\ Fits(x, groups) /\ (x.ref # None => MadeFor(f.id, x.ref))
      BY <1>6, <1>8, <2>1, <2>2, NoneLemma
    <2>4. "edit" \notin mishaps' =>
            /\ Torn' \/ named \in secrets \cup {None}
            /\ \A ref \in secrets : Held(f.id) = ref \/ Owner(f, ref) => named = ref
      BY <1>3, <1>4, <1>5, <1>8, <2>1, <2>2 DEF Sound, Torn
    <2> QED BY <1>1, <1>2, <1>3, <2>1, <2>2, <2>4, <2>3, WriteLemma, ZenonT(60)
  <1>9. CASE f.op = "create" /\ f.job = "write" /\ f.at = "done" /\ ~Fits(f.row, groups)
    <2>1. PICK g : g = [f EXCEPT !.at = "job", !.job = "remove"]
      OBVIOUS
    <2>2. Goes(g) /\ UNCHANGED <<rows, mishaps>>
      BY <1>2, <1>9, <2>1 DEF Created
    <2>3. /\ g \in Frames /\ g.op = "create" /\ g.id = f.id /\ g.at = "job" /\ g.row = f.row
          /\ g.job = "remove" /\ g.ref = f.ref
      BY <1>3, <1>9, <2>1 DEF Frames
    <2>4. Refers(g)'
      <3>1. Refers(g)
        BY <1>2, <1>3, <2>3 DEF Refers
      <3> QED BY <1>2, <1>3, <3>1, RefersLemma
    <2>5. Held(f.id)' = Held(f.id)
      BY <1>3, <2>2, HeldLemma
    <2>6. "edit" \notin mishaps => Sound(g)'
      BY <1>3, <1>9, <2>3, <2>5 DEF Sound
    <2>7. ~Clearing(f, f.id) /\ \A ref : Owner(f, ref) => Owner(g, ref)
      BY <1>5, <1>9, <2>3 DEF Clearing, Owner
    <2> QED BY <1>1, <1>2, <1>3, <2>2, <2>3, <2>4, <2>5, <2>6, <2>7, GoOnLemma
  <1>10. CASE f.op = "edit" /\ f.at = "failed"
    <2>1. Returns /\ UNCHANGED <<rows, mishaps>>
      BY <1>2, <1>10 DEF Edited
    <2>2. ~Clearing(f, f.id) /\ \A ref : ~Owner(f, ref)
      BY <1>5, <1>10 DEF Clearing
    <2> QED BY <1>1, <1>2, <1>3, <2>1, <2>2, ReturnLemma
  <1>11. CASE f.op = "edit" /\ f.at = "done"
    <2>1. WriteRow(f.id, f.row)
      BY <1>2, <1>11 DEF Edited
    <2>2. "edit" \notin mishaps =>
            /\ Torn \/ f.row.ref \in secrets \cup {None}
            /\ \A ref \in secrets : Held(f.id) = ref \/ Owner(f, ref) => f.row.ref = ref
      BY <1>3, <1>4, <1>5, <1>11 DEF Sound, Torn
    <2> QED BY <1>1, <1>2, <1>3, <1>6, <1>11, <2>1, <2>2, WriteRowLemma
  <1>12. CASE f.op = "delete"
    <2>1. Returns /\ UNCHANGED <<rows, mishaps>>
      BY <1>2, <1>12 DEF Deleted
    <2>2. ~Clearing(f, f.id)
      BY <1>12 DEF Clearing
    <2>3. "edit" \notin mishaps => \A ref \in secrets : ~Owner(f, ref)
      BY <1>2, <1>3, <1>5, <1>12 DEF Sound
    <2> QED BY <1>1, <1>2, <1>3, <2>1, <2>2, <2>3, ReturnLemma
  <1> QED BY <1>2, <1>3, <1>7, <1>8, <1>9, <1>10, <1>11, <1>12

-----------------------------------------------------------------------------
(* Jobs and the end of the program. *)

\* The job of action f, wherever it is on the stack, has ended, and f goes on as g.
LEMMA JobLemma ==
  ASSUME StoreInv, NEW i \in 1..Len(stack), NEW f \in Frames, f = stack[i],
         NEW g \in Frames, stack' = [stack EXCEPT ![i] = g],
         g.id = f.id, g.ref = f.ref, f.at = "job", g.at \in {"done", "failed"},
         UNCHANGED rows, mishaps \subseteq mishaps',
         \/ \A ref \in Refs : ref # f.ref => (ref \in secrets' <=> ref \in secrets)
         \/ "torn" \in mishaps' /\ secrets' = {},
         "edit" \notin mishaps' =>
           /\ Sound(g)'
           /\ \/ Torn'
              \/ Held(f.id) \in secrets \cup {None} =>
                   Held(f.id) \in secrets' \cup {None} \/ Clearing(g, f.id)
           /\ \/ Unowned'
              \/ \A ref \in secrets' : Owner(g, ref) \/ (ref \in secrets /\ ~Owner(f, ref))
  PROVE  Orderly'
  <1> USE DEF StoreInv
  <1>1. /\ Len(stack') = Len(stack) /\ Len(stack) \in Nat /\ stack'[i] = g
        /\ \A k \in 1..Len(stack) : k # i => stack'[k] = stack[k]
        /\ \A k \in 1..Len(stack) : stack[k] \in Frames
    BY DEF Typed
  <1>2. fresh \in Nat /\ f.id \in Ids /\ MadeFor(f.id, f.ref)
    BY DEF Typed, Frames, RefsInv, Refers
  <1> SUFFICES ASSUME "edit" \notin mishaps'
               PROVE  /\ StackInv' /\ FramesInv'
                      /\ Torn' \/ KeptInv'
                      /\ Unowned' \/ OwnedInv'
    BY DEF Orderly
  <1>3. StackInv /\ FramesInv /\ (Torn \/ KeptInv) /\ (Unowned \/ OwnedInv)
    BY DEF Orderly
  <1>4. \A id \in Ids : Held(id)' = Held(id)
    BY HeldLemma
  <1>5. StackInv'
    <2>1. \A k \in 1..Len(stack) : /\ stack'[k].id = stack[k].id
                                   /\ stack[k].at # "dialog" => stack'[k].at # "dialog"
      BY <1>1
    <2> QED BY <1>1, <1>3, <2>1 DEF StackInv
  <1>6. FramesInv'
    <2> SUFFICES ASSUME NEW k \in 1..Len(stack') PROVE Sound(stack[k])'
      BY DEF FramesInv
    <2>1. CASE k = i
      BY <1>1, <2>1 DEF Sound
    <2>2. CASE k # i
      <3>1. PICK h \in Frames : h = stack[k] /\ h = stack'[k]
        BY <1>1, <2>2
      <3>2. Sound(h) /\ h.id \in Ids /\ Refers(h) /\ h.id # f.id
        BY <1>1, <1>3, <2>2, <3>1 DEF FramesInv, RefsInv, StackInv, Frames
      <3>3. h.at = "done" => h.ref # f.ref /\ h.ref \in Refs
        BY <1>2, <3>2, MadeForOne DEF Refers
      <3>4. h.at = "done" => \/ h.ref \in secrets' <=> h.ref \in secrets
                             \/ "torn" \in mishaps' /\ secrets' = {}
        BY <3>3
      <3>5. h.at = "dialog" => rows'[h.id] # None
        BY <3>2 DEF Sound
      <3>6. Sound(h)'
        BY <1>4, <3>2, <3>4, <3>5, SoundLemma
      <3> QED BY <3>1, <3>6 DEF Sound
    <2> QED BY <2>1, <2>2
  <1>7. ASSUME ~Torn' PROVE KeptInv'
    <2>1. KeptInv
      BY <1>3, <1>7 DEF Torn
    <2> SUFFICES ASSUME NEW id \in Ids
                 PROVE  \/ Held(id) \in secrets' \cup {None}
                        \/ \E k \in 1..Len(stack) : Clearing(stack'[k], id)
      BY <1>1, <1>4 DEF KeptInv, Clearing
    <2>2. CASE Held(id) \in secrets \cup {None} /\ id = f.id
      BY <1>1, <1>7, <2>2
    <2>3. CASE Held(id) \in secrets /\ Held(id) # None /\ id # f.id
      <3>1. MadeFor(id, Held(id))
        BY <2>3 DEF RefsInv
      <3>2. Held(id) # f.ref /\ Held(id) \in Refs
        BY <1>2, <2>3, <3>1, MadeForOne
      <3> QED BY <1>7, <2>3, <3>2 DEF Torn
    <2>4. CASE \E k \in 1..Len(stack) : Clearing(stack[k], id)
      BY <1>1, <2>4 DEF Clearing
    <2> QED BY <2>1, <2>2, <2>3, <2>4 DEF KeptInv
  <1>8. ASSUME ~Unowned' PROVE OwnedInv'
    <2>1. OwnedInv
      BY <1>3, <1>8 DEF Unowned
    <2> SUFFICES ASSUME NEW ref \in secrets'
                 PROVE  \/ \E id \in Ids : Held(id)' = ref
                        \/ \E k \in 1..Len(stack) : Owner(stack'[k], ref)
      BY <1>1 DEF OwnedInv, Owner
    <2>2. CASE Owner(g, ref)
      BY <1>1, <2>2
    <2>3. CASE ref \in secrets /\ ~Owner(f, ref)
      <3>1. CASE \E id \in Ids : Held(id) = ref
        BY <1>4, <3>1
      <3>2. CASE \E k \in 1..Len(stack) : Owner(stack[k], ref)
        <4>1. PICK k \in 1..Len(stack) : Owner(stack[k], ref)
          BY <3>2
        <4>2. k # i
          BY <2>3, <4>1
        <4> QED BY <1>1, <4>1, <4>2
      <3> QED BY <2>1, <2>3, <3>1, <3>2 DEF OwnedInv
    <2> QED BY <1>8, <2>2, <2>3
  <1> QED BY <1>5, <1>6, <1>7, <1>8

\* RunJob preserves the invariant.
LEMMA RunJobStep == StoreInv /\ RunJob => StoreInv'
  <1> SUFFICES ASSUME StoreInv, RunJob PROVE StoreInv'
    OBVIOUS
  <1>1. PICK i \in 1..Len(stack) :
          /\ stack[i].at = "job"
          /\ \/ /\ Readable
                /\ secrets' = JobDone(stack[i])
                /\ stack' = [stack EXCEPT ![i].at = "done"]
                /\ UNCHANGED mishaps
             \/ /\ UNCHANGED secrets
                /\ stack' = [stack EXCEPT ![i].at = "failed"]
                /\ IF stack[i].job = "remove" THEN Mishap("left")
                   ELSE UNCHANGED mishaps
             \/ /\ secrets' = {}
                /\ stack' = [stack EXCEPT ![i].at = "failed"]
                /\ Mishap("torn")
    BY DEF RunJob
  <1>2. UNCHANGED <<kind, rows, groups, fresh, file, refused>>
    BY DEF RunJob
  <1>3. PICK f \in Frames : f = stack[i]
    BY DEF StoreInv, Typed
  <1>4. /\ Refers(f) /\ f.at = "job" /\ f.id \in Ids /\ fresh \in Nat
        /\ f.ref \in Refs /\ f.job \in {"write", "remove"} /\ MadeFor(f.id, f.ref)
        /\ "edit" \notin mishaps => Sound(f)
    BY <1>1, <1>3 DEF StoreInv, Typed, RefsInv, Refers, Frames, Orderly, FramesInv
  <1>5. f.ref[1] = f.id /\ f.ref # None
    BY <1>4, MadeForOne
  <1>6. PICK at \in {"done", "failed"} : stack' = [stack EXCEPT ![i].at = at]
    BY <1>1
  <1>7. PICK g : g = [f EXCEPT !.at = at]
    OBVIOUS
  <1>8. /\ g \in Frames /\ g.op = f.op /\ g.id = f.id /\ g.at = at /\ g.row = f.row
        /\ g.job = f.job /\ g.ref = f.ref
    BY <1>4, <1>7 DEF Frames
  <1>9. stack' = [stack EXCEPT ![i] = g]
    BY <1>3, <1>6, <1>7
  <1>10. /\ stack' \in Seq(Frames) /\ Len(stack') = Len(stack) /\ Len(stack) \in Nat
         /\ stack'[i] = g /\ \A k \in 1..Len(stack) : k # i => stack'[k] = stack[k]
    BY <1>8, <1>9 DEF StoreInv, Typed
  <1>11. mishaps \subseteq mishaps' /\ secrets' \subseteq secrets \cup {f.ref}
    BY <1>1, <1>3 DEF JobDone, Without, Mishap
  <1>12. Typed'
    BY <1>2, <1>4, <1>10, <1>11 DEF StoreInv, Typed
  <1>13. GroupsInv'
    BY <1>2 DEF StoreInv, GroupsInv, Fits
  <1>14. RefsInv'
    <2>1. Refers(g)
      BY <1>4, <1>8 DEF Refers
    <2>2. Refers(g)'
      BY <1>2, <1>4, <2>1, RefersLemma
    <2>3. \A k \in 1..Len(stack') : \/ \E j \in 1..Len(stack) : stack'[k] = stack[j]
                                    \/ Refers(stack[k])'
      BY <1>10, <2>2 DEF Refers, MadeFor
    <2>4. \A ref \in secrets' : ref \in secrets \/ MadeFor(ref[1], ref)
      BY <1>4, <1>5, <1>11
    <2> QED BY <1>2, <1>4, <2>3, <2>4, RowsSame, RefsLemma DEF StoreInv
  <1>15. Held(f.id)' = Held(f.id)
    BY <1>2, <1>4, HeldLemma
  <1>16. CASE Readable /\ secrets' = JobDone(f) /\ at = "done" /\ UNCHANGED mishaps
    <2>1. "edit" \notin mishaps => Sound(g)'
      BY <1>4, <1>8, <1>15, <1>16 DEF Sound, JobDone, Without
    <2>2. "edit" \notin mishaps /\ Held(f.id) \in secrets \cup {None} =>
            Held(f.id) \in secrets' \cup {None} \/ Clearing(g, f.id)
      <3>1. CASE f.job = "write"
        BY <1>16, <3>1 DEF JobDone
      <3>2. CASE f.job = "remove" /\ Held(f.id) = f.ref
        BY <1>4, <1>5, <1>8, <1>16, <3>2 DEF Sound, Clearing, Frames
      <3>3. CASE f.job = "remove" /\ Held(f.id) # f.ref
        BY <1>16, <3>3 DEF JobDone, Without
      <3> QED BY <1>4, <3>1, <3>2, <3>3
    <2>3. \A ref \in secrets' : Owner(g, ref) \/ (ref \in secrets /\ ~Owner(f, ref))
      BY <1>4, <1>8, <1>16 DEF JobDone, Without, Owner
    <2>4. \A ref \in Refs : ref # f.ref => (ref \in secrets' <=> ref \in secrets)
      BY <1>4, <1>16 DEF JobDone, Without
    <2>5. Orderly'
      BY <1>2, <1>3, <1>4, <1>8, <1>9, <1>11, <1>16, <2>1, <2>2, <2>3, <2>4, JobLemma
    <2> QED BY <1>12, <1>13, <1>14, <2>5 DEF StoreInv
  <1>17. CASE /\ UNCHANGED secrets /\ at = "failed"
              /\ IF f.job = "remove" THEN Mishap("left") ELSE UNCHANGED mishaps
    <2>1. "edit" \notin mishaps => Sound(g)'
      BY <1>4, <1>8, <1>15, <1>17 DEF Sound
    <2>2. Unowned' \/ \A ref \in secrets' : ref \in secrets /\ ~Owner(f, ref)
      BY <1>4, <1>17 DEF Unowned, Mishap, Owner
    <2>3. "edit" \notin mishaps' => "edit" \notin mishaps
      BY <1>11
    <2>4. Orderly'
      BY <1>2, <1>3, <1>4, <1>8, <1>9, <1>11, <1>17, <2>1, <2>2, <2>3, JobLemma
    <2> QED BY <1>12, <1>13, <1>14, <2>4 DEF StoreInv
  <1>18. CASE secrets' = {} /\ at = "failed" /\ Mishap("torn")
    <2>1. "edit" \notin mishaps => Sound(g)'
      BY <1>4, <1>8, <1>15, <1>18 DEF Sound
    <2>2. "edit" \notin mishaps' => "edit" \notin mishaps
      BY <1>11
    <2>3. "torn" \in mishaps' /\ Torn'
      BY <1>18 DEF Mishap, Torn
    <2>4. Orderly'
      BY <1>2, <1>3, <1>4, <1>8, <1>9, <1>11, <1>18, <2>1, <2>2, <2>3, JobLemma
    <2> QED BY <1>12, <1>13, <1>14, <2>4 DEF StoreInv
  <1>19. \/ Readable /\ secrets' = JobDone(f) /\ at = "done" /\ UNCHANGED mishaps
         \/ /\ UNCHANGED secrets /\ at = "failed"
            /\ IF f.job = "remove" THEN Mishap("left") ELSE UNCHANGED mishaps
         \/ secrets' = {} /\ at = "failed" /\ Mishap("torn")
    <2>1. ASSUME NEW a \in {"done", "failed"}, stack' = [stack EXCEPT ![i].at = a]
          PROVE  a = at
      <3>1. stack'[i] = [f EXCEPT !.at = a]
        BY <1>3, <2>1 DEF StoreInv, Typed
      <3>2. [f EXCEPT !.at = a].at = a
        BY DEF Frames
      <3> QED BY <1>8, <1>10, <3>1, <3>2
    <2> QED BY <1>1, <1>3, <2>1
  <1> QED BY <1>16, <1>17, <1>18, <1>19

\* Crash preserves the invariant.
LEMMA CrashStep == StoreInv /\ Crash => StoreInv'
  <1> SUFFICES ASSUME StoreInv, Crash PROVE StoreInv'
    OBVIOUS
  <1> USE DEF StoreInv
  <1>1. /\ UNCHANGED <<kind, rows, groups, fresh, file, refused>> /\ stack' = <<>>
        /\ mishaps \subseteq mishaps' /\ "left" \in mishaps'
        /\ \/ UNCHANGED secrets
           \/ secrets' = {} /\ "torn" \in mishaps'
        /\ "edit" \notin mishaps' => \A k \in 1..Len(stack) : stack[k].op # "edit"
    BY DEF Crash
  <1>2. Len(stack') = 0 /\ stack' \in Seq(Frames)
    BY <1>1
  <1>3. Typed'
    BY <1>1, <1>2 DEF Typed
  <1>4. GroupsInv'
    BY <1>1 DEF GroupsInv, Fits
  <1>5. RefsInv'
    <2>1. fresh \in Nat
      BY DEF Typed
    <2>2. \A ref \in secrets' : ref \in secrets
      BY <1>1
    <2> QED BY <1>1, <1>2, <2>1, <2>2, RowsSame, RefsLemma
  <1>6. Orderly'
    <2> SUFFICES ASSUME "edit" \notin mishaps', ~Torn' PROVE KeptInv'
      BY <1>1, <1>2 DEF Orderly, StackInv, FramesInv, Unowned
    <2>1. UNCHANGED secrets /\ KeptInv
      BY <1>1 DEF Torn, Orderly
    <2>2. \A id \in Ids : \A k \in 1..Len(stack) : ~Clearing(stack[k], id)
      BY <1>1 DEF Clearing
    <2> QED BY <1>1, <2>1, <2>2, HeldLemma DEF KeptInv
  <1> QED BY <1>3, <1>4, <1>5, <1>6

-----------------------------------------------------------------------------
(* Export, import and checks. *)

\* Export preserves the invariant.
LEMMA ExportStep == StoreInv /\ Export => StoreInv'
  <1> SUFFICES ASSUME StoreInv, Export PROVE StoreInv'
    OBVIOUS
  <1> USE DEF StoreInv
  <1>1. /\ UNCHANGED <<kind, rows, groups, secrets, fresh, stack, refused, mishaps>>
        /\ file'.groups = groups
        /\ DOMAIN file'.rows = {i \in Ids : rows[i] # None}
        /\ \A id \in DOMAIN file'.rows : file'.rows[id] = Exported(rows[id])
    BY DEF Export
  <1>2. ASSUME NEW row \in Rows
        PROVE  Exported(row) \in Rows /\ Exported(row).ref = None
               /\ Exported(row).group = row.group
    BY DEF Exported, Rows
  <1>3. ASSUME NEW id \in DOMAIN file'.rows
        PROVE  /\ file'.rows[id] \in Rows /\ file'.rows[id].ref = None
               /\ Fits(file'.rows[id], file'.groups)
    <2>1. rows[id] \in Rows /\ Fits(rows[id], groups)
      BY <1>1, <1>3 DEF Typed, GroupsInv
    <2> QED BY <1>1, <1>2, <1>3, <2>1 DEF Fits
  <1>4. Typed'
    BY <1>1, <1>3 DEF Typed
  <1>5. GroupsInv'
    BY <1>1, <1>3 DEF GroupsInv, Fits
  <1>6. RefsInv' /\ Orderly'
    BY <1>1 DEF RefsInv, Orderly, StackInv, FramesInv, KeptInv, OwnedInv, Torn, Unowned,
                Held, Refers, MadeFor, Sound, Clearing, Owner
  <1> QED BY <1>4, <1>5, <1>6

\* The ids of the file that are taken.
Collisions == {id \in DOMAIN file.rows : rows[id] # None}

\* The rows to store come from the file, under whatever id.
LEMMA IncomingLemma ==
  ASSUME StoreInv, NEW policy \in Policies,
         NEW copies, policy = "CreateCopy" => copies \in Copies(Collisions),
         NEW incoming, incoming = Incoming(policy, copies)
  PROVE  /\ DOMAIN incoming \subseteq Ids
         /\ \A id \in DOMAIN incoming :
              \E i \in DOMAIN file.rows : incoming[id] = file.rows[i]
  <1>0. PICK known : /\ known = {id \in DOMAIN file.rows : rows[id] # None}
                     /\ policy = "CreateCopy" => copies \in Copies(known)
    BY DEF Collisions
  <1>1. DOMAIN file.rows \subseteq Ids
    BY DEF StoreInv, Typed
  <1>2. CASE policy = "Skip"
    BY <1>0, <1>1, <1>2 DEF Incoming
  <1>3. CASE policy = "Replace"
    BY <1>1, <1>3 DEF Incoming
  <1>4. CASE policy = "CreateCopy"
    <2>1. copies \in [known -> NewIds]
      BY <1>0, <1>4 DEF Copies
    <2>2. incoming = [id \in (DOMAIN file.rows \ known) \cup {copies[k] : k \in known} |->
                        IF id \in DOMAIN file.rows \ known THEN file.rows[id]
                        ELSE file.rows[CHOOSE k \in known : copies[k] = id]]
      BY <1>0, <1>4 DEF Incoming
    <2>3. DOMAIN incoming \subseteq Ids
      BY <1>1, <2>1, <2>2 DEF NewIds
    <2>4. ASSUME NEW id \in DOMAIN incoming
          PROVE  \E i \in DOMAIN file.rows : incoming[id] = file.rows[i]
      <3>1. CASE id \in DOMAIN file.rows \ known
        BY <2>2, <3>1
      <3>2. CASE id \notin DOMAIN file.rows \ known
        <4>1. \E k \in known : copies[k] = id
          BY <2>2, <3>2
        <4>2. PICK j : j = CHOOSE k \in known : copies[k] = id
          OBVIOUS
        <4>3. j \in known /\ incoming[id] = file.rows[j]
          BY <2>2, <3>2, <4>1, <4>2
        <4> QED BY <1>0, <4>3
      <3> QED BY <3>1, <3>2
    <2> QED BY <2>3, <2>4
  <1> QED BY <1>2, <1>3, <1>4 DEF Policies

\* What an import is made of.
LEMMA ImportLemma ==
  ASSUME StoreInv, Import
  PROVE  \E incoming :
           /\ DOMAIN incoming \subseteq Ids
           /\ \A id \in DOMAIN incoming :
                \E i \in DOMAIN file.rows : incoming[id] = file.rows[i]
           /\ \E made \in SUBSET file.groups,
                 stored \in SUBSET (DOMAIN incoming \ Refused(incoming)) :
                Persisted(incoming, made, stored)
  <1>1. PICK policy \in Policies :
          \E copies \in IF policy = "CreateCopy"
                        THEN Copies({id \in DOMAIN file.rows : rows[id] # None})
                        ELSE {<<>>} :
          \E made \in SUBSET file.groups,
             stored \in SUBSET (DOMAIN Incoming(policy, copies)
                               \ Refused(Incoming(policy, copies))) :
            Persisted(Incoming(policy, copies), made, stored)
    BY DEF Import
  <1>2. PICK copies \in IF policy = "CreateCopy"
                        THEN Copies({id \in DOMAIN file.rows : rows[id] # None})
                        ELSE {<<>>} :
          \E made \in SUBSET file.groups,
             stored \in SUBSET (DOMAIN Incoming(policy, copies)
                               \ Refused(Incoming(policy, copies))) :
            Persisted(Incoming(policy, copies), made, stored)
    BY <1>1
  <1>3. PICK incoming : incoming = Incoming(policy, copies)
    OBVIOUS
  <1>4. policy = "CreateCopy" => copies \in Copies(Collisions)
    BY <1>2 DEF Collisions
  <1>5. /\ DOMAIN incoming \subseteq Ids
        /\ \A id \in DOMAIN incoming :
             \E i \in DOMAIN file.rows : incoming[id] = file.rows[i]
    BY <1>3, <1>4, IncomingLemma
  <1> QED BY <1>2, <1>3, <1>5

\* Import preserves the invariant.
LEMMA ImportStep == StoreInv /\ Import => StoreInv'
  <1> SUFFICES ASSUME StoreInv, Import PROVE StoreInv'
    OBVIOUS
  <1> USE DEF StoreInv
  <1>1. PICK incoming :
          /\ DOMAIN incoming \subseteq Ids
          /\ \A id \in DOMAIN incoming :
               \E i \in DOMAIN file.rows : incoming[id] = file.rows[i]
          /\ \E made \in SUBSET file.groups,
                stored \in SUBSET (DOMAIN incoming \ Refused(incoming)) :
               Persisted(incoming, made, stored)
    BY ImportLemma
  <1>2. PICK made \in SUBSET file.groups,
             stored \in SUBSET (DOMAIN incoming \ Refused(incoming)) :
          Persisted(incoming, made, stored)
    BY <1>1
  <1>3. /\ stored # {} => made = file.groups
        /\ groups' = groups \cup made
        /\ rows' = [id \in Ids |-> IF id \in stored THEN incoming[id] ELSE rows[id]]
        /\ refused' = IF made = file.groups THEN Refused(incoming) ELSE {}
        /\ mishaps' = mishaps
             \cup (IF \E id \in stored : rows[id] # None /\ rows[id].ref # None
                   THEN {"replaced"} ELSE {})
    BY <1>2 DEF Persisted
  <1>4. /\ Interactive /\ fresh \in Nat
        /\ UNCHANGED <<kind, secrets, fresh, stack, file>>
    BY DEF Import, Typed
  <1>5. /\ DOMAIN incoming \subseteq Ids
        /\ \A id \in DOMAIN incoming :
             /\ incoming[id] \in Rows /\ incoming[id].ref = None
             /\ Fits(incoming[id], groups \cup file.groups)
    <2>1. \A i \in DOMAIN file.rows :
            /\ file.rows[i] \in Rows /\ file.rows[i].ref = None
            /\ Fits(file.rows[i], groups \cup file.groups)
      BY DEF Typed, GroupsInv, Fits
    <2> QED BY <1>1, <2>1
  <1>6. refused' = {} /\ stored \subseteq DOMAIN incoming
    <2>1. Refused(incoming) = {}
      BY <1>5 DEF Refused, PersistedGroups
    <2> QED BY <1>3, <2>1
  <1>7. \A id \in Ids : rows'[id] = IF id \in stored THEN incoming[id] ELSE rows[id]
    BY <1>3
  <1>8. rows' \in [Ids -> Rows \cup {None}]
    BY <1>3, <1>5, <1>6 DEF Typed
  <1>9. \A id \in Ids : Held(id)' = IF id \in stored THEN None ELSE Held(id)
    BY <1>5, <1>6, <1>7, NoneLemma DEF Held
  <1>10. Typed'
    BY <1>4, <1>8 DEF Typed
  <1>11. GroupsInv'
    <2>1. \A id \in stored : Fits(incoming[id], groups')
      BY <1>3, <1>5, <1>6
    <2>2. \A id \in Ids \ stored : rows[id] # None => Fits(rows[id], groups')
      BY <1>3 DEF GroupsInv, Fits
    <2>3. \A id \in Ids : rows'[id] # None => Fits(rows'[id], groups')
      BY <1>7, <2>1, <2>2
    <2> QED BY <1>4, <1>6, <2>3 DEF GroupsInv, Fits
  <1>12. RefsInv'
    <2>1. \A j \in Ids : Held(j)' # None => MadeFor(j, Held(j)')
      BY <1>9 DEF RefsInv
    <2>2. \A k \in 1..Len(stack') : \E j \in 1..Len(stack) : stack'[k] = stack[j]
      BY <1>4
    <2> QED BY <1>4, <2>1, <2>2, RefsLemma
  <1>13. Orderly'
    <2>1. "edit" \notin mishaps => \A k \in 1..Len(stack) : stack[k].at # "dialog"
      <3> SUFFICES ASSUME "edit" \notin mishaps, NEW k \in 1..Len(stack)
                   PROVE  stack[k].at # "dialog"
        OBVIOUS
      <3>1. stack # <<>> /\ Len(stack) \in Nat
        BY DEF Typed
      <3>2. stack[Len(stack)].at = "job"
        BY <1>4, <3>1 DEF Interactive, Top
      <3>3. \A j \in 1..(Len(stack) - 1) : stack[j].at # "dialog"
        BY DEF Orderly, StackInv
      <3> QED BY <3>1, <3>2, <3>3
    <2>2. \A id \in Ids : Held(id)' \in {None, Held(id)}
      BY <1>9
    <2>3. Unowned' \/ \A id \in Ids : Held(id)' = Held(id)
      <3>1. CASE \E id \in stored : rows[id] # None /\ rows[id].ref # None
        BY <1>3, <3>1 DEF Unowned
      <3>2. CASE ~\E id \in stored : rows[id] # None /\ rows[id].ref # None
        BY <1>9, <3>2 DEF Held
      <3> QED BY <3>1, <3>2
    <2>4. mishaps \subseteq mishaps'
      BY <1>3
    <2> QED BY <1>4, <2>1, <2>2, <2>3, <2>4, StillLemma
  <1> QED BY <1>10, <1>11, <1>12, <1>13

\* Steps that change nothing the invariant is about.
LEMMA SameStep ==
  ASSUME StoreInv,
         UNCHANGED <<rows, groups, secrets, fresh, stack, file, refused, mishaps>>
  PROVE  StoreInv'
  BY SMTT(30) DEF StoreInv, Typed, GroupsInv, RefsInv, Orderly, StackInv, FramesInv, KeptInv,
         OwnedInv, Torn, Unowned, Fits, Held, Refers, MadeFor, Sound, Clearing, Owner

\* EndCheck preserves the invariant.
LEMMA EndCheckStep == StoreInv /\ EndCheck => StoreInv'
  <1> SUFFICES ASSUME StoreInv, EndCheck PROVE StoreInv'
    OBVIOUS
  <1> USE DEF StoreInv
  <1>1. PICK id \in Ids, status \in Results :
          rows' = [rows EXCEPT ![id] = StatusWritten(id, checks[id], status)]
    BY DEF EndCheck
  <1>2. /\ UNCHANGED <<groups, secrets, fresh, stack, file, refused, mishaps>>
        /\ fresh \in Nat
    BY DEF EndCheck, Typed
  <1>3. PICK x : x = StatusWritten(id, checks[id], status)
    OBVIOUS
  <1>4. CASE rows[id] = None
    <2>1. UNCHANGED rows
      BY <1>1, <1>4 DEF StatusWritten, Typed
    <2> QED BY <1>2, <2>1, SameStep
  <1>5. CASE rows[id] # None
    <2>1. rows[id] \in Rows /\ x = [rows[id] EXCEPT !.status = status]
      BY <1>3, <1>5 DEF Typed, StatusWritten
    <2>2. x \in Rows /\ x.ref = rows[id].ref /\ x.group = rows[id].group
      BY <2>1 DEF Rows
    <2>3. Fits(x, groups) /\ (x.ref # None => MadeFor(id, x.ref))
      BY <1>5, <2>2 DEF GroupsInv, Fits, RefsInv, Held
    <2>4. /\ rows' \in [Ids -> Rows \cup {None}] /\ GroupsInv'
          /\ Held(id)' = (IF x = None THEN None ELSE x.ref)
          /\ \A j \in Ids : j # id => rows'[j] = rows[j]
          /\ \A j \in Ids : Held(j)' # None => MadeFor(j, Held(j)')
      BY <1>1, <1>2, <1>3, <2>2, <2>3, RowLemma
    <2>5. \A j \in Ids : Held(j)' = Held(j)
      BY <1>5, <2>2, <2>4, HeldLemma, NoneLemma DEF Held
    <2>6. \A j \in Ids : rows[j] # None => rows'[j] # None
      BY <1>1, <1>3, <2>2, <2>4, NoneLemma DEF Typed
    <2>7. Typed'
      BY <1>2, <2>4 DEF Typed
    <2>8. RefsInv'
      BY <1>2, <2>4, RefsLemma
    <2>9. Orderly'
      BY <1>2, <2>5, <2>6, StillLemma
    <2> QED BY <2>4, <2>7, <2>8, <2>9
  <1> QED BY <1>4, <1>5

-----------------------------------------------------------------------------
(* The theorems. *)

\* The invariant holds at the start.
LEMMA StoreInvInit == Init => StoreInv
  <1> SUFFICES ASSUME Init PROVE StoreInv
    OBVIOUS
  <1>1. PICK id \in Ids, group \in Groups :
          file = [groups |-> {group},
                  rows |-> [i \in {id} |-> Row("password", None, group)]]
    BY DEF Init
  <1>2. Row("password", None, group) \in Rows
    BY DEF Row, Rows, Auths
  <1>3. /\ rows = [i \in Ids |-> None] /\ groups = {} /\ secrets = {} /\ fresh = 0
        /\ stack = <<>> /\ refused = {} /\ mishaps = {}
    BY DEF Init
  <1>4. /\ DOMAIN file.rows = {id} /\ file.rows[id] = Row("password", None, group)
        /\ file.groups = {group}
    BY <1>1
  <1>5. Typed
    BY <1>2, <1>3, <1>4 DEF Typed, Row
  <1>6. GroupsInv
    BY <1>3, <1>4 DEF GroupsInv, Fits, Row
  <1>7. RefsInv /\ Orderly
    BY <1>3 DEF RefsInv, Orderly, Held, StackInv, FramesInv, KeptInv, OwnedInv
  <1> QED BY <1>5, <1>6, <1>7 DEF StoreInv

\* Every step preserves it.
LEMMA StoreInvStep == StoreInv /\ [Next]_vars => StoreInv'
  <1> SUFFICES ASSUME StoreInv, [Next]_vars PROVE StoreInv'
    OBVIOUS
  <1>1. ASSUME StartCheck \/ UNCHANGED vars PROVE StoreInv'
    BY <1>1, SameStep DEF StartCheck, vars
  <1> QED BY <1>1, AddStep, AskStep, CancelStep, AcceptEditStep, AcceptDeleteStep,
             RunJobStep, ResumeStep, CrashStep, ExportStep, ImportStep, EndCheckStep DEF Next

\* The inductive invariant of the connections and their secrets.
THEOREM StoreInvariant == Spec => []StoreInv
  BY StoreInvInit, StoreInvStep, PTL DEF Spec

\* ConnectionService: whatever fails, and wherever the program dies, a connection that
\* names a secret finds it, unless an edit was cut off, refused or overlapped or the
\* vault was torn; for any number of connections and nested actions.
THEOREM ConnectionsKeepSecrets == Spec => []ReferencesAreKept
  <1>1. StoreInv => ReferencesAreKept
    <2> SUFFICES ASSUME StoreInv, NEW id \in Ids, rows[id] # None, rows[id].ref # None,
                        "edit" \notin mishaps, "torn" \notin mishaps
                 PROVE  rows[id].ref \in secrets \/ Busy(id)
      BY DEF ReferencesAreKept
    <2> QED BY DEF StoreInv, Orderly, Torn, KeptInv, Held, Busy, Clearing
  <1> QED BY <1>1, StoreInvariant, PTL

\* ConnectionService: no secret is left without a connection, except by a removal that
\* the store refuses, a crash, a refused or overlapped edit or an import that replaces
\* the row; a connection that cannot be added leaves none.
THEOREM SecretsHaveOwners == Spec => []SecretsAreOwned
  <1>1. StoreInv => SecretsAreOwned
    <2> SUFFICES ASSUME StoreInv, NEW ref \in secrets, "edit" \notin mishaps,
                        "left" \notin mishaps, "replaced" \notin mishaps
                 PROVE  \/ \E id \in Ids : rows[id] # None /\ rows[id].ref = ref
                        \/ Busy(ref[1])
      BY DEF SecretsAreOwned
    <2>1. OwnedInv /\ ref # None
      BY NoneLemma DEF StoreInv, Orderly, Unowned, Typed
    <2>2. CASE \E id \in Ids : Held(id) = ref
      BY <2>1, <2>2 DEF Held
    <2>3. CASE \E k \in 1..Len(stack) : Owner(stack[k], ref)
      <3>1. PICK k \in 1..Len(stack) : Owner(stack[k], ref)
        BY <2>3
      <3>2. PICK f \in Frames : f = stack[k]
        BY DEF StoreInv, Typed
      <3>3. f.ref = ref /\ f.at # "dialog" /\ f.id \in Ids /\ Refers(f)
        BY <3>1, <3>2 DEF Owner, Frames, StoreInv, RefsInv
      <3>4. ref[1] = f.id
        BY <3>3, MadeForOne DEF Refers, StoreInv, Typed
      <3> QED BY <3>2, <3>4 DEF Busy
    <2> QED BY <2>1, <2>2, <2>3 DEF OwnedInv
  <1> QED BY <1>1, StoreInvariant, PTL

\* ImportExportController: what was exported can be imported under every policy, since
\* the file has the groups of its connections and they are stored first.
THEOREM ExportsImport == Spec => []OwnExportImports
  <1>1. StoreInv => OwnExportImports
    BY DEF StoreInv, GroupsInv, OwnExportImports
  <1> QED BY <1>1, StoreInvariant, PTL

-----------------------------------------------------------------------------
(* What the user expects. *)

\* The settings an action under way will store are among those expected.
Backed(f, expected) ==
  f.at # "dialog" /\ f.op # "delete" => Settings(f.row) \in expected[f.id]

\* The rows, and what the actions under way will make of them, are as expected.
WantedInv ==
  /\ DOMAIN wanted = Ids
  /\ ConfirmedStands
  /\ \A k \in 1..Len(stack) : Backed(stack[k], wanted)

\* Neither a reference nor a status is a setting.
LEMMA SettingsLemma ==
  ASSUME NEW row \in Rows
  PROVE  /\ \A ref \in Refs \cup {None} :
              Settings([row EXCEPT !.ref = ref]) = Settings(row)
         /\ \A status \in Results :
              Settings([row EXCEPT !.status = status]) = Settings(row)
  <1>1. row # None
    BY NoneLemma
  <1>2. ASSUME NEW ref \in Refs \cup {None}
        PROVE  Settings([row EXCEPT !.ref = ref]) = Settings(row)
    <2>1. [row EXCEPT !.ref = ref] \in Rows
      BY DEF Rows
    <2>2. [row EXCEPT !.ref = ref] # None
      BY <2>1, NoneLemma
    <2> QED BY <1>1, <2>2 DEF Settings, Rows
  <1>3. ASSUME NEW status \in Results
        PROVE  Settings([row EXCEPT !.status = status]) = Settings(row)
    <2>1. [row EXCEPT !.status = status] \in Rows
      BY DEF Rows
    <2>2. [row EXCEPT !.status = status] # None
      BY <2>1, NoneLemma
    <2> QED BY <1>1, <2>2 DEF Settings, Rows
  <1> QED BY <1>2, <1>3

\* What is expected of one connection changes; the others under way stay backed, since
\* what they will store is only forgotten where none of them is.
LEMMA ExpectLemma ==
  ASSUME WantedInv, NEW id \in Ids, NEW row, NEW old, NEW others,
         \A k \in 1..Len(others) : Backed(others[k], wanted) /\ others[k].id \in Ids,
         wanted' = [wanted EXCEPT ![id] = {Settings(row)}
                      \cup IF Claimed(id, others) THEN wanted[id] ELSE old]
  PROVE  /\ DOMAIN wanted' = Ids /\ Settings(row) \in wanted'[id]
         /\ wanted[id] \subseteq wanted'[id] \/ old \subseteq wanted'[id]
         /\ \A j \in Ids \ {id} : wanted'[j] = wanted[j]
         /\ \A k \in 1..Len(others) : Backed(others[k], wanted')
  <1>1. DOMAIN wanted = Ids
    BY DEF WantedInv
  <1>2. /\ DOMAIN wanted' = Ids /\ \A j \in Ids \ {id} : wanted'[j] = wanted[j]
        /\ wanted'[id] = {Settings(row)} \cup IF Claimed(id, others) THEN wanted[id] ELSE old
    BY <1>1
  <1>3. ASSUME NEW k \in 1..Len(others) PROVE Backed(others[k], wanted')
    <2>1. CASE others[k].id # id
      BY <1>2, <2>1 DEF Backed
    <2>2. CASE others[k].id = id /\ others[k].at = "dialog"
      BY <2>2 DEF Backed
    <2>3. CASE others[k].id = id /\ others[k].at # "dialog"
      <3>1. Claimed(id, others)
        BY <2>3 DEF Claimed
      <3> QED BY <1>2, <2>3, <3>1 DEF Backed
    <2> QED BY <2>1, <2>2, <2>3
  <1> QED BY <1>2, <1>3

\* The actions under way, with or without the innermost.
LEMMA OthersLemma ==
  ASSUME Typed, WantedInv
  PROVE  /\ \A k \in 1..Len(stack) : Backed(stack[k], wanted) /\ stack[k].id \in Ids
         /\ stack # <<>> =>
              \A k \in 1..Len(Front(stack)) :
                Backed(Front(stack)[k], wanted) /\ Front(stack)[k].id \in Ids
  <1>1. ASSUME NEW k \in 1..Len(stack)
        PROVE  Backed(stack[k], wanted) /\ stack[k].id \in Ids
    BY DEF Typed, WantedInv, Frames
  <1>2. ASSUME stack # <<>>, NEW k \in 1..Len(Front(stack))
        PROVE  Backed(Front(stack)[k], wanted) /\ Front(stack)[k].id \in Ids
    <2>1. k \in 1..Len(stack) /\ Front(stack)[k] = stack[k]
      BY <1>2, FrontLemma DEF Typed
    <2> QED BY <1>1, <2>1
  <1> QED BY <1>1, <1>2

\* The innermost action returns, and nothing else changes.
LEMMA ReturnWanted ==
  ASSUME Typed, WantedInv, stack # <<>>, Returns, UNCHANGED <<rows, wanted>>
  PROVE  WantedInv'
  <1>1. \A k \in 1..Len(stack') : Backed(stack'[k], wanted)
    BY OthersLemma DEF Returns
  <1> QED BY <1>1 DEF WantedInv, ConfirmedStands, Backed

\* The innermost action stores a row, or removes it, and returns.
LEMMA WriteWanted ==
  ASSUME Typed, WantedInv, stack # <<>>, NEW id \in Ids, NEW row, Returns,
         rows' = [rows EXCEPT ![id] = row], Stored(id, row, Front(stack))
  PROVE  WantedInv'
  <1>1. PICK others : others = Front(stack)
    OBVIOUS
  <1>2. \A k \in 1..Len(others) : Backed(others[k], wanted) /\ others[k].id \in Ids
    BY <1>1, OthersLemma
  <1>3. wanted' = [wanted EXCEPT ![id] = {Settings(row)}
                      \cup IF Claimed(id, others) THEN wanted[id] ELSE {}]
    BY <1>1 DEF Stored, Word
  <1>4. /\ DOMAIN wanted' = Ids /\ Settings(row) \in wanted'[id]
        /\ \A j \in Ids \ {id} : wanted'[j] = wanted[j]
        /\ \A k \in 1..Len(others) : Backed(others[k], wanted')
    BY <1>2, <1>3, ExpectLemma
  <1>5. rows'[id] = row /\ \A j \in Ids \ {id} : rows'[j] = rows[j]
    BY DEF Typed
  <1>6. ConfirmedStands'
    BY <1>4, <1>5 DEF WantedInv, ConfirmedStands
  <1>7. stack' = others
    BY <1>1 DEF Returns
  <1> QED BY <1>4, <1>6, <1>7 DEF WantedInv, Backed

\* The innermost action goes on to a job that will store the row of g.
LEMMA GoWanted ==
  ASSUME Typed, WantedInv, stack # <<>>, NEW g \in Frames, Goes(g), UNCHANGED rows,
         Confirmed(g.id, g.row, Front(stack))
  PROVE  WantedInv'
  <1>0. g.id \in Ids
    BY DEF Frames
  <1>1. PICK others, old, id : /\ others = Front(stack) /\ old = {Settings(rows[g.id])}
                               /\ id = g.id
    OBVIOUS
  <1>2. \A k \in 1..Len(others) : Backed(others[k], wanted) /\ others[k].id \in Ids
    BY <1>1, OthersLemma
  <1>3. wanted' = [wanted EXCEPT ![id] = {Settings(g.row)}
                      \cup IF Claimed(id, others) THEN wanted[id] ELSE old]
    BY <1>1 DEF Confirmed
  <1>4. /\ DOMAIN wanted' = Ids /\ Settings(g.row) \in wanted'[id]
        /\ wanted[id] \subseteq wanted'[id] \/ old \subseteq wanted'[id]
        /\ \A j \in Ids \ {id} : wanted'[j] = wanted[j]
        /\ \A k \in 1..Len(others) : Backed(others[k], wanted')
    BY <1>0, <1>1, <1>2, <1>3, ExpectLemma
  <1>5. ConfirmedStands'
    BY <1>1, <1>4 DEF WantedInv, ConfirmedStands
  <1>6. Backed(g, wanted')
    BY <1>1, <1>4 DEF Backed
  <1>7. \A k \in 1..Len(stack') : Backed(stack'[k], wanted')
    <2>1. /\ Len(stack') = Len(stack) /\ Len(stack) \in Nat \ {0} /\ stack'[Len(stack)] = g
          /\ \A k \in 1..(Len(stack) - 1) : stack'[k] = stack[k]
      BY GoesLemma
    <2>2. Len(others) = Len(stack) - 1 /\ \A k \in 1..(Len(stack) - 1) : others[k] = stack[k]
      BY <1>1, FrontLemma DEF Typed
    <2>3. ASSUME NEW k \in 1..Len(stack') PROVE Backed(stack'[k], wanted')
      <3>1. CASE k = Len(stack)
        BY <1>6, <2>1, <3>1
      <3>2. CASE k # Len(stack)
        <4>1. k \in 1..(Len(stack) - 1) /\ stack'[k] = others[k]
          BY <2>1, <2>2, <3>2
        <4> QED BY <1>4, <2>2, <4>1
      <3> QED BY <3>1, <3>2
    <2> QED BY <2>3
  <1> QED BY <1>4, <1>5, <1>7 DEF WantedInv, Backed

\* ConnectionRepository::update.
LEMMA WriteRowWanted ==
  ASSUME Typed, WantedInv, stack # <<>>, NEW id \in Ids, NEW row, WriteRow(id, row)
  PROVE  WantedInv'
  <1>1. CASE rows[id] # None /\ Fits(row, groups)
    <2>1. Returns /\ rows' = [rows EXCEPT ![id] = row] /\ Stored(id, row, Front(stack))
      BY <1>1 DEF WriteRow
    <2> QED BY <2>1, WriteWanted
  <1>2. CASE ~(rows[id] # None /\ Fits(row, groups))
    <2>1. Returns /\ UNCHANGED <<rows, wanted>>
      BY <1>2 DEF WriteRow
    <2> QED BY <2>1, ReturnWanted
  <1> QED BY <1>1, <1>2

\* Add leaves the settings expected.
LEMMA AddWanted == StoreInv /\ WantedInv /\ Add => WantedInv'
  <1> SUFFICES ASSUME Typed, WantedInv, Add PROVE WantedInv'
    BY DEF StoreInv
  <1>1. PICK id \in NewIds, row \in Entered(Row("password", None, None)) :
          IF row.auth = "password"
          THEN /\ stack' = Append(stack, Frame("create", id, "job",
                                               [row EXCEPT !.ref = NewRef(id)],
                                               "write", NewRef(id)))
               /\ Confirmed(id, row, stack) /\ UNCHANGED rows
          ELSE /\ IF Fits(row, groups)
                  THEN rows' = [rows EXCEPT ![id] = row] /\ Stored(id, row, stack)
                  ELSE UNCHANGED <<rows, wanted>>
               /\ UNCHANGED stack
    BY DEF Add
  <1>2. id \in Ids /\ row \in Rows /\ fresh \in Nat
    BY EnteredLemma DEF NewIds, Typed
  <1>3. PICK others, old : others = stack /\ old = {Settings(rows[id])}
    OBVIOUS
  <1>4. \A k \in 1..Len(others) : Backed(others[k], wanted) /\ others[k].id \in Ids
    BY <1>3, OthersLemma
  <1>5. CASE row.auth = "password"
    <2>1. PICK g, new : /\ new = [row EXCEPT !.ref = NewRef(id)]
                        /\ g = Frame("create", id, "job", new, "write", NewRef(id))
      OBVIOUS
    <2>2. NewRef(id) \in Refs
      BY <1>2 DEF NewRef, Refs
    <2>3. new \in Rows /\ Settings(new) = Settings(row)
      BY <1>2, <2>1, <2>2, SettingsLemma DEF Rows
    <2>4. g.id = id /\ g.row = new /\ g \in Frames
      BY <1>2, <2>1, <2>2, <2>3 DEF Frame, Frames
    <2>5. wanted' = [wanted EXCEPT ![id] = {Settings(row)}
                       \cup IF Claimed(id, others) THEN wanted[id] ELSE old]
      BY <1>1, <1>3, <1>5 DEF Confirmed
    <2>6. /\ DOMAIN wanted' = Ids /\ Settings(row) \in wanted'[id]
          /\ wanted[id] \subseteq wanted'[id] \/ old \subseteq wanted'[id]
          /\ \A j \in Ids \ {id} : wanted'[j] = wanted[j]
          /\ \A k \in 1..Len(others) : Backed(others[k], wanted')
      BY <1>2, <1>4, <2>5, ExpectLemma
    <2>7. UNCHANGED rows /\ stack' = Append(stack, g)
      BY <1>1, <1>5, <2>1
    <2>8. ConfirmedStands'
      BY <1>3, <2>6, <2>7 DEF WantedInv, ConfirmedStands
    <2>9. Backed(g, wanted')
      BY <2>3, <2>4, <2>6 DEF Backed
    <2>10. \A k \in 1..Len(stack') : Backed(stack'[k], wanted')
      BY <1>3, <2>4, <2>6, <2>7, <2>9, PushLemma
    <2> QED BY <2>6, <2>8, <2>10 DEF WantedInv, Backed
  <1>6. CASE row.auth # "password" /\ Fits(row, groups)
    <2>1. /\ rows' = [rows EXCEPT ![id] = row] /\ UNCHANGED stack
          /\ wanted' = [wanted EXCEPT ![id] = {Settings(row)}
                          \cup IF Claimed(id, others) THEN wanted[id] ELSE {}]
      BY <1>1, <1>3, <1>6 DEF Stored, Word
    <2>2. /\ DOMAIN wanted' = Ids /\ Settings(row) \in wanted'[id]
          /\ \A j \in Ids \ {id} : wanted'[j] = wanted[j]
          /\ \A k \in 1..Len(others) : Backed(others[k], wanted')
      BY <1>2, <1>4, <2>1, ExpectLemma
    <2>3. rows'[id] = row /\ \A j \in Ids \ {id} : rows'[j] = rows[j]
      BY <1>2, <2>1 DEF Typed
    <2>4. ConfirmedStands'
      BY <2>2, <2>3 DEF WantedInv, ConfirmedStands
    <2> QED BY <1>3, <2>1, <2>2, <2>4 DEF WantedInv, Backed
  <1>7. CASE row.auth # "password" /\ ~Fits(row, groups)
    BY <1>1, <1>7 DEF WantedInv, ConfirmedStands, Backed
  <1> QED BY <1>5, <1>6, <1>7

\* So does Ask: a dialog stores nothing yet.
LEMMA AskWanted ==
  ASSUME StoreInv, WantedInv, NEW op \in {"edit", "delete"}, Ask(op)
  PROVE  WantedInv'
  <1>1. PICK id \in Ids :
          /\ rows[id] # None
          /\ stack' = Append(stack, Frame(op, id, "dialog", rows[id], None, None))
    BY DEF Ask
  <1>2. UNCHANGED <<rows, wanted>> /\ Typed
    BY DEF Ask, StoreInv
  <1>3. PICK g : g = Frame(op, id, "dialog", rows[id], None, None)
    OBVIOUS
  <1>4. g \in Frames /\ g.at = "dialog"
    BY <1>1, <1>2, <1>3 DEF Frame, Frames, Typed
  <1>5. \A k \in 1..Len(stack') : Backed(stack'[k], wanted)
    BY <1>1, <1>2, <1>3, <1>4, PushLemma DEF WantedInv, Backed
  <1> QED BY <1>2, <1>5 DEF WantedInv, ConfirmedStands, Backed

\* So does AcceptEdit.
LEMMA AcceptEditWanted == StoreInv /\ WantedInv /\ AcceptEdit => WantedInv'
  <1> SUFFICES ASSUME StoreInv, Typed, WantedInv, AcceptEdit PROVE WantedInv'
    BY DEF StoreInv
  <1>1. PICK f : f = Top
    OBVIOUS
  <1>2. stack # <<>> /\ f.op = "edit"
    BY <1>1 DEF AcceptEdit
  <1>3. PICK row \in Entered(f.row), given \in BOOLEAN : Accepted(f, row, given)
    BY <1>1 DEF AcceptEdit
  <1>4. f.id \in Ids /\ fresh \in Nat /\ f.row \in Rows
    BY <1>1, <1>2, TopFacts
  <1>5. row \in Rows
    BY <1>4, EnteredLemma
  <1>6. PICK cleared, saved : /\ cleared = [row EXCEPT !.ref = None]
                              /\ saved = [row EXCEPT !.ref = NewRef(f.id)]
    OBVIOUS
  <1>7. /\ NewRef(f.id) \in Refs
        /\ cleared \in Rows /\ saved \in Rows /\ saved.ref = NewRef(f.id)
    BY <1>4, <1>5, <1>6 DEF Rows, NewRef, Refs
  <1>8. ASSUME NEW to \in Rows, NEW job \in {"write", "remove"}, NEW ref \in Refs,
               Goes(Frame("edit", f.id, "job", to, job, ref)),
               Confirmed(f.id, to, Front(stack)), UNCHANGED rows
        PROVE  WantedInv'
    <2>1. PICK g : g = Frame("edit", f.id, "job", to, job, ref)
      OBVIOUS
    <2>2. g \in Frames /\ g.id = f.id /\ g.row = to
      BY <1>4, <2>1 DEF Frame, Frames
    <2> QED BY <1>2, <1>8, <2>1, <2>2, GoWanted
  <1>9. CASE rows[f.id] = None \/ (row.auth = "password" /\ ~given /\ row.ref = None)
    <2>1. Returns /\ UNCHANGED <<rows, wanted>>
      BY <1>3, <1>9 DEF Accepted
    <2> QED BY <1>2, <2>1, ReturnWanted
  <1>10. CASE rows[f.id] # None /\ row.auth = "password" /\ given /\ row.ref = None
    <2>1. /\ Goes(Frame("edit", f.id, "job", saved, "write", saved.ref))
          /\ Confirmed(f.id, saved, Front(stack)) /\ UNCHANGED rows
      BY <1>3, <1>6, <1>10 DEF Accepted
    <2> QED BY <1>7, <1>8, <2>1
  <1>11. CASE rows[f.id] # None /\ row.auth = "password" /\ given /\ row.ref # None
    <2>1. /\ Goes(Frame("edit", f.id, "job", row, "write", row.ref))
          /\ Confirmed(f.id, row, Front(stack)) /\ UNCHANGED rows
      BY <1>3, <1>11 DEF Accepted
    <2>2. row.ref \in Refs
      BY <1>5, <1>11 DEF Rows
    <2> QED BY <1>5, <1>8, <2>1, <2>2
  <1>12. CASE rows[f.id] # None /\ row.auth = "password" /\ ~given /\ row.ref # None
    <2>1. WriteRow(f.id, row)
      BY <1>3, <1>12 DEF Accepted
    <2> QED BY <1>2, <1>4, <2>1, WriteRowWanted
  <1>13. CASE /\ rows[f.id] # None /\ row.auth = "other" /\ rows[f.id].ref # None
              /\ ~Shared(rows[f.id].ref, f.id)
    <2>1. /\ Goes(Frame("edit", f.id, "job", cleared, "remove", rows[f.id].ref))
          /\ Confirmed(f.id, cleared, Front(stack)) /\ UNCHANGED rows
      BY <1>3, <1>6, <1>13 DEF Accepted
    <2>2. rows[f.id].ref \in Refs
      BY <1>4, <1>13 DEF Typed, Rows
    <2> QED BY <1>7, <1>8, <2>1, <2>2
  <1>14. CASE /\ rows[f.id] # None /\ row.auth = "other"
              /\ rows[f.id].ref = None \/ Shared(rows[f.id].ref, f.id)
    <2>1. WriteRow(f.id, cleared)
      BY <1>3, <1>6, <1>14 DEF Accepted
    <2> QED BY <1>2, <1>4, <2>1, WriteRowWanted
  <1>15. row.auth = "password" \/ row.auth = "other"
    BY <1>5 DEF Rows, Auths
  <1> QED BY <1>9, <1>10, <1>11, <1>12, <1>13, <1>14, <1>15

\* So does AcceptDelete.
LEMMA AcceptDeleteWanted == StoreInv /\ WantedInv /\ AcceptDelete => WantedInv'
  <1> SUFFICES ASSUME StoreInv, Typed, WantedInv, AcceptDelete PROVE WantedInv'
    BY DEF StoreInv
  <1>1. PICK f, ref : f = Top /\ ref = rows[f.id].ref
    OBVIOUS
  <1>2. /\ stack # <<>>
        /\ IF rows[f.id] = None THEN Returns /\ UNCHANGED <<rows, wanted>>
           ELSE /\ rows' = [rows EXCEPT ![f.id] = None]
                /\ Stored(f.id, None, Front(stack))
                /\ IF ref = None \/ Shared(ref, f.id) THEN Returns
                   ELSE Goes(Frame("delete", f.id, "job", None, "remove", ref))
    BY <1>1 DEF AcceptDelete
  <1>3. f.id \in Ids
    BY <1>1, <1>2, TopFacts
  <1>4. CASE rows[f.id] = None
    BY <1>2, <1>4, ReturnWanted
  <1>5. CASE rows[f.id] # None /\ (ref = None \/ Shared(ref, f.id))
    BY <1>2, <1>3, <1>5, WriteWanted
  <1>6. CASE rows[f.id] # None /\ ~(ref = None \/ Shared(ref, f.id))
    <2>1. PICK g : g = Frame("delete", f.id, "job", None, "remove", ref)
      OBVIOUS
    <2>2. ref \in Refs
      BY <1>1, <1>3, <1>6 DEF Typed, Rows
    <2>3. g \in Frames /\ g.op = "delete"
      BY <1>3, <2>1, <2>2 DEF Frame, Frames
    <2>4. Goes(g) /\ rows' = [rows EXCEPT ![f.id] = None]
      BY <1>2, <1>6, <2>1
    <2>5. PICK others : others = Front(stack)
      OBVIOUS
    <2>6. \A k \in 1..Len(others) : Backed(others[k], wanted) /\ others[k].id \in Ids
      BY <1>2, <2>5, OthersLemma
    <2>7. wanted' = [wanted EXCEPT ![f.id] = {Settings(None)}
                       \cup IF Claimed(f.id, others) THEN wanted[f.id] ELSE {}]
      BY <1>2, <1>6, <2>5 DEF Stored, Word
    <2>8. /\ DOMAIN wanted' = Ids /\ Settings(None) \in wanted'[f.id]
          /\ \A j \in Ids \ {f.id} : wanted'[j] = wanted[j]
          /\ \A k \in 1..Len(others) : Backed(others[k], wanted')
      BY <1>3, <2>6, <2>7, ExpectLemma
    <2>9. rows'[f.id] = None /\ \A j \in Ids \ {f.id} : rows'[j] = rows[j]
      BY <1>3, <2>4 DEF Typed
    <2>10. ConfirmedStands'
      BY <2>8, <2>9 DEF WantedInv, ConfirmedStands
    <2>11. ASSUME NEW k \in 1..Len(stack') PROVE Backed(stack'[k], wanted')
      <3>1. /\ Len(stack') = Len(stack) /\ Len(stack) \in Nat \ {0} /\ stack'[Len(stack)] = g
            /\ \A j \in 1..(Len(stack) - 1) : stack'[j] = stack[j]
        BY <1>2, <2>3, <2>4, GoesLemma
      <3>2. /\ Len(others) = Len(stack) - 1
            /\ \A j \in 1..(Len(stack) - 1) : others[j] = stack[j]
        BY <1>2, <2>5, FrontLemma DEF Typed
      <3>3. CASE k = Len(stack)
        BY <2>3, <3>1, <3>3 DEF Backed
      <3>4. CASE k # Len(stack)
        <4>1. k \in 1..(Len(stack) - 1) /\ stack'[k] = others[k]
          BY <3>1, <3>2, <3>4
        <4> QED BY <2>8, <3>2, <4>1
      <3> QED BY <3>3, <3>4
    <2> QED BY <2>8, <2>10, <2>11 DEF WantedInv, Backed
  <1> QED BY <1>4, <1>5, <1>6

\* So does Resume.
LEMMA ResumeWanted == StoreInv /\ WantedInv /\ Resume => WantedInv'
  <1> SUFFICES ASSUME StoreInv, Typed, WantedInv, Resume PROVE WantedInv'
    BY DEF StoreInv
  <1>1. PICK f : f = Top
    OBVIOUS
  <1>2. /\ stack # <<>> /\ f.at \in {"done", "failed"}
        /\ f.op = "create" => Created(f)
        /\ f.op = "edit" => Edited(f)
        /\ f.op = "delete" => Deleted(f) /\ UNCHANGED <<rows, wanted>>
    BY <1>1 DEF Resume
  <1>3. /\ f \in Frames /\ f.id \in Ids
        /\ f.op \in {"create", "edit", "delete"} /\ f.job \in {"write", "remove"}
    BY <1>1, <1>2, TopFacts
  <1>4. CASE f.op = "create" /\ (f.job = "remove" \/ f.at = "failed")
    BY <1>2, <1>4, ReturnWanted DEF Created
  <1>5. CASE f.op = "create" /\ f.job = "write" /\ f.at = "done" /\ Fits(f.row, groups)
    <2>1. /\ Returns /\ rows' = [rows EXCEPT ![f.id] = f.row]
          /\ Stored(f.id, f.row, Front(stack))
      BY <1>2, <1>5 DEF Created
    <2> QED BY <1>2, <1>3, <2>1, WriteWanted
  <1>6. CASE f.op = "create" /\ f.job = "write" /\ f.at = "done" /\ ~Fits(f.row, groups)
    <2>1. PICK g : g = [f EXCEPT !.at = "job", !.job = "remove"]
      OBVIOUS
    <2>2. Goes(g) /\ UNCHANGED <<rows, wanted>>
      BY <1>2, <1>6, <2>1 DEF Created
    <2>3. g \in Frames /\ g.op = f.op /\ g.id = f.id /\ g.row = f.row
      BY <1>3, <1>6, <2>1 DEF Frames
    <2>4. Len(stack) \in 1..Len(stack) /\ f = stack[Len(stack)]
      BY <1>1, <1>2, FrontLemma DEF Typed, Top
    <2>5. Backed(f, wanted)
      BY <2>4 DEF WantedInv
    <2>6. Backed(g, wanted)
      BY <1>6, <2>3, <2>5 DEF Backed
    <2>7. \A k \in 1..Len(stack') : Backed(stack'[k], wanted)
      <3>1. /\ Len(stack') = Len(stack) /\ Len(stack) \in Nat \ {0} /\ stack'[Len(stack)] = g
            /\ \A j \in 1..(Len(stack) - 1) : stack'[j] = stack[j]
        BY <1>2, <2>2, <2>3, GoesLemma
      <3> QED BY <2>6, <3>1 DEF WantedInv
    <2> QED BY <2>2, <2>7 DEF WantedInv, ConfirmedStands, Backed
  <1>7. CASE f.op = "edit" /\ f.at = "failed"
    BY <1>2, <1>7, ReturnWanted DEF Edited
  <1>8. CASE f.op = "edit" /\ f.at = "done"
    <2>1. WriteRow(f.id, f.row)
      BY <1>2, <1>8 DEF Edited
    <2> QED BY <1>2, <1>3, <2>1, WriteRowWanted
  <1>9. CASE f.op = "delete"
    BY <1>2, <1>9, ReturnWanted DEF Deleted
  <1> QED BY <1>2, <1>3, <1>4, <1>5, <1>6, <1>7, <1>8, <1>9

\* So does RunJob, which changes neither what an action will store nor the rows.
LEMMA RunJobWanted == StoreInv /\ WantedInv /\ RunJob => WantedInv'
  <1> SUFFICES ASSUME Typed, WantedInv, RunJob PROVE WantedInv'
    BY DEF StoreInv
  <1>1. PICK i \in 1..Len(stack), at \in {"done", "failed"} :
          stack[i].at = "job" /\ stack' = [stack EXCEPT ![i].at = at]
    BY DEF RunJob
  <1>2. UNCHANGED <<rows, wanted>>
    BY DEF RunJob
  <1>3. PICK f \in Frames : f = stack[i]
    BY DEF Typed
  <1>4. PICK g : g = [f EXCEPT !.at = at]
    OBVIOUS
  <1>5. g.op = f.op /\ g.id = f.id /\ g.row = f.row
    BY <1>4 DEF Frames
  <1>6. stack' = [stack EXCEPT ![i] = g]
    BY <1>1, <1>3, <1>4
  <1>7. /\ Len(stack') = Len(stack) /\ stack'[i] = g
        /\ \A k \in 1..Len(stack) : k # i => stack'[k] = stack[k]
    BY <1>6 DEF Typed
  <1>8. Backed(f, wanted)
    BY <1>3 DEF WantedInv
  <1>9. Backed(g, wanted)
    BY <1>1, <1>3, <1>5, <1>8 DEF Backed
  <1>10. \A k \in 1..Len(stack') : Backed(stack'[k], wanted)
    BY <1>7, <1>9 DEF WantedInv
  <1> QED BY <1>2, <1>10 DEF WantedInv, ConfirmedStands, Backed

\* So does Import.
LEMMA ImportWanted == StoreInv /\ WantedInv /\ Import => WantedInv'
  <1> SUFFICES ASSUME StoreInv, Typed, WantedInv, Import PROVE WantedInv'
    BY DEF StoreInv
  <1>1. PICK incoming :
          \E made \in SUBSET file.groups,
             stored \in SUBSET (DOMAIN incoming \ Refused(incoming)) :
            Persisted(incoming, made, stored)
    BY ImportLemma
  <1>2. PICK stored :
          /\ rows' = [id \in Ids |-> IF id \in stored THEN incoming[id] ELSE rows[id]]
          /\ wanted' = [id \in Ids |-> IF id \in stored THEN Word(id, incoming[id], stack)
                                       ELSE wanted[id]]
    BY <1>1 DEF Persisted
  <1>3. UNCHANGED stack
    BY DEF Import
  <1>4. ConfirmedStands'
    <2> SUFFICES ASSUME NEW id \in Ids PROVE Settings(rows'[id]) \in wanted'[id]
      BY DEF ConfirmedStands
    <2>1. CASE id \in stored
      BY <1>2, <2>1 DEF Word
    <2>2. CASE id \notin stored
      BY <1>2, <2>2 DEF WantedInv, ConfirmedStands
    <2> QED BY <2>1, <2>2
  <1>5. ASSUME NEW k \in 1..Len(stack) PROVE Backed(stack[k], wanted')
    <2>1. stack[k].id \in Ids /\ Backed(stack[k], wanted)
      BY OthersLemma
    <2>2. CASE stack[k].at = "dialog"
      BY <2>2 DEF Backed
    <2>3. CASE stack[k].at # "dialog"
      <3>1. Claimed(stack[k].id, stack)
        BY <2>3 DEF Claimed
      <3>2. wanted[stack[k].id] \subseteq wanted'[stack[k].id]
        BY <1>2, <2>1, <3>1 DEF Word
      <3> QED BY <2>1, <3>2 DEF Backed
    <2> QED BY <2>2, <2>3
  <1>6. DOMAIN wanted' = Ids
    BY <1>2
  <1> QED BY <1>3, <1>4, <1>5, <1>6 DEF WantedInv, Backed

\* So does EndCheck, whatever the check has loaded.
LEMMA EndCheckWanted == StoreInv /\ WantedInv /\ EndCheck => WantedInv'
  <1> SUFFICES ASSUME Typed, WantedInv, EndCheck PROVE WantedInv'
    BY DEF StoreInv
  <1>1. PICK id \in Ids, status \in Results :
          rows' = [rows EXCEPT ![id] = StatusWritten(id, checks[id], status)]
    BY DEF EndCheck
  <1>2. UNCHANGED <<stack, wanted>>
    BY DEF EndCheck
  <1>3. rows'[id] = StatusWritten(id, checks[id], status)
        /\ \A j \in Ids \ {id} : rows'[j] = rows[j]
    BY <1>1 DEF Typed
  <1>4. Settings(rows'[id]) = Settings(rows[id])
    <2>1. CASE rows[id] = None
      BY <1>3, <2>1 DEF StatusWritten
    <2>2. CASE rows[id] # None
      <3>1. rows[id] \in Rows /\ rows'[id] = [rows[id] EXCEPT !.status = status]
        BY <1>3, <2>2 DEF Typed, StatusWritten
      <3> QED BY <3>1, SettingsLemma
    <2> QED BY <2>1, <2>2
  <1>5. ConfirmedStands'
    BY <1>2, <1>3, <1>4 DEF WantedInv, ConfirmedStands
  <1> QED BY <1>2, <1>5 DEF WantedInv, Backed

\* It holds at the start.
LEMMA WantedInit == Init => WantedInv
  <1> SUFFICES ASSUME Init PROVE WantedInv
    OBVIOUS
  <1>1. /\ rows = [id \in Ids |-> None] /\ wanted = [id \in Ids |-> {None}]
        /\ stack = <<>>
    BY DEF Init
  <1>2. \A id \in Ids : Settings(rows[id]) \in wanted[id]
    BY <1>1 DEF Settings
  <1> QED BY <1>1, <1>2 DEF WantedInv, ConfirmedStands

\* Every step preserves it.
LEMMA WantedStep == StoreInv /\ WantedInv /\ [Next]_vars => WantedInv'
  <1> SUFFICES ASSUME StoreInv, WantedInv, [Next]_vars PROVE WantedInv'
    OBVIOUS
  <1>1. ASSUME Export \/ StartCheck \/ UNCHANGED vars PROVE WantedInv'
    <2>1. UNCHANGED <<rows, stack, wanted>>
      BY <1>1 DEF Export, StartCheck, vars
    <2> QED BY <2>1 DEF WantedInv, ConfirmedStands, Backed
  <1>2. ASSUME Cancel PROVE WantedInv'
    <2>1. stack # <<>> /\ Returns /\ UNCHANGED <<rows, wanted>>
      BY <1>2 DEF Cancel
    <2> QED BY <2>1, ReturnWanted DEF StoreInv
  <1>3. ASSUME Crash PROVE WantedInv'
    <2>1. stack' = <<>> /\ UNCHANGED <<rows, wanted>>
      BY <1>3 DEF Crash
    <2> QED BY <2>1 DEF WantedInv, ConfirmedStands
  <1> QED BY <1>1, <1>2, <1>3, AddWanted, AskWanted, AcceptEditWanted, AcceptDeleteWanted,
             ResumeWanted, RunJobWanted, ImportWanted, EndCheckWanted DEF Next

\* ConnectionService with ConnectivityCheckService: whatever fails, wherever the program
\* dies and whenever a check ends, a connection has the settings that the user has
\* confirmed last, or those it had before if they are not stored; for any number of
\* connections, nested actions and checks.
THEOREM ConnectionsAreAsConfirmed == Spec => []ConfirmedStands
  <1>1. Spec => []WantedInv
    BY StoreInvariant, WantedInit, WantedStep, PTL DEF Spec
  <1>2. WantedInv => ConfirmedStands
    BY DEF WantedInv
  <1> QED BY <1>1, <1>2, PTL
=============================================================================
