------------------------- MODULE OperationQueueProofs -------------------------
(***************************************************************************)
(* Theorems about OperationQueue for any set of operations, any non-empty  *)
(* set of pool threads and any bound on progress reports, and, last, about *)
(* OperationConsole, whose steps are queue steps: the queue's invariant    *)
(* carries over, and the panel needs it because it trusts the order of the *)
(* events.                                                                 *)
(***************************************************************************)
EXTENDS OperationConsole, TLAPS

\* What Head and Tail do to a non-empty sequence, and Append to any.
LEMMA TakeFront ==
  ASSUME NEW S, NEW s \in Seq(S), s # <<>>
  PROVE  /\ Head(s) \in S
         /\ Head(s) = s[1]
         /\ Tail(s) \in Seq(S)
         /\ Len(s) \in Nat \ {0}
         /\ DOMAIN s = 1..Len(s)
         /\ DOMAIN Tail(s) = 1..(Len(s) - 1)
         /\ \A i \in 1..(Len(s) - 1) : Tail(s)[i] = s[i + 1]
  OBVIOUS

\* A sequence with one more element.
LEMMA PutBack ==
  ASSUME NEW S, NEW s \in Seq(S), NEW e \in S
  PROVE  /\ Append(s, e) \in Seq(S)
         /\ Len(s) \in Nat
         /\ DOMAIN s = 1..Len(s)
         /\ DOMAIN Append(s, e) = 1..(Len(s) + 1)
         /\ \A i \in 1..Len(s) : Append(s, e)[i] = s[i]
         /\ Append(s, e)[Len(s) + 1] = e
  OBVIOUS

\* The same in terms of the set of elements.
LEMMA RangePutBack ==
  ASSUME NEW S, NEW s \in Seq(S), NEW e \in S
  PROVE  /\ Range(Append(s, e)) = Range(s) \cup {e}
         /\ IsInjective(s) /\ e \notin Range(s) => IsInjective(Append(s, e))
<1> DEFINE t == Append(s, e)
           n == Len(s)
<1>1. /\ n \in Nat /\ DOMAIN s = 1..n /\ DOMAIN t = 1..(n + 1)
      /\ \A i \in 1..n : t[i] = s[i]
      /\ t[n + 1] = e
  BY PutBack
<1> HIDE DEF t, n
<1>2. Range(t) = Range(s) \cup {e}
  BY <1>1 DEF Range
<1>3. ASSUME IsInjective(s), e \notin Range(s) PROVE IsInjective(t)
  BY <1>1, <1>3 DEF Range, IsInjective
<1> QED BY <1>2, <1>3 DEF t

\* A sequence without repetitions loses its first element with its head.
LEMMA RangeTakeFront ==
  ASSUME NEW S, NEW s \in Seq(S), s # <<>>, IsInjective(s)
  PROVE  /\ IsInjective(Tail(s))
         /\ Range(Tail(s)) = Range(s) \ {Head(s)}
         /\ Head(s) \in Range(s)
<1> DEFINE t == Tail(s)
           n == Len(s)
           h == Head(s)
<1>1. /\ n \in Nat \ {0} /\ DOMAIN s = 1..n /\ DOMAIN t = 1..(n - 1)
      /\ \A i \in 1..(n - 1) : t[i] = s[i + 1]
      /\ h = s[1]
  BY TakeFront
<1> HIDE DEF t, n, h
<1>2. ASSUME NEW i \in DOMAIN t PROVE t[i] \in Range(s) /\ t[i] # h
  <2>1. i + 1 \in DOMAIN s /\ s[i + 1] = t[i] /\ 1 \in DOMAIN s /\ i + 1 # 1
    BY <1>1
  <2> QED BY <2>1, <1>1 DEF IsInjective, Range
<1>3. ASSUME NEW i \in DOMAIN s, s[i] # h PROVE s[i] \in Range(t)
  <2>1. i - 1 \in DOMAIN t /\ t[i - 1] = s[i]
    BY <1>1, <1>3
  <2> QED BY <2>1 DEF Range
<1>4. IsInjective(t)
  <2> SUFFICES ASSUME NEW i \in DOMAIN t, NEW j \in DOMAIN t, t[i] = t[j]
               PROVE  i = j
    BY DEF IsInjective
  <2>1. i + 1 \in DOMAIN s /\ j + 1 \in DOMAIN s /\ s[i + 1] = s[j + 1]
    BY <1>1
  <2>2. i + 1 = j + 1
    BY <2>1 DEF IsInjective
  <2> QED BY <2>2, <1>1
<1>5. h \in Range(s)
  BY <1>1 DEF Range
<1>6. Range(t) = Range(s) \ {h}
  BY <1>2, <1>3 DEF Range
<1> QED BY <1>4, <1>5, <1>6 DEF t, h

USE NoneAssumption, WorkerAssumption, ProgressAssumption

\* Where a runnable is determines what the hash may hold for its operation
\* and what the runnable may be about to store.
Control ==
  \A o \in Op :
    /\ at[o] = "absent" <=> operations[o] = "Unknown"
    /\ at[o] \in {"pooled", "started"} => operations[o] = "Queued"
    /\ at[o] = "setting" =>
         \/ operations[o] = "Queued"
              /\ verdict[o] \in {"Running", "Failed", "Cancelled"}
         \/ operations[o] = "Running" /\ verdict[o] \in Outcome
    /\ at[o] = "posting" => operations[o] \in {"Running"} \cup Outcome
    /\ at[o] = "body" => operations[o] = "Running"
    /\ at[o] = "done" => operations[o] \in Outcome

\* Every reachable state of the queue is well typed: pool threads execute, and
\* events describe, only operations of the hash.
THEOREM TypeCorrect == Spec => []TypeOK
<1>1. Init => TypeOK
  BY DEF Init, TypeOK, OperationState, Outcome, Place
<1>2. TypeOK /\ [Next]_vars => TypeOK'
  <2> SUFFICES ASSUME TypeOK, [Next]_vars PROVE TypeOK'
    OBVIOUS
  <2> USE DEF TypeOK, OperationState, Outcome, Place, Snapshot
  <2>1. ASSUME NEW o \in Op, Enqueue(o) PROVE TypeOK'
    BY <2>1 DEF Enqueue
  <2>2. ASSUME NEW o \in Op, Cancel(o) PROVE TypeOK'
    BY <2>2 DEF Cancel, Known
  <2>3. CASE Deliver
    <3>1. Head(posted) \in Snapshot /\ Tail(posted) \in Seq(Snapshot)
      <4> HIDE DEF Snapshot
      <4> QED BY <2>3, TakeFront DEF Deliver
    <3> QED BY <3>1, <2>3 DEF Deliver
  <2>4. CASE Destroy
    BY <2>4 DEF Destroy, Known
  <2>5. CASE WaitForDone
    BY <2>5 DEF WaitForDone
  <2>6. ASSUME NEW w \in Worker, TakeRunnable(w) PROVE TypeOK'
    <3>1. Head(pool) \in Op /\ Tail(pool) \in Seq(Op)
      BY <2>6, TakeFront DEF TakeRunnable
    <3> QED BY <3>1, <2>6 DEF TakeRunnable
  <2>7. ASSUME NEW w \in Worker, Begin(w) PROVE TypeOK'
    BY <2>7 DEF Begin, StartVerdicts
  <2>8. ASSUME NEW w \in Worker, SetState(w) PROVE TypeOK'
    BY <2>8 DEF SetState
  <2>9. ASSUME NEW w \in Worker, SetProgress(w) PROVE TypeOK'
    BY <2>9 DEF SetProgress
  <2>10. ASSUME NEW w \in Worker, PostChanged(w) PROVE TypeOK'
    BY <2>10 DEF PostChanged
  <2>11. ASSUME NEW w \in Worker, Return(w) PROVE TypeOK'
    <3>1. \A o \in Op, r \in {"ok", "cancelled", "error"} :
            EndVerdict(o, r) \in OperationState
      BY DEF EndVerdict
    <3> QED BY <3>1, <2>11 DEF Return
  <2>12. CASE UNCHANGED vars
    BY <2>12 DEF vars
  <2>13. CASE Gone
    BY <2>13, <2>12 DEF Gone
  <2> QED
    BY <2>1, <2>2, <2>3, <2>4, <2>5, <2>6, <2>7, <2>8, <2>9, <2>10, <2>11,
       <2>12, <2>13 DEF Next, Work
<1> QED BY <1>1, <1>2, PTL DEF Spec

-----------------------------------------------------------------------------
\* Where the runnable of an operation is.
Placement == OneRunnablePerOperation /\ Control

\* It holds at the beginning,
LEMMA PlacementInit == Init => Placement
  BY DEF Init, Placement, OneRunnablePerOperation, Control, Outcome, Range,
         IsInjective

\* and every step keeps it.
LEMMA PlacementNext == TypeOK /\ Placement /\ [Next]_vars => Placement'
<1> SUFFICES ASSUME TypeOK, Placement, [Next]_vars PROVE Placement'
  OBVIOUS
<1> USE DEF TypeOK, OperationState, Outcome, Place
<1>1. ASSUME NEW o \in Op, Enqueue(o) PROVE Placement'
  <2>1. at[o] = "absent" /\ o \notin Range(pool)
    BY <1>1 DEF Enqueue, Placement, Control, OneRunnablePerOperation
  <2>2. IsInjective(pool') /\ Range(pool') = Range(pool) \cup {o}
    BY <1>1, <2>1, RangePutBack DEF Enqueue, Placement, OneRunnablePerOperation
  <2>3. at' = [at EXCEPT ![o] = "pooled"] /\ thread' = thread
    BY <1>1 DEF Enqueue
  <2>4. OneRunnablePerOperation'
    BY <2>1, <2>2, <2>3 DEF Placement, OneRunnablePerOperation
  <2>5. Control'
    BY <1>1 DEF Enqueue, Placement, Control
  <2> QED BY <2>4, <2>5 DEF Placement
<1>2. ASSUME NEW w \in Worker, TakeRunnable(w) PROVE Placement'
  <2> DEFINE o == Head(pool)
  <2>1. /\ o \in Op /\ o \in Range(pool)
        /\ IsInjective(pool') /\ Range(pool') = Range(pool) \ {o}
    BY <1>2, TakeFront, RangeTakeFront
       DEF TakeRunnable, Placement, OneRunnablePerOperation
  <2>2. /\ thread' = [thread EXCEPT ![w] = o]
        /\ at' = [at EXCEPT ![o] = "started"]
        /\ thread[w] = None
        /\ UNCHANGED <<operations, verdict>>
    BY <1>2 DEF TakeRunnable
  <2> HIDE DEF o
  <2>3. at[o] = "pooled"
    BY <2>1 DEF Placement, OneRunnablePerOperation
  <2>4. \A v \in Worker : thread[v] # o
    BY <2>1, <2>3 DEF Placement, OneRunnablePerOperation
  <2>5. OneRunnablePerOperation'
    <3>1. \A u, v \in Worker :
            thread'[u] = thread'[v] /\ thread'[u] # None => u = v
      BY <2>1, <2>2, <2>4 DEF Placement, OneRunnablePerOperation
    <3>2. ASSUME NEW p \in Op
          PROVE  at'[p] = "pooled" <=> p \in Range(pool')
      BY <2>1, <2>2 DEF Placement, OneRunnablePerOperation
    <3>3. ASSUME NEW p \in Op
          PROVE  at'[p] \in {"started", "setting", "posting", "body"}
                   <=> \E v \in Worker : thread'[v] = p
      <4>1. CASE p = o
        BY <4>1, <2>1, <2>2
      <4>2. CASE p # o
        <5>1. \A v \in Worker : thread'[v] = p <=> thread[v] = p
          BY <2>2, <4>2
        <5> QED BY <5>1, <4>2, <2>2 DEF Placement, OneRunnablePerOperation
      <4> QED BY <4>1, <4>2
    <3> QED BY <2>1, <3>1, <3>2, <3>3 DEF OneRunnablePerOperation
  <2>6. Control'
    BY <2>1, <2>2, <2>3 DEF Placement, Control
  <2> QED BY <2>5, <2>6 DEF Placement
<1>3. ASSUME NEW w \in Worker, Begin(w) \/ SetState(w) \/ SetProgress(w) \/ Return(w)
      PROVE  Placement'
  <2>1. PICK o \in Op : o = thread[w]
    BY <1>3 DEF Begin, SetState, SetProgress, Return
  <2>2. /\ at[o] \in {"started", "setting", "body"}
        /\ \E p \in {"setting", "posting"} : at' = [at EXCEPT ![o] = p]
        /\ UNCHANGED <<pool, thread>>
    BY <1>3, <2>1 DEF Begin, SetState, SetProgress, Return
  <2>3. OneRunnablePerOperation'
    BY <2>1, <2>2 DEF Placement, OneRunnablePerOperation
  <2>4. Control'
    <3>1. CASE Begin(w)
      BY <3>1, <2>1 DEF Begin, StartVerdicts, Placement, Control
    <3>2. CASE SetState(w)
      BY <3>2, <2>1 DEF SetState, Placement, Control
    <3>3. CASE SetProgress(w)
      BY <3>3, <2>1 DEF SetProgress, Placement, Control
    <3>4. CASE Return(w)
      <4>1. \A r : EndVerdict(o, r) \in Outcome
        BY DEF EndVerdict
      <4> QED BY <3>4, <4>1, <2>1 DEF Return, Placement, Control
    <3> QED BY <1>3, <3>1, <3>2, <3>3, <3>4
  <2> QED BY <2>3, <2>4 DEF Placement
<1>4. ASSUME NEW w \in Worker, PostChanged(w) PROVE Placement'
  <2>1. PICK o \in Op : o = thread[w]
    BY <1>4 DEF PostChanged
  <2>2. /\ at[o] = "posting" /\ UNCHANGED <<pool, operations, verdict>>
        /\ at' = [at EXCEPT ![o] = IF operations[o] \in Outcome
                                    THEN "done" ELSE "body"]
        /\ thread' = [thread EXCEPT ![w] = IF operations[o] \in Outcome
                                            THEN None ELSE o]
    BY <1>4, <2>1 DEF PostChanged
  <2>3. OneRunnablePerOperation'
    BY <2>1, <2>2 DEF Placement, OneRunnablePerOperation
  <2>4. Control'
    BY <2>2 DEF Placement, Control
  <2> QED BY <2>3, <2>4 DEF Placement
<1>5. ASSUME UNCHANGED <<operations, pool, thread, at, verdict>>
      PROVE  Placement'
  BY <1>5 DEF Placement, OneRunnablePerOperation, Control
<1> QED
  BY <1>1, <1>2, <1>3, <1>4, <1>5
     DEF Next, Work, Cancel, Deliver, Destroy, WaitForDone, Gone, vars

\* No runnable is lost, started twice or executed by two threads at once,
\* however the pool schedules them.
THEOREM RunnablesAreUnique == Spec => []OneRunnablePerOperation
<1>1. Spec => []Placement
  BY TypeCorrect, PlacementInit, PlacementNext, PTL DEF Spec
<1> QED BY <1>1, PTL DEF Placement

-----------------------------------------------------------------------------
(* The story told to the GUI thread.  Two facts make EventsInOrder           *)
(* inductive: listeners never know more than the hash, and (Control) only a  *)
(* runnable whose operation has no outcome yet is about to store a state.    *)

\* Events are in order, and none is ahead of the queue.
Story == /\ EventsInOrder
         /\ \A o \in Op : Rank(seen[o]) <= Rank(operations[o])

\* The ranks of the states.
LEMMA Ranks ==
  /\ \A s : Rank(s) \in Nat /\ Rank(s) <= 3
  /\ Rank("Unknown") = 0 /\ Rank("Queued") = 1 /\ Rank("Running") = 2
  /\ \A s \in Outcome : Rank(s) = 3
  BY DEF Rank, Outcome

\* Ranks are ordered.
LEMMA RankOrder ==
  /\ \A a : Rank(a) <= Rank(a)
  /\ \A a, b, c : Rank(a) <= Rank(b) /\ Rank(b) <= Rank(c)
                    => Rank(a) <= Rank(c)
  BY Ranks

\* It holds at the beginning,
LEMMA StoryInit == Init => Story
  BY Ranks DEF Init, Story, EventsInOrder, Outcome

\* Posting the current snapshot of an operation extends the story in order.
LEMMA PostInOrder ==
  ASSUME TypeOK, Story, NEW o \in Op,
         posted' = Append(posted, [op |-> o, state |-> operations'[o],
                                   progress |-> progress[o]]),
         operations'[o] \in OperationState,
         UNCHANGED <<progress, seen>>,
         \A p \in Op : \/ operations'[p] = operations[p]
                       \/ operations[p] = "Unknown" /\ operations'[p] = "Queued"
  PROVE  Story'
<1> DEFINE e == [op |-> o, state |-> operations'[o], progress |-> progress[o]]
           n == Len(posted)
<1>1. e \in Snapshot /\ e.op = o /\ e.state = operations'[o]
        /\ e.progress = progress[o]
  BY DEF TypeOK, Snapshot
<1> HIDE DEF e
<1>2. /\ n \in Nat /\ DOMAIN posted = 1..n /\ DOMAIN posted' = 1..(n + 1)
      /\ \A i \in 1..n : posted'[i] = posted[i]
      /\ posted'[n + 1] = e
  <2> HIDE DEF Snapshot
  <2>1. posted' = Append(posted, e)
    BY DEF e
  <2> QED BY <1>1, <2>1, PutBack DEF TypeOK
<1>3. \A i \in 1..n : posted[i] \in Snapshot
  <2> HIDE DEF Snapshot
  <2> QED BY <1>2 DEF TypeOK
<1> HIDE DEF n
<1>4. \A p \in Op : /\ Rank(operations[p]) <= Rank(operations'[p])
                    /\ operations[p] \in Outcome
                         => operations'[p] = operations[p]
  BY Ranks DEF Outcome
<1>5. \A i \in 1..n :
        /\ posted[i].op \in Op
        /\ posted[i].progress \in Nat
        /\ Rank(seen[posted[i].op]) <= Rank(posted[i].state)
        /\ Rank(posted[i].state) <= Rank(operations[posted[i].op])
        /\ posted[i].progress <= progress[posted[i].op]
        /\ posted[i].state \in Outcome
             => posted[i].state = operations[posted[i].op]
  BY <1>2, <1>3 DEF Story, EventsInOrder, Snapshot
<1>6. \A i, j \in DOMAIN posted' :
        i < j /\ posted'[i].op = posted'[j].op
          => /\ Rank(posted'[i].state) <= Rank(posted'[j].state)
             /\ posted'[i].progress <= posted'[j].progress
  <2> SUFFICES ASSUME NEW i \in 1..(n + 1), NEW j \in 1..(n + 1), i < j,
                      posted'[i].op = posted'[j].op
               PROVE  /\ Rank(posted'[i].state) <= Rank(posted'[j].state)
                      /\ posted'[i].progress <= posted'[j].progress
    BY <1>2
  <2>1. i \in 1..n /\ posted'[i] = posted[i]
    BY <1>2
  <2>2. CASE j \in 1..n
    BY <1>2, <2>1, <2>2 DEF Story, EventsInOrder
  <2>3. CASE j = n + 1
    <3>1. posted[i].op = o /\ posted'[j] = e
      BY <1>1, <1>2, <2>1, <2>3
    <3>2. /\ Rank(posted[i].state) <= Rank(operations[o])
          /\ Rank(operations[o]) <= Rank(operations'[o])
          /\ posted[i].progress <= progress[o]
      BY <1>4, <1>5, <2>1, <3>1
    <3>3. Rank(posted[i].state) <= Rank(operations'[o])
      BY <3>2, RankOrder
    <3> QED BY <1>1, <2>1, <3>1, <3>2, <3>3
  <2> QED BY <1>2, <2>2, <2>3
<1>7. \A i \in DOMAIN posted' :
        LET p == posted'[i].op IN
        /\ Rank(seen'[p]) <= Rank(posted'[i].state)
        /\ Rank(posted'[i].state) <= Rank(operations'[p])
        /\ posted'[i].progress <= progress'[p]
        /\ posted'[i].state \in Outcome => posted'[i].state = operations'[p]
  <2> SUFFICES ASSUME NEW i \in 1..(n + 1)
               PROVE  /\ Rank(seen[posted'[i].op]) <= Rank(posted'[i].state)
                      /\ Rank(posted'[i].state)
                           <= Rank(operations'[posted'[i].op])
                      /\ posted'[i].progress <= progress[posted'[i].op]
                      /\ posted'[i].state \in Outcome
                           => posted'[i].state = operations'[posted'[i].op]
    BY <1>2
  <2>1. CASE i \in 1..n
    <3>1. posted'[i] = posted[i] /\ posted[i].op \in Op
      BY <1>2, <1>5, <2>1
    <3> DEFINE p == posted[i].op
    <3>2. /\ p \in Op
          /\ Rank(seen[p]) <= Rank(posted[i].state)
          /\ Rank(posted[i].state) <= Rank(operations[p])
          /\ Rank(operations[p]) <= Rank(operations'[p])
          /\ posted[i].progress <= progress[p]
          /\ posted[i].state \in Outcome => posted[i].state = operations'[p]
      BY <1>4, <1>5, <2>1
    <3>3. Rank(posted[i].state) <= Rank(operations'[p])
      BY <3>2, RankOrder
    <3> QED BY <3>1, <3>2, <3>3
  <2>2. CASE i = n + 1
    <3>1. posted'[i] = e /\ progress[o] \in Nat
      BY <1>2, <2>2 DEF TypeOK
    <3>2. Rank(seen[o]) <= Rank(operations'[o])
      BY <1>4, RankOrder DEF Story
    <3>3. Rank(operations'[o]) <= Rank(operations'[o])
      BY RankOrder
    <3>4. progress[o] <= progress[o]
      BY <3>1
    <3> QED BY <1>1, <3>1, <3>2, <3>3, <3>4
  <2> QED BY <1>2, <2>1, <2>2
<1>8. \A p \in Op : /\ seen'[p] \in Outcome => seen'[p] = operations'[p]
                    /\ Rank(seen'[p]) <= Rank(operations'[p])
  BY <1>4, Ranks DEF Story, EventsInOrder
<1> QED BY <1>6, <1>7, <1>8 DEF Story, EventsInOrder

\* and every step keeps it.
LEMMA StoryNext == TypeOK /\ Placement /\ Story /\ [Next]_vars => Story'
<1> SUFFICES ASSUME TypeOK, Placement, Story, [Next]_vars PROVE Story'
  OBVIOUS
<1> DEFINE n == Len(posted)
<1>a. n \in Nat /\ DOMAIN posted = 1..n
        /\ \A i \in 1..n : posted[i] \in Snapshot
  <2> HIDE DEF Snapshot
  <2> QED BY DEF TypeOK
<1> HIDE DEF n
<1>b. \A i \in 1..n : posted[i].op \in Op /\ posted[i].progress \in Nat
  BY <1>a DEF Snapshot
<1>1. ASSUME NEW o \in Op, Enqueue(o) PROVE Story'
  <2>1. operations' = [operations EXCEPT ![o] = "Queued"]
          /\ operations[o] = "Unknown" /\ UNCHANGED <<progress, seen>>
    BY <1>1 DEF Enqueue
  <2>2. operations'[o] = "Queued" /\ "Queued" \in OperationState
    BY <2>1 DEF TypeOK, OperationState
  <2>3. \A p \in Op : \/ operations'[p] = operations[p]
                      \/ operations[p] = "Unknown" /\ operations'[p] = "Queued"
    BY <2>1 DEF TypeOK
  <2> QED BY <1>1, <2>1, <2>2, <2>3, PostInOrder DEF Enqueue
<1>2. ASSUME NEW w \in Worker, PostChanged(w) PROVE Story'
  <2>1. PICK o \in Op : o = thread[w]
    BY <1>2 DEF PostChanged, TypeOK
  <2>2. operations'[o] = operations[o] /\ operations[o] \in OperationState
          /\ UNCHANGED <<progress, seen, operations>>
    BY <1>2 DEF PostChanged, TypeOK
  <2>3. posted' = Append(posted, [op |-> o, state |-> operations'[o],
                                  progress |-> progress[o]])
    BY <1>2, <2>1, <2>2 DEF PostChanged
  <2> QED BY <2>2, <2>3, PostInOrder
<1>3. ASSUME NEW w \in Worker, SetState(w) PROVE Story'
  <2>1. PICK o \in Op : o = thread[w]
    BY <1>3 DEF SetState, TypeOK
  <2>2. /\ operations' = [operations EXCEPT ![o] = verdict[o]]
        /\ at[o] = "setting" /\ UNCHANGED <<posted, seen, progress>>
    BY <1>3, <2>1 DEF SetState
  <2>3. \/ operations[o] = "Queued"
             /\ verdict[o] \in {"Running", "Failed", "Cancelled"}
        \/ operations[o] = "Running" /\ verdict[o] \in Outcome
    BY <2>2 DEF Placement, Control
  <2>4. operations[o] \notin Outcome
          /\ Rank(operations[o]) <= Rank(verdict[o])
    BY <2>3, Ranks DEF Outcome
  <2>5. \A p \in Op : /\ Rank(operations[p]) <= Rank(operations'[p])
                      /\ operations[p] \in Outcome
                           => operations'[p] = operations[p]
    BY <2>2, <2>4, RankOrder DEF TypeOK
  <2>6. ASSUME NEW i \in 1..n
        PROVE  LET p == posted[i].op IN
               /\ Rank(posted[i].state) <= Rank(operations'[p])
               /\ posted[i].state \in Outcome
                    => posted[i].state = operations'[p]
    BY <1>a, <1>b, <2>5, RankOrder, SMTT(30) DEF Story, EventsInOrder
  <2>7. \A p \in Op : /\ seen[p] \in Outcome => seen[p] = operations'[p]
                      /\ Rank(seen[p]) <= Rank(operations'[p])
    BY <2>5, RankOrder DEF Story, EventsInOrder
  <2> QED BY <1>a, <2>2, <2>6, <2>7 DEF Story, EventsInOrder
<1>4. ASSUME NEW w \in Worker, SetProgress(w) PROVE Story'
  <2>1. PICK o \in Op : o = thread[w]
    BY <1>4 DEF SetProgress, TypeOK
  <2>2. /\ progress' = [progress EXCEPT ![o] = @ + 1]
        /\ UNCHANGED <<posted, seen, operations>>
    BY <1>4, <2>1 DEF SetProgress
  <2>3. \A p \in Op : progress[p] <= progress'[p]
                        /\ progress[p] \in Nat /\ progress'[p] \in Nat
    BY <2>2 DEF TypeOK
  <2>4. ASSUME NEW i \in 1..n
        PROVE  posted[i].progress <= progress'[posted[i].op]
    <3>1. posted[i].progress <= progress[posted[i].op]
      BY <1>a DEF Story, EventsInOrder
    <3> QED BY <1>b, <2>3, <3>1
  <2> QED BY <1>a, <2>2, <2>4 DEF Story, EventsInOrder
<1>5. CASE Deliver
  <2> DEFINE e == posted[1]
             o == posted[1].op
  <2>1. /\ n \in Nat \ {0} /\ DOMAIN posted' = 1..(n - 1)
        /\ \A i \in 1..(n - 1) : posted'[i] = posted[i + 1]
        /\ e = Head(posted)
    <3> HIDE DEF Snapshot
    <3> QED BY <1>5, TakeFront DEF Deliver, TypeOK, n
  <2>2. /\ seen' = [seen EXCEPT ![o] = e.state] /\ o \in Op
        /\ UNCHANGED <<progress, operations>>
    BY <1>5, <1>b, <2>1 DEF Deliver
  <2>3. /\ \A p \in Op : seen'[p] = IF p = o THEN e.state ELSE seen[p]
        /\ 1 \in DOMAIN posted
    BY <1>a, <2>1, <2>2 DEF TypeOK
  <2>4. \A i, j \in DOMAIN posted' :
          i < j /\ posted'[i].op = posted'[j].op
            => /\ Rank(posted'[i].state) <= Rank(posted'[j].state)
               /\ posted'[i].progress <= posted'[j].progress
    <3> SUFFICES ASSUME NEW i \in DOMAIN posted', NEW j \in DOMAIN posted', i < j,
                        posted'[i].op = posted'[j].op
                 PROVE  /\ Rank(posted'[i].state) <= Rank(posted'[j].state)
                        /\ posted'[i].progress <= posted'[j].progress
      OBVIOUS
    <3>1. /\ i + 1 \in DOMAIN posted /\ j + 1 \in DOMAIN posted /\ i + 1 < j + 1
          /\ posted'[i] = posted[i + 1] /\ posted'[j] = posted[j + 1]
      BY <1>a, <2>1
    <3> QED BY <3>1 DEF Story, EventsInOrder
  <2>5. ASSUME NEW i \in DOMAIN posted'
        PROVE  LET p == posted'[i].op IN
               /\ Rank(seen'[p]) <= Rank(posted'[i].state)
               /\ Rank(posted'[i].state) <= Rank(operations'[p])
               /\ posted'[i].progress <= progress'[p]
               /\ posted'[i].state \in Outcome => posted'[i].state = operations'[p]
    <3>1. /\ i + 1 \in DOMAIN posted /\ 1 < i + 1 /\ i + 1 \in 1..n
          /\ posted'[i] = posted[i + 1]
      BY <1>a, <2>1
    <3> DEFINE p == posted[i + 1].op
    <3>2. p \in Op
      BY <1>b, <3>1
    <3>3. /\ Rank(seen[p]) <= Rank(posted[i + 1].state)
          /\ Rank(posted[i + 1].state) <= Rank(operations[p])
          /\ posted[i + 1].progress <= progress[p]
          /\ posted[i + 1].state \in Outcome => posted[i + 1].state = operations[p]
      BY <3>1 DEF Story, EventsInOrder
    <3>4. p = o => Rank(e.state) <= Rank(posted[i + 1].state)
      BY <2>3, <3>1 DEF Story, EventsInOrder
    <3>5. Rank(seen'[p]) <= Rank(posted[i + 1].state)
      BY <2>3, <3>2, <3>3, <3>4
    <3> QED BY <2>2, <3>1, <3>3, <3>5
  <2>6. \A p \in Op : /\ seen'[p] \in Outcome => seen'[p] = operations'[p]
                      /\ Rank(seen'[p]) <= Rank(operations'[p])
    BY <2>2, <2>3 DEF Story, EventsInOrder
  <2> QED BY <2>4, <2>5, <2>6 DEF Story, EventsInOrder
<1>6. CASE WaitForDone
  BY <1>6 DEF WaitForDone, Story, EventsInOrder
<1>7. ASSUME UNCHANGED <<operations, progress, posted, seen>> PROVE Story'
  BY <1>7 DEF Story, EventsInOrder
<1> QED
  BY <1>1, <1>2, <1>3, <1>4, <1>5, <1>6, <1>7
     DEF Next, Work, Cancel, Destroy, TakeRunnable, Begin, Return, Gone, vars

\* Nothing is left to run once the destructor has returned.
Quiet == life = "gone" => pool = <<>> /\ \A w \in Worker : thread[w] = None

\* Every step keeps what is quiet.
LEMMA QuietNext == Quiet /\ [Next]_vars => Quiet'
<1> SUFFICES ASSUME Quiet, [Next]_vars PROVE Quiet'
  OBVIOUS
<1> USE DEF Quiet
<1>1. ASSUME NEW o \in Op, Enqueue(o) \/ Cancel(o) PROVE Quiet'
  BY <1>1 DEF Enqueue, Cancel
<1>2. CASE Deliver \/ Destroy \/ WaitForDone
  BY <1>2 DEF Deliver, Destroy, WaitForDone
<1>3. ASSUME NEW w \in Worker, Work(w) PROVE Quiet'
  <2>1. life # "gone" /\ life' = life
    BY <1>3 DEF Work, TakeRunnable, Begin, SetState, SetProgress, PostChanged,
                Return
  <2> QED BY <2>1
<1>4. CASE Gone \/ UNCHANGED vars
  BY <1>4 DEF Gone, vars
<1> QED BY <1>1, <1>2, <1>3, <1>4 DEF Next

\* The conjunction the remaining theorems are drawn from.
IInv == TypeOK /\ Placement /\ Story /\ Quiet

\* The inductive invariant holds.
LEMMA IInvHolds == Spec => []IInv
<1>1. Init => Quiet
  BY DEF Init, Quiet
<1> QED
  BY <1>1, TypeCorrect, PlacementInit, PlacementNext, StoryInit, StoryNext,
     QuietNext, PTL DEF Spec, IInv

\* The events setState and setProgress post after releasing the mutex reach
\* the GUI thread in order: for no operation does the state or the progress
\* shown ever go back, and an outcome shown is the outcome reached.
THEOREM StoryIsOrdered == Spec => []EventsInOrder
  BY IInvHolds, PTL DEF IInv, Story

\* A completed, failed or cancelled operation never changes state again,
\* whatever is cancelled, reported or destroyed later.
THEOREM OutcomesAreFinal == Spec => OutcomeIsFinal
<1>1. IInv /\ [Next]_vars => [\A o \in Op : operations[o] \in Outcome
                                => operations'[o] = operations[o]]_vars
  <2> SUFFICES ASSUME IInv, [Next]_vars, NEW o \in Op, operations[o] \in Outcome
               PROVE  operations'[o] = operations[o]
    OBVIOUS
  <2>1. ASSUME NEW p \in Op, Enqueue(p) PROVE operations'[o] = operations[o]
    BY <2>1 DEF Enqueue, IInv, TypeOK, Outcome
  <2>2. ASSUME NEW w \in Worker, SetState(w)
        PROVE  operations'[o] = operations[o]
    BY <2>2 DEF SetState, IInv, TypeOK, Placement, Control, Outcome
  <2>3. CASE UNCHANGED operations
    BY <2>3
  <2> QED
    BY <2>1, <2>2, <2>3
       DEF Next, Work, Cancel, Deliver, Destroy, WaitForDone, TakeRunnable,
           Begin, SetProgress, PostChanged, Return, Gone, vars
<1> QED BY <1>1, IInvHolds, PTL DEF Spec, OutcomeIsFinal

-----------------------------------------------------------------------------
\* No step loses an outcome.
LEMMA NotLostNext == IInv /\ OutcomeNotLost /\ [Next]_vars => OutcomeNotLost'
<1> SUFFICES ASSUME IInv, OutcomeNotLost, [Next]_vars, NEW o \in Op,
                    at'[o] = "done", life' # "gone"
             PROVE  \/ seen'[o] = operations'[o]
                    \/ \E i \in DOMAIN posted' :
                         posted'[i].op = o /\ posted'[i].state = operations'[o]
  BY DEF OutcomeNotLost
<1> DEFINE Goal == \/ seen'[o] = operations'[o]
                   \/ \E i \in DOMAIN posted' :
                        posted'[i].op = o /\ posted'[i].state = operations'[o]
           n == Len(posted)
<1>a. n \in Nat /\ DOMAIN posted = 1..n
        /\ \A i \in 1..n : posted[i] \in Snapshot
  <2> HIDE DEF Snapshot
  <2> QED BY DEF IInv, TypeOK
<1>b. \A i \in 1..n : posted[i].op \in Op /\ posted[i].state \in OperationState
  BY <1>a DEF Snapshot
\* An event appended elsewhere keeps the delivered state or the waiting event.
<1>c. ASSUME NEW e \in Snapshot, posted' = Append(posted, e),
             at[o] = "done", life # "gone",
             operations'[o] = operations[o], seen' = seen
      PROVE  Goal
  <2>1. DOMAIN posted' = 1..(n + 1) /\ \A i \in 1..n : posted'[i] = posted[i]
    <3> HIDE DEF Snapshot
    <3> QED BY <1>c, PutBack DEF IInv, TypeOK
  <2>2. CASE seen[o] = operations[o]
    BY <1>c, <2>2
  <2>3. ASSUME NEW i \in DOMAIN posted, posted[i].op = o,
               posted[i].state = operations[o]
        PROVE  Goal
    <3> HIDE DEF n
    <3>1. i \in DOMAIN posted' /\ posted'[i] = posted[i]
      BY <1>a, <2>1
    <3> QED BY <1>c, <2>3, <3>1
  <2> HIDE DEF Goal
  <2> QED BY <1>c, <2>2, <2>3 DEF OutcomeNotLost
<1>1. ASSUME NEW p \in Op, Enqueue(p) PROVE Goal
  <2>1. at[o] = "done" /\ o # p
    BY <1>1 DEF Enqueue, IInv, TypeOK, Place
  <2>2. [op |-> p, state |-> "Queued", progress |-> progress[p]] \in Snapshot
    BY DEF IInv, TypeOK, Snapshot, OperationState
  <2>3. life # "gone" /\ operations'[o] = operations[o] /\ seen' = seen
    BY <1>1, <2>1 DEF Enqueue, IInv, TypeOK
  <2> QED BY <1>1, <1>c, <2>1, <2>2, <2>3 DEF Enqueue
<1>2. ASSUME NEW w \in Worker, PostChanged(w) PROVE Goal
  <2>1. PICK p \in Op : p = thread[w]
    BY <1>2 DEF PostChanged, IInv, TypeOK
  <2> DEFINE e == [op |-> p, state |-> operations[p], progress |-> progress[p]]
  <2>2. e \in Snapshot /\ e.op = p /\ e.state = operations[p]
    BY DEF IInv, TypeOK, Snapshot
  <2>3. posted' = Append(posted, e) /\ UNCHANGED <<operations, seen, life>>
    BY <1>2, <2>1 DEF PostChanged
  <2> HIDE DEF e
  <2>4. CASE p = o
    <3>1. n + 1 \in DOMAIN posted' /\ posted'[n + 1] = e
      <4> HIDE DEF Snapshot
      <4> QED BY <2>2, <2>3, PutBack DEF IInv, TypeOK
    <3> QED BY <2>2, <2>3, <2>4, <3>1
  <2>5. CASE p # o
    <3>1. at[o] = "done"
      BY <1>2, <2>1, <2>5 DEF PostChanged, IInv, TypeOK
    <3> QED BY <1>c, <2>2, <2>3, <3>1
  <2> QED BY <2>4, <2>5
<1>3. CASE Deliver
  <2> DEFINE h == posted[1]
  <2>1. /\ n \in Nat \ {0} /\ DOMAIN posted' = 1..(n - 1)
        /\ \A i \in 1..(n - 1) : posted'[i] = posted[i + 1]
        /\ h = Head(posted)
    <3> HIDE DEF Snapshot
    <3> QED BY <1>3, TakeFront DEF Deliver, IInv, TypeOK
  <2> HIDE DEF n
  <2>2. /\ seen' = [seen EXCEPT ![h.op] = h.state]
        /\ UNCHANGED <<operations, at, life>>
    BY <1>3, <2>1 DEF Deliver
  <2>3. operations[o] \in Outcome
    BY <2>2 DEF IInv, Placement, Control
  <2>4. ASSUME h.op = o, seen[o] = operations[o] PROVE h.state = operations[o]
    <3>1. /\ Rank(seen[o]) <= Rank(h.state)
          /\ h.state \in Outcome => h.state = operations[o]
          /\ h.state \in OperationState
      BY <1>a, <1>b, <2>1, <2>4 DEF IInv, Story, EventsInOrder
    <3>2. Rank(h.state) = 3
      BY <2>3, <2>4, <3>1, Ranks
    <3> QED BY <3>1, <3>2, Ranks DEF OperationState
  <2>5. CASE seen[o] = operations[o]
    BY <2>2, <2>4, <2>5 DEF IInv, TypeOK
  <2>6. ASSUME NEW i \in DOMAIN posted, posted[i].op = o,
               posted[i].state = operations[o]
        PROVE  Goal
    <3>1. CASE i = 1
      BY <2>2, <2>6, <3>1 DEF IInv, TypeOK
    <3>2. CASE i # 1
      <4>1. i - 1 \in DOMAIN posted' /\ posted'[i - 1] = posted[i]
        BY <1>a, <2>1, <3>2
      <4> QED BY <2>2, <2>6, <4>1
    <3> QED BY <3>1, <3>2
  <2> HIDE DEF Goal
  <2> QED BY <2>2, <2>5, <2>6 DEF OutcomeNotLost, Goal
<1>4. ASSUME NEW w \in Worker, SetState(w) PROVE Goal
  <2>1. at[o] = "done" /\ operations'[o] = operations[o]
          /\ UNCHANGED <<posted, seen, life>>
    BY <1>4 DEF SetState, IInv, TypeOK
  <2> QED BY <2>1 DEF OutcomeNotLost
<1>5. ASSUME NEW w \in Worker,
             TakeRunnable(w) \/ Begin(w) \/ SetProgress(w) \/ Return(w)
      PROVE  Goal
  <2>1. UNCHANGED <<operations, posted, seen, life>>
    BY <1>5 DEF TakeRunnable, Begin, SetProgress, Return
  <2>2. \A p \in Op : at'[p] = "done" => at[p] = "done"
    <3>1. CASE TakeRunnable(w)
      <4>1. Head(pool) \in Op
        BY <3>1, TakeFront DEF TakeRunnable, IInv, TypeOK
      <4> QED BY <3>1, <4>1 DEF TakeRunnable, IInv, TypeOK
    <3> QED BY <1>5, <3>1 DEF Begin, SetProgress, Return, IInv, TypeOK
  <2> QED BY <2>1, <2>2 DEF OutcomeNotLost
<1>6. ASSUME UNCHANGED <<operations, at, posted, seen>>, life # "gone"
      PROVE  Goal
  BY <1>6 DEF OutcomeNotLost
<1>7. CASE WaitForDone
  BY <1>7 DEF WaitForDone
<1>8. CASE Gone
  BY <1>8 DEF Gone, vars
<1>9. CASE UNCHANGED vars
  BY <1>9 DEF vars, OutcomeNotLost
<1> HIDE DEF Goal
<1> QED
  BY <1>1, <1>2, <1>3, <1>4, <1>5, <1>6, <1>7, <1>8, <1>9
     DEF Next, Work, Cancel, Destroy, Goal

\* A runnable that returned has its outcome delivered or waiting in the event
\* queue: no interleaving of pool threads and event loop loses it.
THEOREM OutcomesReachTheGui == Spec => []OutcomeNotLost
<1>1. Init => OutcomeNotLost
  BY DEF Init, OutcomeNotLost
<1> QED BY <1>1, IInvHolds, NotLostNext, PTL DEF Spec

-----------------------------------------------------------------------------
(* Refinement: SetState is Start or Finish, Deliver is Tell, WaitForDone is   *)
(* Close, and the steps of the pool and of the tokens are invisible.          *)

\* The abstract age of an operation is its rank.
LEMMA RankIsAge == \A s : Lifecycle!Age(s) = Rank(s)
  BY DEF Lifecycle!Age, Rank

\* Every step is one of the life cycle, or none.
LEMMA StepRefines ==
  IInv /\ [Next]_vars => [Lifecycle!Next]_(Lifecycle!vars)
<1> SUFFICES ASSUME IInv, [Next]_vars
             PROVE  Lifecycle!Next \/ UNCHANGED <<operations, seen, life = "gone">>
  BY DEF Lifecycle!vars
<1> DEFINE Goal == Lifecycle!Next
                     \/ UNCHANGED <<operations, seen, life = "gone">>
<1>1. ASSUME NEW o \in Op, Enqueue(o) PROVE Goal
  <2>1. Lifecycle!Submit(o)
    BY <1>1 DEF Enqueue, Lifecycle!Submit
  <2> QED BY <2>1 DEF Lifecycle!Next
<1>2. ASSUME NEW w \in Worker, SetState(w) PROVE Goal
  <2>1. PICK o \in Op : o = thread[w]
    BY <1>2 DEF SetState, IInv, TypeOK
  <2>2. life # "gone"
    BY <2>1, NoneAssumption DEF IInv, Quiet
  <2>3. /\ operations' = [operations EXCEPT ![o] = verdict[o]]
        /\ at[o] = "setting" /\ UNCHANGED <<seen, life>>
    BY <1>2, <2>1 DEF SetState
  <2>4. \/ operations[o] = "Queued"
             /\ verdict[o] \in {"Running", "Failed", "Cancelled"}
        \/ operations[o] = "Running" /\ verdict[o] \in Outcome
    BY <2>3 DEF IInv, Placement, Control
  <2>5. Lifecycle!Start(o) \/ Lifecycle!Finish(o, verdict[o])
    BY <2>2, <2>3, <2>4
       DEF Lifecycle!Start, Lifecycle!Finish, Lifecycle!Outcome, Outcome
  <2>6. verdict[o] \in Lifecycle!Status
    BY DEF IInv, TypeOK, OperationState, Outcome, Lifecycle!Status,
           Lifecycle!Outcome
  <2> QED BY <2>5, <2>6 DEF Lifecycle!Next
<1>3. CASE Deliver
  <2> DEFINE e == posted[1]
  <2>1. e \in Snapshot /\ e = Head(posted) /\ 1 \in DOMAIN posted
    <3> HIDE DEF Snapshot
    <3> QED BY <1>3, TakeFront DEF Deliver, IInv, TypeOK
  <2>2. e.op \in Op /\ e.state \in OperationState
    BY <2>1 DEF Snapshot
  <2>3. /\ seen' = [seen EXCEPT ![e.op] = e.state] /\ life = "running"
        /\ UNCHANGED <<operations, life>>
    BY <1>3, <2>1 DEF Deliver
  <2>4. /\ Rank(seen[e.op]) <= Rank(e.state)
        /\ Rank(e.state) <= Rank(operations[e.op])
        /\ e.state \in Outcome => e.state = operations[e.op]
    BY <2>1 DEF IInv, Story, EventsInOrder
  <2>5. Lifecycle!Tell(e.op, e.state)
    BY <2>3, <2>4, RankIsAge DEF Lifecycle!Tell, Lifecycle!Outcome, Outcome
  <2>6. e.state \in Lifecycle!Status
    BY <2>2 DEF OperationState, Outcome, Lifecycle!Status, Lifecycle!Outcome
  <2> QED BY <2>2, <2>5, <2>6 DEF Lifecycle!Next
<1>4. CASE WaitForDone
  <2>1. /\ pool = <<>> /\ \A w \in Worker : thread[w] = None
        /\ life = "draining" /\ life' = "gone" /\ UNCHANGED <<operations, seen>>
    BY <1>4 DEF WaitForDone
  <2>2. Range(pool) = {}
    BY <2>1 DEF Range
  <2>3. ASSUME NEW o \in Op PROVE operations[o] \in Outcome \cup {"Unknown"}
    <3>1. at[o] \in {"absent", "done"}
      BY <2>1, <2>2, NoneAssumption
         DEF IInv, TypeOK, Place, Placement, OneRunnablePerOperation
    <3> QED BY <3>1 DEF IInv, Placement, Control
  <2>4. Lifecycle!Close
    BY <2>1, <2>3 DEF Lifecycle!Close, Lifecycle!Outcome, Outcome
  <2> QED BY <2>4 DEF Lifecycle!Next
<1>5. CASE Destroy
  <2>1. UNCHANGED <<operations, seen, life = "gone">>
    BY <1>5 DEF Destroy
  <2> QED BY <2>1
<1>6. CASE UNCHANGED <<operations, seen, life>>
  BY <1>6
<1> HIDE DEF Goal
<1> QED
  BY <1>1, <1>2, <1>3, <1>4, <1>5, <1>6
     DEF Next, Work, Cancel, TakeRunnable, Begin, SetProgress, PostChanged,
         Return, Gone, vars, Goal

\* The threaded queue implements the lifecycle specification: what its clients
\* see is a sequence of submit, start, finish, tell and close steps.
THEOREM QueueImplementsLifecycle == Spec => ImplementsLifecycle
<1>1. Init => Lifecycle!Init
  BY DEF Init, Lifecycle!Init
<1> QED
  BY <1>1, IInvHolds, StepRefines, PTL
     DEF Spec, ImplementsLifecycle, Lifecycle!Spec

-----------------------------------------------------------------------------
\* The operation is cancelled and its runnable has not passed, or has passed
\* and noticed, the token check that precedes the work.
Doomed(o) ==
  /\ o \in tokens
  /\ \/ at[o] \in {"pooled", "started"}
     \/ at[o] = "setting" /\ verdict[o] \in {"Failed", "Cancelled"}
     \/ at[o] \in {"posting", "done"} /\ operations[o] \in Outcome

\* A doomed operation stays doomed.
LEMMA DoomedNext ==
  ASSUME NEW o \in Op, IInv, Doomed(o), [Next]_vars PROVE Doomed(o)'
<1> USE DEF Doomed, IInv, TypeOK, Outcome
<1>1. ASSUME NEW p \in Op, Enqueue(p) \/ Cancel(p) PROVE Doomed(o)'
  <2>1. CASE Enqueue(p)
    BY <2>1 DEF Enqueue, Placement, Control
  <2>2. CASE Cancel(p)
    BY <2>2 DEF Cancel
  <2> QED BY <1>1, <2>1, <2>2
<1>2. CASE Deliver \/ Destroy \/ WaitForDone
  BY <1>2 DEF Deliver, Destroy, WaitForDone
<1>3. ASSUME NEW w \in Worker, TakeRunnable(w) PROVE Doomed(o)'
  <2>1. Head(pool) \in Op
    BY <1>3, TakeFront DEF TakeRunnable
  <2>2. Head(pool) \in Range(pool)
    BY <1>3, RangeTakeFront DEF TakeRunnable, Placement, OneRunnablePerOperation
  <2>3. at[Head(pool)] = "pooled"
    BY <2>1, <2>2 DEF Placement, OneRunnablePerOperation
  <2> QED BY <1>3, <2>1, <2>3 DEF TakeRunnable
<1>4. ASSUME NEW w \in Worker, Begin(w) PROVE Doomed(o)'
  BY <1>4 DEF Begin, StartVerdicts
<1>5. ASSUME NEW w \in Worker, SetState(w) PROVE Doomed(o)'
  BY <1>5 DEF SetState
<1>6. ASSUME NEW w \in Worker, SetProgress(w) PROVE Doomed(o)'
  BY <1>6 DEF SetProgress
<1>7. ASSUME NEW w \in Worker, PostChanged(w) PROVE Doomed(o)'
  BY <1>7 DEF PostChanged
<1>8. ASSUME NEW w \in Worker, Return(w) PROVE Doomed(o)'
  BY <1>8 DEF Return
<1>9. CASE Gone \/ UNCHANGED vars
  BY <1>9 DEF Gone, vars
<1> QED
  BY <1>1, <1>2, <1>3, <1>4, <1>5, <1>6, <1>7, <1>8, <1>9 DEF Next, Work

\* An operation cancelled while it still waits in the pool never executes.
THEOREM EarlyCancelPreventsWork == Spec => EarlyCancelNeverRuns
<1> SUFFICES ASSUME NEW o \in Op
             PROVE  Spec => [](at[o] = "pooled" /\ o \in tokens
                                 => [](at[o] # "body"))
  BY DEF EarlyCancelNeverRuns
<1>1. IInv /\ Doomed(o) /\ [Next]_vars => Doomed(o)'
  BY DoomedNext
<1>2. at[o] = "pooled" /\ o \in tokens => Doomed(o)
  BY DEF Doomed
<1>3. Doomed(o) => at[o] # "body"
  BY DEF Doomed
<1> QED BY <1>1, <1>2, <1>3, IInvHolds, PTL DEF Spec

-----------------------------------------------------------------------------
(* The status panel *)

\* The panel only chooses among the steps of the queue.
LEMMA ConsoleStepIsQueueStep == [ConsoleNext]_consoleVars => [Next]_vars
  BY DEF ConsoleNext, consoleVars, Next, DeliverToPanel, CancelActiveOperation,
         Cancel, Known

\* The invariant of the queue holds under the panel.
LEMMA ConsoleKeepsIInv == ConsoleSpec => []IInv
<1>1. ConsoleInit => Init
  BY DEF ConsoleInit
<1> QED BY <1>1, ConsoleStepIsQueueStep, IInvHolds, PTL DEF ConsoleSpec, Spec

\* An event always describes an operation that has been enqueued.
NoUnknownEvent == \A i \in DOMAIN posted : posted[i].state # "Unknown"

\* No event reports an operation nobody started.
LEMMA NoUnknownEventNext ==
  IInv /\ NoUnknownEvent /\ [Next]_vars => NoUnknownEvent'
<1> SUFFICES ASSUME IInv, NoUnknownEvent, [Next]_vars PROVE NoUnknownEvent'
  OBVIOUS
<1>1. ASSUME NEW e \in Snapshot, e.state # "Unknown", posted' = Append(posted, e)
      PROVE  NoUnknownEvent'
  <2>1. /\ Len(posted) \in Nat /\ DOMAIN posted = 1..Len(posted)
        /\ DOMAIN posted' = 1..(Len(posted) + 1)
        /\ \A i \in 1..Len(posted) : posted'[i] = posted[i]
        /\ posted'[Len(posted) + 1] = e
    <3> HIDE DEF Snapshot
    <3> QED BY <1>1, PutBack DEF IInv, TypeOK
  <2> DEFINE n == Len(posted)
  <2>2. n \in Nat /\ DOMAIN posted = 1..n /\ DOMAIN posted' = 1..(n + 1)
          /\ (\A i \in 1..n : posted'[i] = posted[i]) /\ posted'[n + 1] = e
    BY <2>1
  <2> HIDE DEF n
  <2> QED BY <1>1, <2>2 DEF NoUnknownEvent
<1>2. ASSUME NEW o \in Op, Enqueue(o) PROVE NoUnknownEvent'
  <2>1. [op |-> o, state |-> "Queued", progress |-> progress[o]] \in Snapshot
    BY DEF IInv, TypeOK, Snapshot, OperationState
  <2> QED BY <1>1, <1>2, <2>1 DEF Enqueue
<1>3. ASSUME NEW w \in Worker, PostChanged(w) PROVE NoUnknownEvent'
  <2>1. PICK o \in Op : o = thread[w]
    BY <1>3 DEF PostChanged, IInv, TypeOK
  <2>2. operations[o] \in OperationState /\ operations[o] # "Unknown"
    BY <1>3, <2>1
       DEF PostChanged, IInv, TypeOK, Placement, Control, Outcome
  <2>3. [op |-> o, state |-> operations[o], progress |-> progress[o]]
          \in Snapshot
    BY <2>2 DEF IInv, TypeOK, Snapshot
  <2> QED BY <1>1, <1>3, <2>1, <2>2, <2>3 DEF PostChanged
<1>4. CASE Deliver
  <2> DEFINE n == Len(posted)
  <2>1. /\ n \in Nat \ {0} /\ DOMAIN posted = 1..n
        /\ DOMAIN posted' = 1..(n - 1)
        /\ \A i \in 1..(n - 1) : posted'[i] = posted[i + 1]
    <3> HIDE DEF Snapshot
    <3> QED BY <1>4, TakeFront DEF Deliver, IInv, TypeOK
  <2> HIDE DEF n
  <2> QED BY <2>1 DEF NoUnknownEvent
<1>5. CASE WaitForDone
  BY <1>5 DEF WaitForDone, NoUnknownEvent
<1>6. CASE UNCHANGED posted
  BY <1>6 DEF NoUnknownEvent
<1> QED
  BY <1>2, <1>3, <1>4, <1>5, <1>6
     DEF Next, Work, Cancel, Destroy, TakeRunnable, Begin, SetState,
         SetProgress, Return, Gone, vars

\* The operation of the button is shown as one that has not ended.
ActiveIsShownLive == active # None => /\ active \in Op
                                      /\ seen[active] \in {"Queued", "Running"}

\* Every step keeps it so.
LEMMA ActiveNext ==
  IInv /\ NoUnknownEvent /\ ActiveIsShownLive /\ [ConsoleNext]_consoleVars
    => ActiveIsShownLive'
<1> SUFFICES ASSUME IInv, NoUnknownEvent, ActiveIsShownLive,
                    [ConsoleNext]_consoleVars
             PROVE  ActiveIsShownLive'
  OBVIOUS
<1>1. CASE DeliverToPanel
  <2> DEFINE e == posted[1]
  <2>1. e \in Snapshot /\ e = Head(posted) /\ 1 \in DOMAIN posted
    <3> HIDE DEF Snapshot
    <3> QED BY <1>1, TakeFront DEF DeliverToPanel, Deliver, IInv, TypeOK
  <2>2. /\ e.op \in Op /\ e.state \in OperationState /\ e.state # "Unknown"
        /\ seen' = [seen EXCEPT ![e.op] = e.state]
        /\ HandleOperationChanged(e)
    BY <1>1, <2>1 DEF Snapshot, NoUnknownEvent, DeliverToPanel, Deliver
  <2> HIDE DEF e
  <2>3. CASE e.state \in Outcome
    BY <2>2, <2>3
       DEF HandleOperationChanged, UpdateTerminalOperation, ActiveIsShownLive,
           IInv, TypeOK
  <2>4. CASE e.state \notin Outcome
    BY <2>2, <2>4
       DEF HandleOperationChanged, ActiveIsShownLive, OperationState, IInv,
           TypeOK
  <2> QED BY <2>3, <2>4
<1>2. CASE UNCHANGED <<seen, active>>
  BY <1>2 DEF ActiveIsShownLive
<1> QED
  BY <1>1, <1>2
     DEF ConsoleNext, consoleVars, vars, CancelActiveOperation, Cancel, Enqueue,
         Destroy, WaitForDone, Work, TakeRunnable, Begin, SetState,
         SetProgress, PostChanged, Return, Gone

\* The cancel button never acts on an operation the panel has already shown
\* with an outcome, whatever order threads, events and presses come in.
THEOREM ButtonActsOnLiveOperation == ConsoleSpec => []ActiveOperationIsLive
<1>1. ConsoleInit => NoUnknownEvent /\ ActiveIsShownLive
  BY DEF ConsoleInit, Init, NoUnknownEvent, ActiveIsShownLive
<1>2. IInv /\ ActiveIsShownLive => ActiveOperationIsLive
  <2> SUFFICES ASSUME IInv, ActiveIsShownLive, active # None
               PROVE  /\ operations[active] # "Unknown"
                      /\ seen[active] \in {"Queued", "Running"}
    BY DEF ActiveOperationIsLive
  <2>1. active \in Op /\ seen[active] \in {"Queued", "Running"}
          /\ Rank(seen[active]) <= Rank(operations[active])
    BY DEF ActiveIsShownLive, IInv, Story
  <2> QED BY <2>1, Ranks
<1> QED
  BY <1>1, <1>2, ConsoleKeepsIInv, ConsoleStepIsQueueStep, NoUnknownEventNext,
     ActiveNext, PTL DEF ConsoleSpec
=============================================================================
