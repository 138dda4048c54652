---------------------------- MODULE OperationQueue ----------------------------
(***************************************************************************)
(* application/OperationQueue: long operations run on a QThreadPool and    *)
(* report their state and progress to the GUI thread through queued        *)
(* events.  The GUI thread enqueues, cancels, delivers events and finally  *)
(* destroys the queue; every pool thread executes runnables one at a time. *)
(*                                                                         *)
(* Granularity: one action per critical section of m_mutex, per read of a  *)
(* cancellation token and per event posted.  enqueue() is one action: no   *)
(* other thread can know the id before m_threadPool.start().  The snapshot *)
(* of postChanged() and the post itself are one action: between the two    *)
(* nobody but the operation's own thread writes the operation's data.      *)
(***************************************************************************)
EXTENDS Naturals, Sequences, Functions

CONSTANTS
  Op,           \* operation ids
  Worker,       \* threads of m_threadPool
  None,         \* an idle thread's operation
  MaxProgress   \* bound: progress reports of one operation

ASSUME NoneAssumption == None \notin Op
ASSUME WorkerAssumption == Worker # {}       \* qMax(1, maxConcurrentOperations)
ASSUME ProgressAssumption == MaxProgress \in Nat

VARIABLES
  operations,   \* m_operations[id]->state; "Unknown": id not in the hash
  progress,     \* number of progress values the operation has stored
  tokens,       \* operations whose CancellationToken is cancelled
  pool,         \* runnables the pool has not started yet, in order
  thread,       \* the operation each pool thread is executing
  at,           \* where the operation's runnable is
  verdict,      \* the state the runnable is about to store
  posted,       \* events in the GUI thread's event queue
  seen,         \* last state operationChanged carried for the operation
  life          \* "running", "draining" (in the destructor) or "gone"

vars == <<operations, progress, tokens, pool, thread, at, verdict, posted,
          seen, life>>

Outcome == {"Completed", "Failed", "Cancelled"}

OperationState == {"Unknown", "Queued", "Running"} \cup Outcome

Place == {"absent", "pooled", "started", "setting", "posting", "body", "done"}

Snapshot == [op : Op, state : OperationState, progress : Nat]

Rank(s) == CASE s = "Unknown" -> 0
             [] s = "Queued"  -> 1
             [] s = "Running" -> 2
             [] OTHER         -> 3

Known == {o \in Op : operations[o] # "Unknown"}

-----------------------------------------------------------------------------
Init == /\ operations = [o \in Op |-> "Unknown"]
        /\ progress = [o \in Op |-> 0]
        /\ tokens = {}
        /\ pool = <<>>
        /\ thread = [w \in Worker |-> None]
        /\ at = [o \in Op |-> "absent"]
        /\ verdict = [o \in Op |-> "Unknown"]
        /\ posted = <<>>
        /\ seen = [o \in Op |-> "Unknown"]
        /\ life = "running"

(* The GUI thread. *)

\* Insert the data, post the first snapshot, hand the runnable to the pool.
Enqueue(o) ==
  /\ life = "running"
  /\ operations[o] = "Unknown"
  /\ operations' = [operations EXCEPT ![o] = "Queued"]
  /\ posted' = Append(posted, [op |-> o, state |-> "Queued",
                               progress |-> progress[o]])
  /\ pool' = Append(pool, o)
  /\ at' = [at EXCEPT ![o] = "pooled"]
  /\ UNCHANGED <<progress, tokens, thread, verdict, seen, life>>

\* Mutant: cancelling also stores and announces the outcome.
CancelSetsState(o) ==
  /\ life = "running"
  /\ o \in Known
  /\ tokens' = tokens \cup {o}
  /\ operations' = [operations EXCEPT ![o] = "Cancelled"]
  /\ posted' = Append(posted, [op |-> o, state |-> "Cancelled",
                               progress |-> progress[o]])
  /\ UNCHANGED <<progress, pool, thread, at, verdict, seen, life>>

\* Raises the token and nothing else, whatever state the operation is in.
\* An unknown id changes nothing (the call returns false).
Cancel(o) ==
  /\ life = "running"
  /\ o \in Known
  /\ tokens' = tokens \cup {o}
  /\ UNCHANGED <<operations, progress, pool, thread, at, verdict, posted,
                 seen, life>>

\* The event loop emits operationChanged for the oldest event.
Deliver ==
  /\ life = "running"
  /\ posted # <<>>
  /\ seen' = [seen EXCEPT ![Head(posted).op] = Head(posted).state]
  /\ posted' = Tail(posted)
  /\ UNCHANGED <<operations, progress, tokens, pool, thread, at, verdict,
                 life>>

\* ~OperationQueue: raise every token under the mutex, then block the GUI
\* thread in waitForDone until nothing is queued or running.
Destroy ==
  /\ life = "running"
  /\ life' = "draining"
  /\ tokens' = tokens \cup Known
  /\ UNCHANGED <<operations, progress, pool, thread, at, verdict, posted,
                 seen>>

\* Mutant: the destructor waits for queued runnables only.
WaitForQueued ==
  /\ life = "draining"
  /\ pool = <<>>
  /\ life' = "gone"
  /\ posted' = <<>>
  /\ UNCHANGED <<operations, progress, tokens, pool, thread, at, verdict,
                 seen>>

\* Mutant: the destructor waits for the event loop it blocks.
WaitForEvents ==
  /\ life = "draining"
  /\ pool = <<>> /\ posted = <<>>
  /\ \A w \in Worker : thread[w] = None
  /\ life' = "gone"
  /\ UNCHANGED <<operations, progress, tokens, pool, thread, at, verdict,
                 posted, seen>>

\* waitForDone returns; ~QObject drops the events still addressed to it.
WaitForDone ==
  /\ life = "draining"
  /\ pool = <<>>
  /\ \A w \in Worker : thread[w] = None
  /\ life' = "gone"
  /\ posted' = <<>>
  /\ UNCHANGED <<operations, progress, tokens, pool, thread, at, verdict,
                 seen>>

(* A pool thread. *)

\* QThreadPool starts the oldest queued runnable on a free thread.
TakeRunnable(w) ==
  /\ thread[w] = None
  /\ pool # <<>>
  /\ thread' = [thread EXCEPT ![w] = Head(pool)]
  /\ pool' = Tail(pool)
  /\ at' = [at EXCEPT ![Head(pool)] = "started"]
  /\ UNCHANGED <<operations, progress, tokens, verdict, posted, seen, life>>

\* Mutant: the token is not looked at before the operation is called.
StartVerdictsUnchecked(o) == {"Failed", "Running"}

\* What the runnable decides before it calls the operation: an empty
\* std::function fails, a raised token cancels, anything else runs.
StartVerdicts(o) ==
  {"Failed"} \cup IF o \in tokens THEN {"Cancelled"} ELSE {"Running"}

Begin(w) ==
  LET o == thread[w] IN
  /\ o # None
  /\ at[o] = "started"
  /\ \E s \in StartVerdicts(o) : verdict' = [verdict EXCEPT ![o] = s]
  /\ at' = [at EXCEPT ![o] = "setting"]
  /\ UNCHANGED <<operations, progress, tokens, pool, thread, posted, seen,
                 life>>

\* setState: store the state under the mutex; the post follows.
SetState(w) ==
  LET o == thread[w] IN
  /\ o # None
  /\ at[o] = "setting"
  /\ operations' = [operations EXCEPT ![o] = verdict[o]]
  /\ at' = [at EXCEPT ![o] = "posting"]
  /\ UNCHANGED <<progress, tokens, pool, thread, verdict, posted, seen, life>>

\* setProgress, called back by the operation while it runs.
SetProgress(w) ==
  LET o == thread[w] IN
  /\ o # None
  /\ at[o] = "body"
  /\ progress[o] < MaxProgress
  /\ progress' = [progress EXCEPT ![o] = @ + 1]
  /\ at' = [at EXCEPT ![o] = "posting"]
  /\ UNCHANGED <<operations, tokens, pool, thread, verdict, posted, seen,
                 life>>

\* Mutant: nothing is posted for an operation that was cancelled.
PostChangedUnlessCancelled(w) ==
  LET o == thread[w]
      over == operations[o] \in Outcome
  IN
  /\ o # None
  /\ at[o] = "posting"
  /\ posted' = IF o \in tokens THEN posted
               ELSE Append(posted, [op |-> o, state |-> operations[o],
                                    progress |-> progress[o]])
  /\ at' = [at EXCEPT ![o] = IF over THEN "done" ELSE "body"]
  /\ thread' = [thread EXCEPT ![w] = IF over THEN None ELSE o]
  /\ UNCHANGED <<operations, progress, tokens, pool, verdict, seen, life>>

\* postChanged: snapshot the operation and post it.  After the last one the
\* runnable returns and its thread is free again.
PostChanged(w) ==
  LET o == thread[w]
      over == operations[o] \in Outcome
  IN
  /\ o # None
  /\ at[o] = "posting"
  /\ posted' = Append(posted, [op |-> o, state |-> operations[o],
                               progress |-> progress[o]])
  /\ at' = [at EXCEPT ![o] = IF over THEN "done" ELSE "body"]
  /\ thread' = [thread EXCEPT ![w] = IF over THEN None ELSE o]
  /\ UNCHANGED <<operations, progress, tokens, pool, verdict, seen, life>>

\* The operation returns.  A token raised by now, or an OperationCancelled
\* error, makes it Cancelled even if the work was done.
EndVerdict(o, result) ==
  IF o \in tokens \/ result = "cancelled" THEN "Cancelled"
  ELSE IF result = "ok" THEN "Completed" ELSE "Failed"

Return(w) ==
  LET o == thread[w] IN
  /\ o # None
  /\ at[o] = "body"
  /\ \E result \in {"ok", "cancelled", "error"} :
       verdict' = [verdict EXCEPT ![o] = EndVerdict(o, result)]
  /\ at' = [at EXCEPT ![o] = "setting"]
  /\ UNCHANGED <<operations, progress, tokens, pool, thread, posted, seen,
                 life>>

Work(w) == \/ TakeRunnable(w)
           \/ Begin(w)
           \/ SetState(w)
           \/ SetProgress(w)
           \/ PostChanged(w)
           \/ Return(w)

\* The destroyed queue does nothing any more; it is not a deadlock.
Gone == life = "gone" /\ UNCHANGED vars

Next == \/ \E o \in Op : Enqueue(o) \/ Cancel(o)
        \/ Deliver
        \/ Destroy
        \/ WaitForDone
        \/ \E w \in Worker : Work(w)
        \/ Gone

Spec == Init /\ [][Next]_vars

-----------------------------------------------------------------------------
(* Properties. *)

\* Operations, threads, events and the queue's life keep their types.
TypeOK ==
  /\ operations \in [Op -> OperationState]
  /\ progress \in [Op -> Nat]
  /\ tokens \in SUBSET Op
  /\ pool \in Seq(Op)
  /\ thread \in [Worker -> Op \cup {None}]
  /\ at \in [Op -> Place]
  /\ verdict \in [Op -> OperationState]
  /\ posted \in Seq(Snapshot)
  /\ seen \in [Op -> OperationState]
  /\ life \in {"running", "draining", "gone"}

\* The story told to the GUI thread is in order: for each operation the last
\* state delivered, the events still queued and the state in the hash never
\* go back, neither in state nor in progress, and a queued outcome is the
\* outcome the hash holds.  (setState and setProgress post after they have
\* released the mutex.)
EventsInOrder ==
  /\ \A i, j \in DOMAIN posted :
       i < j /\ posted[i].op = posted[j].op
         => /\ Rank(posted[i].state) <= Rank(posted[j].state)
            /\ posted[i].progress <= posted[j].progress
  /\ \A i \in DOMAIN posted :
       LET o == posted[i].op IN
       /\ Rank(seen[o]) <= Rank(posted[i].state)
       /\ Rank(posted[i].state) <= Rank(operations[o])
       /\ posted[i].progress <= progress[o]
       /\ posted[i].state \in Outcome => posted[i].state = operations[o]
  /\ \A o \in Op : seen[o] \in Outcome => seen[o] = operations[o]

\* Once a runnable has returned, its outcome has been delivered or waits in
\* the event queue: no interleaving loses the last event of an operation.
OutcomeNotLost ==
  \A o \in Op : at[o] = "done" /\ life # "gone"
    => \/ seen[o] = operations[o]
       \/ \E i \in DOMAIN posted :
            posted[i].op = o /\ posted[i].state = operations[o]

\* An operation is queued in the pool, on exactly one thread, or finished:
\* no runnable is dropped and none runs twice or on two threads at once.
OneRunnablePerOperation ==
  /\ IsInjective(pool)
  /\ \A v, w \in Worker : thread[v] = thread[w] /\ thread[v] # None => v = w
  /\ \A o \in Op :
       /\ at[o] = "pooled" <=> o \in Range(pool)
       /\ at[o] \in {"started", "setting", "posting", "body"}
            <=> \E w \in Worker : thread[w] = o

\* An outcome is final: no later progress report, cancellation or shutdown
\* changes the state of a completed, failed or cancelled operation.
OutcomeIsFinal ==
  [][\A o \in Op : operations[o] \in Outcome
       => operations'[o] = operations[o]]_vars

\* An operation cancelled while its runnable still waits in the pool never
\* executes: enqueue's runnable looks at the token before it starts the work.
EarlyCancelNeverRuns ==
  \A o \in Op :
    [](at[o] = "pooled" /\ o \in tokens => [](at[o] # "body"))

\* Every operation that was enqueued is eventually shown to the GUI with its
\* outcome, unless the queue is destroyed first.
EveryOperationSettles ==
  \A o \in Op : operations[o] = "Queued"
                  ~> seen[o] \in Outcome \/ life # "running"

\* The destructor returns: whatever is queued or running, waitForDone ends.
ShutdownCompletes == life = "draining" ~> life = "gone"

\* The queue implements the lifecycle its clients rely on.
Lifecycle == INSTANCE OperationLifecycle
               WITH status <- operations, told <- seen,
                    closed <- (life = "gone")

ImplementsLifecycle == Lifecycle!Spec
=============================================================================
