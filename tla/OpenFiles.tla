------------------------------ MODULE OpenFiles ------------------------------
(***************************************************************************)
(* A remote file opened in a local application: RemoteBrowserWidget         *)
(* downloads it into the TempFileCache, opens the copy, watches it, and     *)
(* uploads it after each change.  The pool has two threads, the watcher,    *)
(* its timer and the sessions live in the GUI thread, the editor and the    *)
(* "Clear cache" button act whenever they like.                             *)
(*                                                                         *)
(* One remote file, so one path in the cache.  A content is a sequence of   *)
(* chunks, each with the number of the save it comes from (0: the file as   *)
(* it was first).                                                           *)
(***************************************************************************)
EXTENDS Naturals, Sequences, FiniteSets

CONSTANTS
  Workers,      \* threads of the pool
  Size,         \* chunks of a content
  MaxSaves,     \* bound: saves by the editor
  MaxFetches,   \* bound: downloads asked for
  MaxTries,     \* attempts of a sync; the code makes 30
  Faults,       \* a server or the user may make operations fail
  None

ASSUME SizesAssumption == Size \in Nat \ {0} /\ MaxTries \in Nat \ {0}
ASSUME BoundsAssumption ==
  MaxSaves \in Nat /\ MaxFetches \in Nat /\ Faults \in BOOLEAN

Kinds == {"open", "fetch", "sync"}

\* A chunk that lies before the first one written is None.
Contents == Seq(Nat \cup {None})

Operations ==
  [kind : Kinds, at : {"start", "truncate", "write", "delete", "read", "send"},
   next : Nat \ {0}, seen : Contents, buffer : Nat \cup {None}, live : BOOLEAN,
   tries : Nat]

ASSUME NoneAssumption == None \notin Contents \cup Operations

VARIABLES
  remote,       \* the file at the server, None if there is none
  local,        \* the file in the cache
  protected,    \* m_protectedPaths of the widget's cache holds the path
  session,      \* m_openFileSessions holds the path
  watched,      \* m_openFileWatcher holds the path
  changed,      \* a fileChanged signal is on its way
  pending,      \* m_pendingOpenFileSyncs holds the path, the timer runs
  posted,       \* registrations on their way to the GUI thread
  queue,        \* operations that wait for a thread: "open", "fetch", "sync"
  ops,          \* by worker: the operation it runs, or None
  editor,       \* the local application: "none", "open", "between" two steps of a save
  saved,        \* saves so far
  fetches,      \* downloads asked for
  picked,       \* history: the last save some sync has found
  mishaps       \* history: "missed" (a save nobody was told of), "failed" (a sync),
                \* "mixed" (operations overlapped, or a download was repeated)

vars == <<remote, local, protected, session, watched, changed, pending, posted, queue,
          ops, editor, saved, fetches, picked, mishaps>>

Whole(v) == [i \in 1..Size |-> v]

Init ==
  /\ remote = Whole(0) /\ local = None /\ protected = FALSE
  /\ session = FALSE /\ watched = FALSE /\ changed = FALSE /\ pending = FALSE
  /\ posted = 0 /\ queue = <<>> /\ ops = [w \in Workers |-> None]
  /\ editor = "none" /\ saved = 0 /\ fetches = 0
  /\ picked = 0 /\ mishaps = {}

-----------------------------------------------------------------------------
(* Files *)

\* An operation that has the local file open has it as it is now, until another
\* file takes the name: then it keeps what it had.
Op(kind) == [kind |-> kind, at |-> "start", next |-> 1, seen |-> <<>>,
             buffer |-> None, live |-> TRUE, tries |-> 0]

Orphaned(o) == IF o # None /\ o.at \in {"write", "read", "send", "delete"} /\ o.live
               THEN IF o.kind = "sync" THEN [o EXCEPT !.live = FALSE, !.seen = local]
                    ELSE [o EXCEPT !.live = FALSE]
               ELSE o

\* The watcher reports a change of the file, and forgets a file that is gone.
Touched == changed' = (changed \/ watched) /\ UNCHANGED watched
Gone == changed' = (changed \/ watched) /\ watched' = FALSE

\* Chunk i of a file is written; what lies before it and was never written is None.
Put(file, i, chunk) ==
  LET old == IF file = None THEN <<>> ELSE file
      len == IF i > Len(old) THEN i ELSE Len(old)
  IN [k \in 1..len |-> IF k = i THEN chunk ELSE IF k <= Len(old) THEN old[k] ELSE None]

-----------------------------------------------------------------------------
(* The user and the editor *)

\* openRemoteFile; prepareExternalDragForSelected and preparePreview only fetch.
Activate(kind) ==
  /\ fetches < MaxFetches /\ fetches' = fetches + 1
  /\ queue' = Append(queue, kind)
  /\ UNCHANGED <<remote, local, protected, session, watched, changed, pending, posted,
                 ops, editor, saved, picked, mishaps>>

\* A save that no one can notice yet: the session is still to be registered.
Early == IF session THEN {} ELSE {"missed"}

SaveInPlace ==
  /\ editor = "open" /\ local # None /\ saved < MaxSaves
  /\ saved' = saved + 1
  /\ local' = Whole(saved + 1)
  /\ Touched
  /\ mishaps' = mishaps \cup Early
  /\ UNCHANGED <<remote, protected, session, pending, posted, queue, ops, editor,
                 fetches, picked>>

\* By a new file renamed over the old one.
SaveByRename ==
  /\ editor = "open" /\ local # None /\ saved < MaxSaves
  /\ saved' = saved + 1
  /\ local' = Whole(saved + 1)
  /\ Gone
  /\ ops' = [w \in Workers |-> Orphaned(ops[w])]
  /\ mishaps' = mishaps \cup Early
  /\ UNCHANGED <<remote, protected, session, pending, posted, queue, editor, fetches,
                 picked>>

\* The old file is removed (or becomes the backup), then the new one written.
SaveRemoves ==
  /\ editor = "open" /\ local # None /\ saved < MaxSaves
  /\ editor' = "between"
  /\ local' = None
  /\ Gone
  /\ ops' = [w \in Workers |-> Orphaned(ops[w])]
  /\ UNCHANGED <<remote, protected, session, pending, posted, queue, saved, fetches,
                 picked, mishaps>>

SaveCreates ==
  /\ editor = "between" /\ editor' = "open"
  /\ saved' = saved + 1
  /\ local' = Whole(saved + 1)
  /\ Touched
  /\ mishaps' = mishaps \cup Early
                \cup (IF changed THEN {} ELSE {"missed"})
  /\ UNCHANGED <<remote, protected, session, pending, posted, queue, ops, fetches,
                 picked>>

\* What the cache whose clearAll is called protects.  The settings dialog has the
\* TempFileCache of main, the widget protects paths in one of its own: both work on
\* the same directory.
ProtectedThere == FALSE

\* SettingsDialog::clearCache
Clear ==
  /\ local # None /\ ~ProtectedThere
  /\ local' = None
  /\ Gone
  /\ ops' = [w \in Workers |-> Orphaned(ops[w])]
  /\ mishaps' = mishaps \cup {"missed"}
  /\ UNCHANGED <<remote, protected, session, pending, posted, queue, editor, saved,
                 fetches, picked>>

-----------------------------------------------------------------------------
(* The pool *)

Take(w) ==
  /\ ops[w] = None /\ queue # <<>>
  /\ ops' = [ops EXCEPT ![w] = Op(Head(queue))]
  /\ queue' = Tail(queue)
  /\ mishaps' = mishaps \cup
       (IF \/ \E v \in Workers : ops[v] # None
           \/ Head(queue) # "sync" /\ (session \/ posted > 0)
        THEN {"mixed"} ELSE {})
  /\ UNCHANGED <<remote, local, protected, session, watched, changed, pending, posted,
                 editor, saved, fetches, picked>>

Goes(w, o) == ops' = [ops EXCEPT ![w] = o]
Ends(w) == Goes(w, None)

Failure(o) == IF o.kind = "sync" THEN "failed" ELSE "mixed"

\* Cancelled, refused by the server, or the connection is lost.
Fail(w) ==
  /\ Faults /\ ops[w] # None
  /\ Ends(w)
  /\ mishaps' = mishaps \cup {Failure(ops[w])}
  /\ UNCHANGED <<remote, local, protected, session, watched, changed, pending, posted,
                 queue, editor, saved, fetches, picked>>

(* downloadFile *)

\* The server keeps an open file readable when it is deleted.
OpenRemote(w) ==
  /\ ops[w].kind # "sync" /\ ops[w].at = "start"
  /\ IF remote = None THEN Ends(w) /\ mishaps' = mishaps \cup {Failure(ops[w])}
     ELSE Goes(w, [ops[w] EXCEPT !.at = "truncate", !.seen = remote]) /\ UNCHANGED mishaps
  /\ UNCHANGED <<remote, local, protected, session, watched, changed, pending, posted,
                 queue, editor, saved, fetches, picked>>

Truncate(w) ==
  /\ ops[w].at = "truncate"
  /\ local' = <<>>
  /\ IF local = None THEN UNCHANGED <<changed, watched>> ELSE Touched
  /\ Goes(w, [ops[w] EXCEPT !.at = "write"])
  /\ UNCHANGED <<remote, protected, session, pending, posted, queue, editor, saved,
                 fetches, picked, mishaps>>

WriteLocal(w) ==
  /\ ops[w].at = "write" /\ ops[w].next <= Len(ops[w].seen)
  /\ IF ops[w].live
     THEN local' = Put(local, ops[w].next, ops[w].seen[ops[w].next]) /\ Touched
     ELSE UNCHANGED <<local, changed, watched>>
  /\ Goes(w, [ops[w] EXCEPT !.next = @ + 1])
  /\ UNCHANGED <<remote, protected, session, pending, posted, queue, editor, saved,
                 fetches, picked, mishaps>>

\* protectPath, openLocalFile, and the session is posted, if there is a program for it.
Downloaded(w) ==
  /\ ops[w].kind = "open" /\ ops[w].at = "write" /\ ops[w].next > Len(ops[w].seen)
  /\ Ends(w)
  /\ protected' = TRUE
  /\ \/ /\ editor' = IF editor = "none" THEN "open" ELSE editor
        /\ posted' = posted + 1
        /\ UNCHANGED mishaps
     \/ /\ Faults
        /\ mishaps' = mishaps \cup {Failure(ops[w])}
        /\ UNCHANGED <<editor, posted>>
  /\ UNCHANGED <<remote, local, session, watched, changed, pending, queue, saved,
                 fetches, picked>>

\* A file that is dragged out or shown is handed over as it is.
Fetched(w) ==
  /\ ops[w].kind = "fetch" /\ ops[w].at = "write" /\ ops[w].next > Len(ops[w].seen)
  /\ Ends(w)
  /\ UNCHANGED <<remote, local, protected, session, watched, changed, pending, posted,
                 queue, editor, saved, fetches, picked, mishaps>>

(* sync_open_file, uploadFile *)

\* The local file cannot be opened: up to MaxTries times, a second apart.
OpenLocal(w) ==
  /\ ops[w].kind = "sync" /\ ops[w].at = "start"
  /\ IF local # None
     THEN /\ Goes(w, [ops[w] EXCEPT !.at = "delete"])
          /\ picked' = saved
          /\ UNCHANGED mishaps
     ELSE /\ UNCHANGED picked
          /\ IF ops[w].tries + 1 < MaxTries
             THEN Goes(w, [ops[w] EXCEPT !.tries = @ + 1]) /\ UNCHANGED mishaps
             ELSE Ends(w) /\ mishaps' = mishaps \cup {Failure(ops[w])}
  /\ UNCHANGED <<remote, local, protected, session, watched, changed, pending, posted,
                 queue, editor, saved, fetches>>

DeleteRemote(w) ==
  /\ ops[w].at = "delete"
  /\ remote' = None
  /\ Goes(w, [ops[w] EXCEPT !.at = "read"])
  /\ UNCHANGED <<local, protected, session, watched, changed, pending, posted, queue,
                 editor, saved, fetches, picked, mishaps>>

\* What the operation has open.
Source(o) == IF o.live THEN local ELSE o.seen

\* A chunk is read, or the file is at its end: an empty one leaves nothing at the
\* server.
ReadLocal(w) ==
  /\ ops[w].at = "read"
  /\ IF ops[w].next <= Len(Source(ops[w]))
     THEN Goes(w, [ops[w] EXCEPT !.at = "send", !.buffer = Source(ops[w])[ops[w].next]])
     ELSE Ends(w)
  /\ UNCHANGED <<remote, local, protected, session, watched, changed, pending, posted,
                 queue, editor, saved, fetches, picked, mishaps>>

SendChunk(w) ==
  /\ ops[w].at = "send"
  /\ remote' = Put(remote, ops[w].next, ops[w].buffer)
  /\ Goes(w, [ops[w] EXCEPT !.at = "read", !.next = @ + 1, !.buffer = None])
  /\ UNCHANGED <<local, protected, session, watched, changed, pending, posted, queue,
                 editor, saved, fetches, picked, mishaps>>

Step(w) ==
  /\ ops[w] # None
  /\ \/ OpenRemote(w) \/ Truncate(w) \/ WriteLocal(w) \/ Downloaded(w) \/ Fetched(w)
     \/ OpenLocal(w) \/ DeleteRemote(w) \/ ReadLocal(w) \/ SendChunk(w)

-----------------------------------------------------------------------------
(* The GUI thread *)

\* registerOpenFileSession
Register ==
  /\ posted > 0 /\ posted' = posted - 1
  /\ IF local = None THEN UNCHANGED <<session, watched>>
     ELSE session' = TRUE /\ watched' = TRUE
  /\ UNCHANGED <<remote, local, protected, changed, pending, queue, ops, editor, saved,
                 fetches, picked, mishaps>>

\* Mutant: a file that has been replaced is not watched again.
RewatchedNot == watched

\* A file that is there is watched again.
Rewatched == watched \/ local # None

\* scheduleOpenFileSync
Schedule ==
  /\ changed /\ changed' = FALSE
  /\ IF session THEN watched' = Rewatched /\ pending' = TRUE
     ELSE UNCHANGED <<watched, pending>>
  /\ UNCHANGED <<remote, local, protected, session, posted, queue, ops, editor, saved,
                 fetches, picked, mishaps>>

Syncing == \/ \E w \in Workers : ops[w] # None /\ ops[w].kind = "sync"
           \/ \E i \in 1..Len(queue) : queue[i] = "sync"

\* Mutant: no second sync while one is under way.
FlushOnce ==
  /\ pending /\ pending' = FALSE
  /\ queue' = IF local = None \/ Syncing THEN queue ELSE Append(queue, "sync")
  /\ UNCHANGED <<remote, local, protected, session, watched, changed, posted, ops, editor,
                 saved, fetches, picked, mishaps>>

\* flushPendingOpenFileSyncs
Flush ==
  /\ pending /\ pending' = FALSE
  /\ queue' = IF local = None THEN queue ELSE Append(queue, "sync")
  /\ UNCHANGED <<remote, local, protected, session, watched, changed, posted, ops, editor,
                 saved, fetches, picked, mishaps>>

Next ==
  \/ Activate("open") \/ Activate("fetch")
  \/ SaveInPlace \/ SaveByRename \/ SaveRemoves \/ SaveCreates \/ Clear
  \/ \E w \in Workers : Take(w) \/ Fail(w) \/ Step(w)
  \/ Register \/ Schedule \/ Flush

Spec == Init /\ [][Next]_vars

\* The event loop delivers, the threads run, and an editor ends the save it has begun.
FairSpec ==
  /\ Spec
  /\ WF_vars(Register) /\ WF_vars(Schedule) /\ WF_vars(Flush)
  /\ WF_vars(SaveCreates)
  /\ \A w \in Workers : WF_vars(Take(w) \/ Step(w))

-----------------------------------------------------------------------------
(* Properties. *)

\* A sync that has still to look at the file.
Coming == \/ changed \/ pending
          \/ \E i \in 1..Len(queue) : queue[i] = "sync"
          \/ \E w \in Workers : ops[w] # None /\ ops[w].kind = "sync" /\ ops[w].at = "start"

Excused == {"missed", "failed"} \cap mishaps # {}

\* However the editor saves, and whatever is downloaded or uploaded meanwhile, a save
\* is followed by a sync that finds it.  Saves are missed when they come before the
\* session is registered, when the file was gone as the signal was handled, when the
\* cache was cleared, or when the sync fails.
SavesAreNoticed ==
  saved > picked /\ editor # "between" => Coming \/ Excused

Quiet == /\ ~changed /\ ~pending /\ queue = <<>> /\ posted = 0
         /\ \A w \in Workers : ops[w] = None
         /\ editor # "between"

\* When all is still, the server has the last save, whole; also when files were
\* saved in the middle of an upload.  This is for one operation on the file at a time:
\* nothing keeps two uploads, or a download and an upload, from overlapping.
SavesReachTheServer ==
  Quiet /\ session /\ mishaps = {} => remote = Whole(saved) /\ local = remote

\* Every save is picked up by a sync in the end, also one that comes while the last
\* is being uploaded or retried.
SavesArePicked == saved > picked ~> saved = picked \/ Excused

\* TASKS.md, T-077: clearing the cache does not break open files.
ClearKeepsOpenFiles ==
  [][protected /\ editor = "open" /\ local # None
       => local' # None \/ editor' = "between"]_vars
=============================================================================
