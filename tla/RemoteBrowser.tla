---------------------------- MODULE RemoteBrowser ----------------------------
(***************************************************************************)
(* ui/RemoteBrowserWidget and ui/ConnectionOpenController above the        *)
(* operation queue.  The widget shows one folder of one connection.  What  *)
(* the user asks for is enqueued and answered later by an event, which the *)
(* GUI thread handles whenever it comes, also from the nested event loop   *)
(* of a modal dialog.  Nothing but the event says which question it        *)
(* answers.                                                                *)
(*                                                                         *)
(* The queue appears as what the widget sees of it: tasks start in order,  *)
(* Workers of them run side by side, a task cancelled before it starts     *)
(* ends without any event.  Of a folder's entries the model keeps whether  *)
(* they are still those at the share.                                      *)
(***************************************************************************)
EXTENDS Naturals, SequencesExt

CONSTANTS
  Connection,   \* saved connections
  None,         \* no connection, no dialog
  Path,         \* folders of a share: normalized remote paths
  Parent,       \* parentRemotePath; the root is its own parent
  Above,        \* for each folder, the folders the location bar has buttons for
  StartPath,    \* the folder a connection opens with
  Symlink,      \* paths shown as symbolic links, to a folder or to a file
  Workers,      \* threads of the pool
  Entries,      \* entries selected for a copy or move, files dropped
  MaxAsks       \* bound: requests of the user

ASSUME NoneAssumption == None \notin Connection
ASSUME TreeAssumption == /\ Parent \in [Path -> Path]
                         /\ Above \in [Path -> SUBSET Path]
                         /\ \A p \in Path :
                              Above[p] = IF Parent[p] = p THEN {}
                                         ELSE {Parent[p]} \cup Above[Parent[p]]
                         /\ StartPath \in [Connection -> Path]
                         /\ Symlink \subseteq Path
ASSUME BoundsAssumption == /\ Workers \in Nat \ {0} /\ Entries \in Nat \ {0}
                           /\ MaxAsks \in Nat

VARIABLES
  connection,   \* m_connectionId
  path,         \* m_currentRemotePath
  current,      \* the entries in m_model are those the folder has now
  back,         \* m_backStack
  forward,      \* m_forwardStack
  fallbacks,    \* keys of m_pendingSymlinkFileFallbacks
  label,        \* m_stateLabel: "loading", "error" or "state"
  dialog,       \* the modal dialog: its kind and what the user was looking at
  tasks,        \* tasks enqueued and not ended, in order
  posted,       \* events for the GUI thread
  strayed,      \* history: some operation worked elsewhere than asked
  excuses,      \* history: see Excuse
  asks          \* requests so far

vars == <<connection, path, current, back, forward, fallbacks, label, dialog,
          tasks, posted, strayed, excuses, asks>>

Place == (Connection \cup {None}) \X Path

\* Why the widget may be wrong about the share: a folder was asked for while
\* another answer was on its way; a listing never started; something failed.
Excuse == {"overlap", "abandoned", "failed"}

\* Operations with a dialog.  create: create folder, upload.  delete: delete,
\* rename.  move: copy and move, both taken to change source and destination.
Prompted == {"create", "delete", "move", "download"}

\* Operations that change nothing at the share, and refresh nothing.
Downloads == {"download", "open"}

\* A listing, for the widget or for a connection being opened; got: its answer,
\* current: the entries it got are those the folder has now.
Listing(kind, place, previous, mode) ==
  [kind |-> kind, place |-> place, previous |-> previous, mode |-> mode,
   got |-> "nothing", current |-> FALSE]

\* A file operation.  asked: the connection and folder the user was looking at;
\* place: where it works; target: where it moves to; left: entries to handle.
FileOperation(kind, asked, place, target, left) ==
  [kind |-> kind, asked |-> asked, place |-> place, target |-> target,
   left |-> left, whole |-> left]

Listings == {"list", "connect"}

\* Listings whose answer the GUI thread has not handled yet.
Outstanding ==
  {t \in Range(tasks) \cup Range(posted) : t.kind \in Listings}

-----------------------------------------------------------------------------
\* Nothing is shown; path has no meaning until a connection is.
Init == /\ connection = None
        /\ path \in {StartPath[c] : c \in Connection}
        /\ current = FALSE
        /\ back = <<>> /\ forward = <<>>
        /\ fallbacks = {}
        /\ label = "state"
        /\ dialog = None
        /\ tasks = <<>> /\ posted = <<>>
        /\ strayed = FALSE
        /\ excuses = {}
        /\ asks = 0

(* The user. *)

Asks == /\ dialog = None
        /\ asks < MaxAsks
        /\ asks' = asks + 1

\* requestDirectory: the answer will carry what is current now.
RequestDirectory(p, mode) ==
  /\ tasks' = Append(tasks, Listing("list", <<connection, p>>, path, mode))
  /\ label' = "loading"
  /\ excuses' = excuses \cup IF Outstanding # {} THEN {"overlap"} ELSE {}

\* openConnection, from the list of connections.
OpenConnection(c) ==
  /\ Asks
  /\ tasks' = Append(tasks, Listing("connect", <<c, StartPath[c]>>,
                                    StartPath[c], "reset"))
  /\ excuses' = excuses \cup IF Outstanding # {} THEN {"overlap"} ELSE {}
  /\ UNCHANGED <<connection, path, current, back, forward, fallbacks, label,
                 dialog, posted, strayed>>

Browses == /\ Asks
           /\ connection # None
           /\ UNCHANGED <<connection, path, current, back, forward, dialog,
                          posted, strayed>>

\* A folder of the list, or a button of the location bar.
OpenDirectory(p) ==
  /\ Browses
  /\ p # path
  /\ p \in Above[path] \/ (Parent[p] = path /\ p \notin Symlink)
  /\ RequestDirectory(p, "push")
  /\ UNCHANGED fallbacks

\* A symbolic link is tried as a folder first.
OpenSymlink(p) ==
  /\ Browses
  /\ p # path /\ Parent[p] = path /\ p \in Symlink
  /\ fallbacks' = fallbacks \cup {p}
  /\ RequestDirectory(p, "push")

GoBack ==
  /\ Browses
  /\ back # <<>>
  /\ RequestDirectory(Last(back), "back")
  /\ UNCHANGED fallbacks

GoForward ==
  /\ Browses
  /\ forward # <<>>
  /\ RequestDirectory(Last(forward), "forward")
  /\ UNCHANGED fallbacks

GoUp ==
  /\ Browses
  /\ Parent[path] # path
  /\ RequestDirectory(Parent[path], "push")
  /\ UNCHANGED fallbacks

Refresh ==
  /\ Browses
  /\ RequestDirectory(path, "replace")
  /\ UNCHANGED fallbacks

\* Typing into the filter shows the state of the folder.
EditSearch ==
  /\ dialog = None
  /\ label # "state"
  /\ label' = "state"
  /\ UNCHANGED <<connection, path, current, back, forward, fallbacks, dialog,
                 tasks, posted, strayed, excuses, asks>>

\* The operation is enqueued with the connection and folder shown now.
StartsHere(kind, left) ==
  tasks' = Append(tasks, FileOperation(kind, <<connection, path>>,
                           <<connection, path>>, <<connection, path>>, left))

\* dropEvent, uploadLocalFiles.
DropFiles ==
  /\ Browses
  /\ StartsHere("drop", Entries)
  /\ UNCHANGED <<fallbacks, label, excuses>>

\* openRemoteFile, for a file of the list.
OpenFile ==
  /\ Browses
  /\ StartsHere("open", 1)
  /\ UNCHANGED <<fallbacks, label, excuses>>

\* The dialog of an operation: its event loop runs, its window does not.
Prompt(k) ==
  /\ Asks
  /\ connection # None
  /\ dialog' = [kind |-> k, asked |-> <<connection, path>>]
  /\ UNCHANGED <<connection, path, current, back, forward, fallbacks, label,
                 tasks, posted, strayed, excuses>>

\* Entries were taken before the dialog, the connection is read after it, and
\* so is the folder that gets a new entry.
PlaceOf(d) ==
  IF d.kind = "create" THEN <<connection, path>> ELSE <<connection, d.asked[2]>>

\* The user agrees; a copy or move dialog also names the destination.
Accept ==
  /\ dialog # None
  /\ \E target \in IF dialog.kind = "move" THEN Connection \X Path
                   ELSE {PlaceOf(dialog)} :
       tasks' = Append(tasks, FileOperation(dialog.kind, dialog.asked,
                                PlaceOf(dialog), target,
                                IF dialog.kind = "move" THEN Entries ELSE 1))
  /\ dialog' = None
  /\ UNCHANGED <<connection, path, current, back, forward, fallbacks, label,
                 posted, strayed, excuses, asks>>

Dismiss ==
  /\ dialog # None
  /\ dialog' = None
  /\ UNCHANGED <<connection, path, current, back, forward, fallbacks, label,
                 tasks, posted, strayed, excuses, asks>>

(* The tasks, on the threads of the pool. *)

Running == {i \in DOMAIN tasks : i <= Workers}

\* Cancelled before it starts: the queue does not call the task at all.
Abandon(i) ==
  /\ tasks[i].kind \in Listings => tasks[i].got = "nothing"
  /\ tasks[i].kind \notin Listings => tasks[i].left = tasks[i].whole
  /\ tasks' = RemoveAt(tasks, i)
  /\ excuses' = excuses \cup {"abandoned"}
  /\ UNCHANGED <<connection, path, current, back, forward, fallbacks, label,
                 dialog, posted, strayed, asks>>

\* The share answers a listing ...
Read(i) ==
  /\ tasks[i].kind \in Listings /\ tasks[i].got = "nothing"
  /\ \/ tasks' = [tasks EXCEPT ![i].got = "entries", ![i].current = TRUE]
     \/ tasks' = [tasks EXCEPT ![i].got = "error"]
  /\ UNCHANGED <<connection, path, current, back, forward, fallbacks, label,
                 dialog, posted, strayed, excuses, asks>>

\* Mutant: a failed listing is not reported to the widget.
ReportOnlyEntries(i) ==
  /\ tasks[i].kind \in Listings /\ tasks[i].got # "nothing"
  /\ posted' = IF tasks[i].got = "error" THEN posted ELSE Append(posted, tasks[i])
  /\ tasks' = RemoveAt(tasks, i)
  /\ UNCHANGED <<connection, path, current, back, forward, fallbacks, label,
                 dialog, strayed, excuses, asks>>

\* ... and the task posts what it got.
Report(i) ==
  /\ tasks[i].kind \in Listings /\ tasks[i].got # "nothing"
  /\ posted' = Append(posted, tasks[i])
  /\ tasks' = RemoveAt(tasks, i)
  /\ UNCHANGED <<connection, path, current, back, forward, fallbacks, label,
                 dialog, strayed, excuses, asks>>

\* copyOrMoveEntries reads m_connectionId from its own thread, for each entry.
WorksAt(t) == IF t.kind = "move" THEN <<connection, t.place[2]>> ELSE t.place

\* A listing once the folders in changed have changed.
Outdated(t, changed) ==
  IF t.kind \in Listings /\ t.place \in changed
  THEN [t EXCEPT !.current = FALSE] ELSE t

\* One entry is handled.
Operate(i) ==
  LET t == tasks[i]
      place == WorksAt(t)
      changed == IF t.kind \in Downloads THEN {} ELSE {place, t.target}
  IN
  /\ t.kind \notin Listings /\ t.left > 0
  /\ tasks' = [j \in DOMAIN tasks |->
                 IF j = i THEN [t EXCEPT !.left = @ - 1]
                 ELSE Outdated(tasks[j], changed)]
  /\ posted' = [j \in DOMAIN posted |-> Outdated(posted[j], changed)]
  /\ current' = (current /\ <<connection, path>> \notin changed)
  /\ strayed' = (strayed \/ place # t.asked)
  /\ UNCHANGED <<connection, path, back, forward, fallbacks, label, dialog,
                 excuses, asks>>

\* The operation ends: all entries handled, or an error or a cancellation.
OperationEnds(i) ==
  LET t == tasks[i] IN
  /\ t.kind \notin Listings
  /\ posted' = Append(posted,
                 [kind |-> IF t.left = 0 THEN "completed" ELSE "failed",
                  refresh |-> t.kind \notin Downloads])
  /\ tasks' = RemoveAt(tasks, i)
  /\ UNCHANGED <<connection, path, current, back, forward, fallbacks, label,
                 dialog, strayed, excuses, asks>>

(* The events. *)

Event == Head(posted)

\* setDirectory, when a connection has been opened.
SetDirectory ==
  /\ posted # <<>> /\ Event.kind = "connect" /\ Event.got = "entries"
  /\ connection' = Event.place[1]
  /\ path' = Event.place[2]
  /\ current' = Event.current
  /\ back' = <<>> /\ forward' = <<>>
  /\ fallbacks' = {}
  /\ label' = "state"
  /\ posted' = Tail(posted)
  /\ UNCHANGED <<dialog, tasks, strayed, excuses, asks>>

\* deliverOpenFailure tells the user and leaves the widget alone.
OpenFailed ==
  /\ posted # <<>> /\ Event.kind = "connect" /\ Event.got = "error"
  /\ posted' = Tail(posted)
  /\ excuses' = excuses \cup {"failed"}
  /\ UNCHANGED <<connection, path, current, back, forward, fallbacks, label,
                 dialog, tasks, strayed, asks>>

\* A stack without its last element, if that is p.
DropLast(stack, p) ==
  IF stack # <<>> /\ Last(stack) = p THEN Front(stack) ELSE stack

\* A stack with the folder that was left, if it was another one.
PushLeft(stack, e) ==
  IF e.previous # e.place[2] THEN Append(stack, e.previous) ELSE stack

\* Mutant: visiting a folder keeps what was ahead.
StacksKeepForward(e) ==
  CASE e.mode = "push" -> <<PushLeft(back, e), forward>>
    [] e.mode = "back" -> <<DropLast(back, e.place[2]), PushLeft(forward, e)>>
    [] e.mode = "forward" -> <<PushLeft(back, e), DropLast(forward, e.place[2])>>
    [] e.mode = "replace" -> <<back, forward>>

\* The two stacks once the answer e is applied.
Stacks(e) ==
  CASE e.mode = "push" -> <<PushLeft(back, e), <<>>>>
    [] e.mode = "back" -> <<DropLast(back, e.place[2]), PushLeft(forward, e)>>
    [] e.mode = "forward" -> <<PushLeft(back, e), DropLast(forward, e.place[2])>>
    [] e.mode = "replace" -> <<back, forward>>

\* Mutant: the entry kept for a link outlives the listing of the link.
ApplyDirectoryKeepsFallback ==
  /\ posted # <<>> /\ Event.kind = "list" /\ Event.got = "entries"
  /\ back' = Stacks(Event)[1]
  /\ forward' = Stacks(Event)[2]
  /\ connection' = Event.place[1]
  /\ path' = Event.place[2]
  /\ current' = Event.current
  /\ label' = "state"
  /\ posted' = Tail(posted)
  /\ UNCHANGED <<fallbacks, dialog, tasks, strayed, excuses, asks>>

\* applyDirectory: whatever the widget shows by now.
ApplyDirectory ==
  /\ posted # <<>> /\ Event.kind = "list" /\ Event.got = "entries"
  /\ back' = Stacks(Event)[1]
  /\ forward' = Stacks(Event)[2]
  /\ connection' = Event.place[1]
  /\ path' = Event.place[2]
  /\ current' = Event.current
  /\ fallbacks' = fallbacks \ {Event.place[2]}
  /\ label' = "state"
  /\ posted' = Tail(posted)
  /\ UNCHANGED <<dialog, tasks, strayed, excuses, asks>>

\* openRemoteFile, for a link: on the connection shown by now.
OpenLink(place) ==
  LET here == <<connection, Parent[place[2]]>> IN
  tasks' = Append(tasks, FileOperation("open", <<place[1], Parent[place[2]]>>,
                                       here, here, 1))

\* deliverFailure: a link that is no folder is opened as a file.
DeliverFailure ==
  /\ posted # <<>> /\ Event.kind = "list" /\ Event.got = "error"
  /\ IF Event.place[2] \in fallbacks
     THEN /\ label' = "state"
          /\ OpenLink(Event.place)
     ELSE label' = "error" /\ UNCHANGED tasks
  /\ fallbacks' = fallbacks \ {Event.place[2]}
  /\ excuses' = excuses \cup {"failed"}
  /\ posted' = Tail(posted)
  /\ UNCHANGED <<connection, path, current, back, forward, dialog,
                 strayed, asks>>

\* Mutant: nothing is refreshed.
OperationCompletedOnly ==
  /\ posted # <<>> /\ Event.kind = "completed"
  /\ posted' = Tail(posted)
  /\ UNCHANGED <<connection, path, current, back, forward, fallbacks, label,
                 dialog, tasks, strayed, excuses, asks>>

\* A completed operation refreshes the folder shown by now.
OperationCompleted ==
  /\ posted # <<>> /\ Event.kind = "completed"
  /\ IF Event.refresh THEN RequestDirectory(path, "replace")
                      ELSE UNCHANGED <<tasks, label, excuses>>
  /\ posted' = Tail(posted)
  /\ UNCHANGED <<connection, path, current, back, forward, fallbacks, dialog,
                 strayed, asks>>

\* A failed one does not, whatever it has done before it failed.
OperationFailed ==
  /\ posted # <<>> /\ Event.kind = "failed"
  /\ label' = "error"
  /\ excuses' = excuses \cup {"failed"}
  /\ posted' = Tail(posted)
  /\ UNCHANGED <<connection, path, current, back, forward, fallbacks, dialog,
                 tasks, strayed, asks>>

User == \/ \E c \in Connection : OpenConnection(c)
        \/ \E p \in Path : OpenDirectory(p) \/ OpenSymlink(p)
        \/ GoBack \/ GoForward \/ GoUp \/ Refresh \/ EditSearch \/ DropFiles
        \/ OpenFile
        \/ \E k \in Prompted : Prompt(k)
        \/ Accept \/ Dismiss

Pool == \E i \in Running : Read(i) \/ Report(i) \/ Operate(i) \/ OperationEnds(i)

Events == \/ SetDirectory \/ OpenFailed \/ ApplyDirectory \/ DeliverFailure
          \/ OperationCompleted \/ OperationFailed

\* The behaviours considered end after MaxAsks requests.
Finished == /\ asks = MaxAsks
            /\ tasks = <<>> /\ posted = <<>> /\ dialog = None
            /\ UNCHANGED vars

Next == \/ User
        \/ Pool
        \/ Events
        \/ \E i \in DOMAIN tasks : Abandon(i)
        \/ Finished

Spec == Init /\ [][Next]_vars

\* The pool works and the event loop turns, also below a dialog.
FairSpec == Spec /\ WF_vars(Pool) /\ WF_vars(Events)

-----------------------------------------------------------------------------
(* Properties. *)

\* It does not say so for ever.
LoadingEnds ==
  label = "loading" ~> label # "loading" \/ "abandoned" \in excuses

\* A link's file entry is kept exactly for a listing of the link that is under
\* way, so that no later failure of a folder opens a file in its place.
FallbacksAreAwaited ==
  "abandoned" \notin excuses
    => \A p \in fallbacks : \E t \in Outstanding : t.kind = "list" /\ t.place[2] = p

\* When everything has been answered, the entries shown are those the folder
\* has now, after any sequence of changes, refreshes and moves through the
\* history in which no two answers overlapped and nothing failed.
ViewIsCurrent ==
  tasks = <<>> /\ posted = <<>> /\ connection # None /\ excuses = {}
    => current

\* Back and forward keep a browsing history, provided that a folder is only
\* asked for when no other answer is on its way.
History == INSTANCE BrowsingHistory
             WITH trail <- IF connection = None THEN <<>>
                           ELSE back \o <<path>> \o Reverse(forward),
                  cursor <- IF connection = None THEN 0 ELSE Len(back) + 1

HistoryIsKept ==
  [][excuses' \cap {"overlap"} = {}
       => History!Next \/ UNCHANGED History!historyVars]_vars

\* What the task list says of the operations (TASKS.md, T-044: deleting needs a
\* confirmation): an operation works on the connection and in the folder that
\* were shown when the user was asked.
WorksWhereAsked == ~strayed
=============================================================================
