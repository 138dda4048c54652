# smb-browser: TLA+ models, checks and proofs

smb-browser is a Qt desktop program that browses SMB shares with an SMB2/3 client
of its own. This directory holds TLA+ modules translated from its source, TLC
configurations that check them on small instances, and TLAPS proofs. Source paths
below are relative to the repository's `src/` directory.

Most of what is difficult in the program lies where three kinds of actors meet:
the user, the GUI thread with its event loop (and the nested event loops of modal
dialogs and keychain jobs), and the two threads of the operation queue that talk
to servers which may be slow, refuse, or disappear. A second difficulty is the SMB
client itself: it is written from the protocol's documents, down to the bytes. The
project follows the way of a request: queue and status panel, browser, open files,
the store of connections, the DFS client, transfers, the set-up of a connection,
the session, the messages.

## 1. Inventory

| Component | State | Operations | Interacts with |
|---|---|---|---|
| Operation queue (`application/OperationQueue`) | map of operations (state, progress, error, token), thread pool | enqueue, cancel, snapshot, waitForDone, destructor; runnable: setState, setProgress, postChanged | everyone enqueues; events to the GUI thread |
| Status panel (`ui/StatusPanel`) | the active operation, the cancel button | handleOperationChanged, cancelActiveOperation | events of the queue; calls `cancel` |
| Remote browser (`ui/RemoteBrowserWidget`, `ui/ConnectionOpenController`) | connection, folder, entries, back and forward stacks, link fallbacks | open, back, forward, up, refresh, filter, create, delete, rename, copy, move, upload, download | enqueues listings and operations, answers come as events; dialogs run nested event loops |
| Open files and cache (`TempFileCache`, the open-file part of the browser, `ui/SettingsDialog`) | protected paths, open-file sessions, watched files, pending syncs | open, register, fileChanged, flush, upload with retries, clearAll | file watcher, queue, the user's editor |
| Connections and credentials (`ConnectionService`, repositories, credential stores, `ui/ConnectionManagementController`) | metadata rows, groups, secrets | create, update, duplicate, remove | SQLite, keychain or vault |
| Import and export (`ImportExportService`, `ConnectionImportExportService`) | a file | export, import (skip, replace, copy) | repositories |
| Connectivity check (`ConnectivityCheckService`) | status columns of a row | check | queue, SMB client, repository |
| Connection open service (`application/ConnectionOpenService`) | none of its own | open, listDirectory, file operations | repository, secrets, SMB client; runs on pool threads |
| DFS client (`DfsResolvingSmbClient`, native and smbclient resolvers) | cached targets of shares and of path prefixes | every SMB operation, with fall-back, fail-over and forgetting | resolvers, transfer client; shared by the pool threads |
| Transfer client (`infrastructure/smb/NativeSmbClient`) | local file, remote offset | download, upload, copy, move, delete | sessions |
| Connection set-up (`NativeSmbConnector`, `Negotiator`, `SessionSetupExchanger`, NTLM, signing and encrypting transports) | dialect, preauthentication hash, keys, layers | connect | transport |
| Native session and transport (`native_smb/NativeSmbSession`, `DirectTcpTransport`, listers, readers, writers, operators, exchangers) | next message id, handles at the server, socket, deadline | one method per SMB conversation | one connection per operation; token raised by other threads |
| Message codecs (`native_smb/Protocol`, `Utf16`, `DfsReferral`, `Dcerpc`, `SrvsRpc`, `NtlmMessages`, `SpnegoToken`) | none | one builder per request, one decoder per reply | all of `native_smb` |
| Recursive search, libsmb2 backend, windows, settings, logging | see `PROJECT.json` | | |

What is hard, and what makes each part correct:

* **Queue.** A state is stored under the mutex, the event that announces it is
  posted after the mutex is released; `cancel` may come at any moment; the
  destructor blocks the GUI thread. Correct: the GUI thread is told an ordered and
  complete story of each operation; outcomes are final; work cancelled while it
  waits never runs; everything ends, shutdown too.
* **Status panel.** One button for all operations, driven by whichever event came
  last. Correct: the button never acts on an operation that is over, and is
  released in the end.
* **Remote browser.** Answers carry the state of the time they were asked for and
  are applied whenever they come, dialogs included. Correct: loading ends; the
  entry kept for a link dies with the link's listing; back and forward are a
  browsing history and the view is current (both only while answers do not
  overlap); an operation works where the user was asked (false).
* **Open files.** Editors save in place, by rename, or by removing the file first;
  the watcher forgets a file that is gone; uploads take time and are retried; two
  caches share one directory. Correct: each save is noticed and in the end picked
  up; the server ends up with the last save; clearing the cache spares open files
  (false).
* **Connections.** A row and its secret are written one after the other, without a
  transaction, and the keychain runs an event loop in between; the program may die
  anywhere. Correct: a reference finds its secret, a secret has an owner, an
  export can be imported, a late check takes no edit back.
* **DFS.** Caches shared by threads, links behind links and in circles, targets
  that disappear. Correct: an operation works where the namespace says; names lead
  back; effort is bounded; a dead target is given up.
* **Transfers.** A transfer is many session calls, each able to fail, to be
  cancelled, or to be carried out without a reply; the old target is deleted
  first. Correct: success means the content arrived; the source survives until it
  has; no target mixes old and new; transfers end.
* **Connection set-up.** Client and server derive keys on their own; signing and
  encryption are added while the conversation goes on. Correct: keys agree, no
  share without a session, policies are kept, ids go on; what is encrypted can be
  read (false).
* **Session.** Four ways of counting message ids; a failure or cancellation at any
  request. Correct: ids are not repeated on a connection; handles are closed where
  the code promises it; the copy loop progresses; each call returns.
* **Codecs.** Offsets and lengths written next to the bytes they describe; lists
  walked by distances the server sends. Correct: no decoder reads past the
  message, what is sent well comes back, a request's parts are where it says.

Everything hard to test is listed with its line under `hazards` in `PROJECT.json`.

## 2. Modules

| Module | Models | Composition |
|---|---|---|
| `OperationLifecycle` | abstract: one life per operation, one final outcome, listeners told a story that never goes back nor runs ahead | implemented by `OperationQueue` |
| `OperationQueue` | `application/OperationQueue` with its pool and the GUI event queue | |
| `OperationConsole` | `ui/StatusPanel` bound to the queue | extends `OperationQueue`: events run the panel's handler, `Cancel` happens only through the button |
| `OperationQueueProofs` | theorems | extends `OperationConsole` |
| `BrowsingHistory` | abstract: a trail of folders and a cursor | mapped to by `RemoteBrowser` |
| `RemoteBrowser` | `ui/RemoteBrowserWidget`, `ui/ConnectionOpenController` above the queue | instance of `BrowsingHistory` |
| `RemoteBrowserProofs` | theorems | extends `RemoteBrowser` |
| `OpenFiles` | the open-file part of `ui/RemoteBrowserWidget`, `application/TempFileCache`, with editor, watcher and pool | |
| `OpenFilesProofs` | theorems | extends `OpenFiles` |
| `ConnectionStore` | `application/ConnectionService`, import and export, connectivity check, over SQLite and a credential store | |
| `ConnectionStoreProofs` | theorems | extends `ConnectionStore` |
| `DfsClient` | `infrastructure/smb/DfsResolvingSmbClient` and its resolvers, over the namespace | |
| `DfsClientProofs` | theorems | extends `DfsClient` |
| `SmbTransfer` | `infrastructure/smb/NativeSmbClient`: download, upload, copy, move, as `application/ConnectionOpenService` starts them | its steps are calls of `SmbSession`, of which it assumes that they return |
| `SmbTransferProofs` | theorems | extends `SmbTransfer` |
| `SmbConnector` | `native_smb/NativeSmbConnector` and what it calls, with an honest server | its result is the state `SmbSession` starts in |
| `SmbConnectorProofs` | theorems | extends `SmbConnector` |
| `SmbSession` | `native_smb`: session, operators, exchangers, transport, and the server as the code sees it | |
| `SmbCodec` | `native_smb/Protocol` and the codecs of what its messages carry | |
| `NativeSmbProofs` | theorems | extends `SmbSession` and `SmbCodec` |

`MC*` modules give the constants their values; `map` in `PROJECT.json` gives the
lines of each definition. Definitions introduced by `\* Mutant:` are variants of
the definition that follows them, each with a plausible bug that the properties
must detect; no specification uses them.

### OperationQueue
`operations` is `m_operations` (the state of each operation, `"Unknown"` before
`enqueue`), `progress` how many progress values each has stored, `tokens` the
raised cancellation tokens, `pool` the runnables waiting in the pool, `thread` the
operation each thread executes, `at` where its runnable is, `verdict` the state it
is about to store, `posted` the GUI thread's event queue, `seen` the last state
each operation was shown in, `life` the queue object's life. A critical section is
one step, and what comes after it another: `SetState` and `SetProgress` store,
`PostChanged` takes the snapshot and posts it. The runnable reads the token in
`Begin` and stores in a later step, so a cancellation can fall between the two,
and again in `Return` when the operation is back. `Destroy` raises all tokens,
`WaitForDone` is enabled when pool and threads are idle. Pool and event queue are
external code, modelled by their documented order. The operation's body is
arbitrary: it reports progress up to a bound, then succeeds, fails, or returns the
cancellation error.

### OperationConsole
`active` is `m_activeOperationId`. Two updates that always go together (the id and
the enabling of the button) are one variable.

### RemoteBrowser
The widget's fields are variables of the same meaning. `tasks` and `posted` are
the queue as the widget sees it (the order of starts, `Workers` running side by
side, an event per answer; a task cancelled before its start is dropped without
any event, `Abandon`). The entries of a folder are reduced to one flag, `current`:
whether they are those the folder has now; operations that change a folder falsify
it for the view and for all answers under way. A dialog blocks the user's other
actions and nothing else. `PlaceOf` and `WorksAt` reproduce which fields are read
before the dialog, after it, and from the pool thread. History variables:
`strayed` (an operation worked elsewhere than asked) and `excuses` (a folder was
asked for while another answer was on its way; a listing was dropped before it
started; something failed), used to state what holds otherwise.

### OpenFiles
One remote file and its copy in the cache. A content is a sequence of chunks, each
carrying the number of the save it stems from, so that lost and mixed saves show.
`session`, `watched`, `pending` are the widget's maps at that path, `changed` a
signal of the watcher on its way, `queue` and `ops` the pool. An open local file
keeps its content when another takes its name (`Orphaned`). `picked` is the last
save that a sync has found; `mishaps` records what excuses a loss: a save nobody
could be told of, a sync that failed, operations that overlapped.

### ConnectionStore
`rows`, `groups`, `secrets` are the two stores, `stack` the actions of the GUI
thread under way: with the keychain each credential job (`RunJob`) is a nested
event loop in which the user may start another action, so an action is resumed
(`Resume`) in a state that may have changed. Any write may fail; `Crash` ends the
program between any two writes. `mishaps` names the ways in which a reference or a
secret is lost, so that the invariants say that there are no others. An import
stores groups and rows one by one and may stop at any of them (`Persisted`); it
stops at a row whose group is not there (`refused`). A check carries the row it
has loaded (`checks`) until it ends. The history variable `wanted` holds, for each
connection, the settings that may stand: those last confirmed and stored, those
confirmed and not stored yet, and both sides of actions that overlap.
`ConfirmedStands` compares the rows with it.

### DfsClient
A world is what servers and administrators make of the namespace; a history is a
sequence of worlds, so that what was cached in one is used in the next.
`IsNamespace` says what a world may be: links lie below the root of a share, one
at a path, and the other targets of a root are shares. `call` holds each thread's
operation: where it is in the sequence of attempts (cached, direct, resolved for
the share, resolved for a prefix of the path, nested), and what it touched.
Look-ups and changes of a cache are atomic, as under the code's mutex; an
operation is not. Look-ups that follow each other without a call between them are
one step, and so are a call and the removal of the entry it has disproved: another
thread's look-up between the two sees what it would see just before the call,
since entries may also expire at any time. Time passes in `ExpireTargets` and
`ExpireMappings`. A resolver fails when its server does not answer or when its
program is missing (`ResolverFails`).

### SmbTransfer
`remote` holds the content of the shares' files as sequences of blocks that carry
where they come from, so that a mixture of two files shows; `local` the local file
of each transfer; `job` where a transfer is: which call comes next (`at`), the
`size` learnt before the loop, the `offset`, the `buffer` between READ and WRITE.
`wanted` and `old` are the contents of source and target at the start. One step is
one session call: `Fails` is a call without an effect, or a cancellation; the
second branch of `Replied` a call carried out whose reply did not arrive.
`copyFileServerSide` is the exception: its chunks are steps of their own, because
it can be abandoned between them. A READ may return less than it was asked for,
and nothing only beyond the end of the file; a WRITE may store less than it was
given, which the client does not look at. The history variable `disturbed` says
that somebody else changed a file of the transfer, or that a WRITE was short; most
properties are about undisturbed transfers.

### SmbConnector
`at` is the step of `connect()` that comes next. The two sides keep what their
keys are derived from, the messages hashed and the number of challenges answered;
ciphers and digests are left out. `layers` are the transports put around the
socket. The server decides what it demands when it is asked. `log` is every
request with its id and the layers around it.

### SmbSession
Each call is a script of requests with its way of counting ids and the points
where the operation itself looks at the token; the steps are those of
`exchange()`: `ConnectFails`, `SendFails` or `Send`, then a reply (`Carried`,
`Refused`) or `ReplyLost`, which closes the socket, then `Notice`, `Withhold` or
`Decode`. The next request after a closed socket opens one on which the server
knows no session, so it can only be refused. Handles have names at the server, so
a leak is visible. `lapsed` records the two endings that undercount ids.

### SmbCodec
Bytes are positions: a message is its size, the fields the decoder looks at and
the cells of its list at the position where each begins. `SendRequest` builds a
request as the builder of its command does (`parts`: where each part is appended,
and where the header of the request says it is), `ServeReply` lays out a reply,
`Cut` and `Change` damage it, and the decoders check and walk it step by step;
`reach` is the end of the last byte read, and is compared with what the decoder
was given (`Given`): the message, then its fixed part and the buffer copied out of
it, then the one DCE/RPC fragment in that. A server may leave out pointers of a
share list, send a resume handle, refuse a bind or a list, and send an NTLM token
that no DER value wraps. What lies where no cell begins is arbitrary. Text is
converted unit by unit, in both directions, at the edges of every encoded length.

## 3. Runs

| Run | Bounds | States | Shows |
|---|---|---|---|
| `queue` | 2 operations, 2 threads, 1 progress report each, with the status panel | 260,879 | nine properties, among them the refinement of `OperationLifecycle` |
| `session` | 2 calls of 19 kinds, 3 pages, files of up to 3 blocks in chunks of 2, ids to 20 | 122,823 | fresh ids, handles, progress, return |
| `browser` | 4 requests, 2 connections, 3 folders one of them a link, 2 threads, 2 entries | 738,267 | fallbacks, history, view, the end of loading |
| `browser_place` | 3 requests | violation | an operation confirmed in a dialog works on another connection |
| `transfer` | 1 transfer, 3 files of 2 shares of 0, 1 or 3 blocks, chunks of 2, 1 file shortened | 151,035 | faithful success, source kept, no mixture, end |
| `connector` | 3 dialects (HMAC, CCM, 3.1.1), 3 rounds | 6,194 | keys, session, policies, numbering |
| `connector_encryption` | the same | violation | a connection that signs encrypts frames the server cannot read |
| `dfs` | 4 shares, 8 histories of the namespace, 2 threads, nesting of 4 | 144,928 | the right file, its names, bounded effort, recovery |
| `store` | 2 connections, 1 group, 1 secret, 2 actions under way, 1 check with 2 results; keychain and vault | 1,984,049 | references, secrets, imports, settings stand |
| `openfiles` | 1 file of 2 chunks, 2 threads, 2 saves, 2 downloads, 2 attempts | 687,441 | saves are noticed, picked up, and arrive |
| `openfiles_clear` | 1 save, 1 download | violation | "Clear cache" deletes a file that is open |
| `codec` | names at the edges of every encoded length, lists of up to 3, payloads around 64 KiB and 16 MiB | 146,717 | decoders stay in what they were given, replies come back, requests are well formed |

Why the bounds are enough. *Queue*: operations interact only through pool order,
threads and event order, all of which two operations on two threads exercise in
all orders; the theorems remove the bound. *Session*: calls influence each other
only through the counter, the socket and held handles, so one call to disturb them
and one to suffer suffices; three pages make a listing of five requests, past the
three the code guesses; three blocks in chunks of two need a full and a partial
chunk, and the server may report 0 to one too many. The largest pair of calls
stays below id 20. *Browser*: opening a connection, two visits and a back (or an
operation and a refresh) need four requests; a dialog overtaken by a connection
needs three. *Transfer*: three blocks in chunks of two take a full and a partial
chunk, or three short ones; zero and one are the sizes without a loop and with one
round. Two files of one share and one of another give server-side copy, rename,
and block-wise copy. Transfers meet only in the files, where what others do to a
transfer is either `Shorten` or counts as `disturbed`. *Connector*: three rounds
give none, one and two challenges and the exhausted limit; the other two dialects
take the paths of those chosen; the theorems remove both bounds. *DFS*: each
history is the smallest in which its case happens (a link behind a link whose
first target dies, a replaced root target, a circle, the smbclient resolver, a
link into a replicated share, a link to a folder below another link, a target that
refuses the user in a namespace whose resolver comes and goes, a namespace without
links in which a share is late); a second thread that lists is enough to change a
cache under the first. *Store*: two actions are enough to overlap, on one
connection or on two; connections are symmetric (`SYMMETRY`; the run's properties
do not tell them apart), and the results of checks are left out of the comparison
of states (`VIEW`; no guard and no property reads them). A check, an edit of the
row it has loaded, and a second connection to import give a stale row its chance.
*Open files*: one save to upload and one during the upload, one download to open
and one to disturb; two chunks make a torn content visible; the code's 30 attempts
are 2, one that fails and one that succeeds. *Codec*: the field checks are linear
in the positions, so one list entry before and one after a damaged one meet all of
them; sizes lie on both sides of each place where a length takes another byte.

`store` and `openfiles` have a state constraint, `Followed`: a behaviour is
followed until something happens that excuses every later loss (an edit cut off, a
missed save). From there on the properties hold trivially, so nothing is hidden by
it, the leads-to property included, since the excuses are never withdrawn.
`ConfirmedStands` has no excuses: for what comes after an edit that was cut off or
a torn vault it rests on its theorem.

Deadlock is checked in every run but the two of `OpenFiles`, where the system
comes to rest when the user has saved and opened as often as the bounds allow;
elsewhere behaviours end in explicit final states (`Gone`, `Finished`, `Over`).

Each property of a passing run has a mutant in `PROJECT.json`.

### Fairness
* Queue: each pool thread keeps working, the event loop delivers while the
  application runs, `waitForDone` returns when the pool is idle. An operation's
  body is assumed to end; `SmbSession`'s `CallsReturn` is what justifies that for
  SMB work. Nothing obliges a user to cancel or a client to enqueue.
* Session: the calling thread keeps running, and the deadline that `sendAll` and
  `receiveExact` check ends every wait. The server has no fairness at all.
* Browser: pool and event loop, also below a dialog (its event loop is a full
  one). The user has none, so a dialog may stay open for ever.
* Transfer: every session call returns (`CallsReturn`); nothing is assumed of
  which outcome it has.
* DFS: each thread comes to the end of its operation again and again (stated as
  `[]<>`: each call of an operation ends by its deadline, and `EffortIsBounded`
  limits their number), and what is cached expires in the end, as its time to live
  passes. `Recovers` is stated for namespaces that settle.
* Open files: event loop, timer and threads run, and an editor that has removed
  the file in order to save it creates it again.

## 4. Findings

| Run | The code | The statement |
|---|---|---|
| `browser_place` | `ui/RemoteBrowserWidget.cpp:436` reads the connection after the dialog | T-044, `TASKS.md:623` |
| `connector_encryption` | `native_smb/NativeSmbConnector.cpp:280` puts encryption around signing, so that the encrypted frame is signed | T-122, `TASKS.md:2091` |
| `openfiles_clear` | `ui/SettingsDialog.cpp:266` clears through a cache object that knows none of the browser's open files | T-077, `TASKS.md:1135` |

Each shows as a violation. What else the code does that a reader might not expect
appears in the properties as an exception made by name:

* `ui/StatusPanel.cpp:208` clears the active operation on any completion: the
  button is disabled while another operation is still shown as running (T-057,
  `TASKS.md:814`).
* `native_smb/NativeSmbSession.cpp:259` adds three ids for a listing that fails,
  whatever the lister used (T-148, `TASKS.md:1926`); `FreshIds` holds for all
  other endings. A stat or metadata call that sees the token itself after a
  request reports no ids used.
* `ui/RemoteBrowserWidget.cpp:815` pushes what was current when a folder was asked
  for: two folders asked for before the first answer break the history (T-042,
  `TASKS.md:596`); `HistoryIsKept` holds while requests do not overlap.
* A listing cancelled while it waits in the pool never calls its callback, so the
  widget goes on saying "Loading".
* `infrastructure/smb/NativeSmbClient.cpp:749` ignores how much the server wrote,
  and a move removes the source all the same (T-102, `TASKS.md:2226`).
  `SuccessIsFaithful` and `SourceSurvives` hold when WRITEs are complete. The
  upload of an empty file deletes the old file and creates none. A file copied
  onto itself is deleted as the existing target (`NativeSmbClient.cpp:682`).
* `ui/RemoteBrowserWidget.cpp:1264`: opening an open file again downloads over the
  copy; the writing is taken for saves, and an unsynced save is lost (T-080,
  `TASKS.md:1183`). Nothing keeps two syncs of a file from overlapping.
* An edit writes the whole row over the result of a check that ended meanwhile,
  and a check that ends after an edit marks the row with the result for the
  settings it had loaded (`application/ConnectivityCheckService.cpp:64`). The
  settings themselves stand (`ConfirmedStands`), but for actions that overlap, of
  which either may win. A `Replace` import drops the reference and leaves the
  secret (T-023, `TASKS.md:322`).
* `infrastructure/smb/DfsResolvingSmbClient.cpp:322`: a nested referral shorter
  than the folder a link leads to loses that folder, and names come back wrong
  (T-096, `TASKS.md:2055`). It happens when the share a link leads to has a
  referral above the folder, a link of its own or other targets of the share
  itself (`LeadsPastReferral`); `NamesComeBack` holds everywhere else. A rename
  across a link uses the new name unmapped; copies and renames follow no nested
  links; fail-over after a time-out repeats operations that may have been carried
  out; the smbclient resolver loses the folder a link leads to.
* Guests and anonymous users are never signed, even if signing is required.

## 5. Proofs

All proofs are checked by TLAPS to the last step, for every value of the constants
that satisfies the modules' named `ASSUME`s. Each component's argument is one
inductive invariant; TLC checked each of them on the bounds of the component's run
before it was proved.

### Queue and panel
`OperationQueueProofs` proves for any set of operations, any non-empty set of
threads and any bound on progress reports: `TypeCorrect`, `RunnablesAreUnique`,
`StoryIsOrdered`, `OutcomesAreFinal`, `OutcomesReachTheGui`,
`EarlyCancelPreventsWork`, and `QueueImplementsLifecycle` (initial states map to
initial states, steps to steps or stutters). It also proves
`ButtonActsOnLiveOperation`.

The inductive invariant `IInv` is the conjunction of
* `TypeOK`;
* `Placement`: an operation's runnable is in exactly one place (pool, one thread,
  returned, not yet enqueued), and where it is determines what the hash may hold
  for the operation and what the runnable may be about to store. Without it two
  threads could hold the same operation, and a late `SetState` could overwrite an
  outcome;
* `Story`: `EventsInOrder` (for each operation the state last shown, the events
  still queued and the stored state never go back, in state or progress, and an
  outcome announced is the one stored) and that nobody is shown more than is
  stored. `EventsInOrder` alone is not inductive: posting needs the state shown to
  be no later than the stored one, and, from `Placement`, that only a runnable
  without an outcome is about to store one;
* `Quiet`: when the destructor has returned, nothing is left to run.

`OutcomeNotLost` is then inductive relative to `IInv`.

Early cancellation is a statement about later states, so it is proved through
`Doomed(o)`, "cancelled, and the check of the token is still to come or has
noticed it", which every step keeps.

### Browser
`RemoteBrowserProofs` proves for any number of requests, connections and threads
and any tree of folders: `FallbacksAwaited`, `ViewsAreCurrent` and `HistoryKept`,
the last of which shows that every step is a step of `BrowsingHistory` or leaves
its variables alone. The inductive invariant `BrowserInv` adds to the first, which
is nearly inductive by itself:
* `ViewInv`: unless something is excused, either an operation that will have the
  folder read again is under way (or its event is), or every answer on its way is
  current, and what is shown is if none is. `ViewIsCurrent` speaks only of the
  moment when all is answered;
* `HistoryInv`: without overlapping answers at most one listing is under way, in
  the pool or among the events; it fits what is shown (its `previous` is the
  current folder; a back or forward goes to the top of its stack); and neighbours
  in the two stacks differ. The last is needed because `applyDirectory` pops a
  stack only if its top is the folder it got, and pushes the folder it left only
  if that is another one;
* `BeforeOpening` and `Modes`: nothing but openings is under way before a
  connection is shown, and only they reset the history.

A move in the stacks keeps the trail `back`, current folder, reversed `forward`
(`ShiftLemma`), and that is `Back` and `Forward` of the abstract history.

### Open files
`OpenFilesProofs` proves for any number of threads, saves, downloads and attempts
and any size of the file: `FilesAreThere`, `SavesNoticed` and `SavesArrive`.
`NoticeInv` adds to `SavesAreNoticed` that the file of a session is there and
watched (or its signal is on its way) except between the two steps of a save, and
that no save precedes the session, unless excused. `ArrivalInv` adds, for states
without a mishap, `Calm`: one operation at a time; a download has fetched exactly
the chunks before its position and all of the same version (`Fetching`); an upload
that has seen the last save has sent exactly the chunks before its position, all
of that save (`Sending`); and if every save has been seen by an upload that is
over, the server has the last one (`Arrived`). A save in the middle of an upload
makes it send a mixture; what saves the property is that `picked` is then behind
`saved`, so a further sync is to come.

### Connections
`ConnectionStoreProofs` proves for any number of connections, groups, secrets,
checks and nested actions: `ConnectionsKeepSecrets`, `SecretsHaveOwners`,
`ExportsImport` and `ConnectionsAreAsConfirmed`. `StoreInv` says
* `RefsInv`: a reference, wherever it is kept, was made for the connection that
  holds it, so that no two connections share one;
* `GroupsInv`: the foreign keys of the tables and of the export file;
* as long as no edit was cut off, refused or overlapped: no two actions under way
  are for the same connection (`StackInv`), each knows the row and the secret it
  began with (`Sound`), a reference has its secret unless an edit that removed it
  is about to clear the row (`KeptInv`), and a secret has its row unless an action
  is about to write the row or to remove the secret (`OwnedInv`).

`ConnectionsAreAsConfirmed` needs an invariant of its own, `WantedInv`: besides
the rows, what each action under way carries and will store is among what is
expected of its connection (`Backed`). `ExpectLemma` shows that an expectation is
only dropped where no action past its dialog relies on it; the checks need
nothing, because what they have loaded is never stored.

### Transfers
`SmbTransferProofs` proves for any number of transfers and files, of any size and
with chunks of any size: `TransfersAreFaithful`, `SourcesSurvive` and
`TargetsAreNoMixture`. `TransferInv` says for each place in the code what the
source and the target of an undisturbed transfer hold: in the loops the target is
a beginning of the source at least up to the offset (`Partial`; more of it may
remain of a server-side copy that was abandoned), and between READ and WRITE the
buffer is the next blocks. A second part, `Shapes`, holds whatever others do to
the files: where each kind of transfer may be, and that no offset passes the size.

### Connection set-up
`SmbConnectorProofs` proves for any set of dialects and any round limit:
`SigningKeysAgree`, `NoShareWithoutSession`, `NoConnectionBelowPolicy` and
`AttemptIsNumberedAndBounded`. The inductive invariant `Inv` says what `connect()`
knows at each of its steps:
* `KeysInv`: both sides have hashed the same messages, and except between a
  challenge and its answer the key is that of the last challenge. `KeysAgree`,
  which speaks of the last step only, needs it through all rounds;
* `SessionInv`: there is a session once the rounds are over;
* `CountInv`: how many requests have been sent when a step is reached, as a
  function of the rounds, so that the limit of the rounds bounds the log, the
  retry included;
* `NumbersInv`, the numbering itself;
* `LayersInv`: no layer before there is a session, encryption from then on if it
  is required, always for the retry, and signing where it is required;
* `NamedInv`: the share is named only after that.

### Session
`NativeSmbProofs` proves for any number of calls, pages, blocks and ids:
`IdsAreFresh`, `CopiesProgress`, and the action properties `SuccessReleases` and
`CleanupReleases`. `SessionInv` is about the call in progress: its plan is what
remains of its script, or, after a failure it cleans up from, a row of CLOSEs
(`Planned`); the length of the plan then tells how many ids it has used, listings
and copies excepted (`Counted`), and how many handles it holds (`Holds`). `IdsInv`
relates the session's counter, the ids used and the highest id on the wire for
each way of charging; `HandlesInv` says that the handles of the call that are open
at the server are among those it remembers. `TableLemma` checks the facts this
rests on for each of the 19 entries of the table of calls, among them that a call
that reserves ids reserves as many as its script has requests.

### DFS
`DfsClientProofs` proves for any namespace, any history of changes to it, any set
of threads and any limit on nesting: `Serving` (`ServesTheNamespace`), `Naming`
(`NamesComeBack`) and `Effort` (`EffortIsBounded`), all from `Invariance`. The
inductive invariant `Inv` says
* `ConnectionCache`, `MappingCache`: each target that is cached for a share, and
  each mapping that is cached for a path, is what some referral of the past said,
  and the mappings of one entry are those of one link. What an operation finds in
  a cache may be out of date, but it is never another link's, whoever put it
  there;
* `Stack`: the nested look-ups of an operation are a stack of frames. The frame at
  depth `d` works at a place that `d - 1` links lead to from the path asked for
  (`Stages`), and its path is the one the mapping in hand of the frame below maps
  to. From this an entry can be followed back down the stack, level by level: each
  mapping takes the names it was given to the names of the level below;
* `Affordable`: an operation may make a certain number of calls in all, and at
  each level enough of them remain for the mappings still to be tried, each at the
  price of what may lie behind it (`Cost`). `EffortIsBounded` alone says nothing
  about what is left to do, so it is not inductive;
* `AtShare`, `AtPath`, `AtEnd`: the same for the steps outside the frames; between
  its look-up and its call a rename or a copy keeps what it has found in hand
  (`InHand`), whatever becomes of the cache meanwhile.

`Stages`, `Tries` and `Selected` are functions defined by recursion. That they
exist, and what they compute, is shown by induction without the library's rules of
induction, which have an operator as a parameter: `SetInduction` states it for a
set of numbers, and is proved by the least number that is not in it.

The attempt changed the model in three places. The exception of `NamesComeBack`
was too narrow: TLC had not met a link to a folder below another link, which is
now the history `Below`. A copy has a bound of its own, two calls. And a place is
looked for over as many links as the code follows, `MaxNested + 1`.

### Codecs
`NativeSmbProofs` proves `Reading` (`ReadsInBounds`) for any texts, lists and
sizes, a reply being cut anywhere or changed in one field; and `ReadingAnything`,
the same when the reply is replaced, before it is read, by any other whatever: any
fields, any buffers, any cells at any positions (`IsReply`). The decoders' checks
are thus enough by themselves, and nothing is taken from what a server would send.

`CodecInv` says that nothing is read before there is a reply (`Unread`), that no
more of it has been read than the decoder was given (`Read`), and what a walk
knows (`Walking`): its buffer ends inside that, as long as anything of it is left,
and so do the DER values around it; and the NTLM challenge was found with its
signature and so with the eight bytes that hold it. There is a lemma for each
decoder, and one for each layout of a reply, which shows that the cells of a list
are numbers at positions that follow each other (`StartsFacts`, by induction). The
attempt found that `Carrying` put a payload into a request whose builder had
refused it; there is now no request in that case, as in the code.

### Assumptions
The named `ASSUME`s only, all of which TLC evaluates in the runs: bounds are
natural numbers, where zero makes no sense positive; the folders form a tree;
`None` is none of the values it stands beside. For `DfsClient`: shares are
finitely many, every world of a history is a namespace (`IsNamespace`, see section
2), and requests are requests. For `SmbCodec`: sizes and dialects are numbers,
texts sequences of code units, lists sequences of texts.

### Only model-checked
* Liveness (`EveryOperationSettles`, `ShutdownCompletes`, `ButtonIsReleased`,
  `SavesArePicked`, `LoadingEnds`, `CallsReturn`, `TransfersEnd`, `Recovers`): out
  of this prover's reach.
* `RequestsArrive` and `RepliesComeBack` of `SmbCodec`. Both need that the
  conversions between UTF-8 and UTF-16 agree with the Unicode standard for every
  text, and the first that each length fits its field, which holds up to sizes
  that differ from command to command. TLC checks them at the edges of every
  encoded length.

## 6. Not modelled, and why

* Ciphers and digests (`NtlmCrypto`, AES-CCM, CMAC, SHA-512): arithmetic on bytes
  out of TLC's reach; the models keep what each depends on. Requests of the
  session cost one id each because all callers keep READ and WRITE at or below 64
  KiB.
* Numbers beyond the model's: the credit charge for payloads of 4 GiB, and the sum
  `offset + length` of an eight-byte DER length (`SpnegoToken.cpp:115`). Share
  lists in several DCE/RPC fragments are refused by the code, and `moreData` is
  not looked at (`RemoteShareEnumerator.cpp:231`). The distance to the next
  directory entry is added without wrapping: a sum that would wrap is refused by
  the check of the name's end, which comes first. `buildChangeNotifyRequest`
  passes on the credits its caller asks for (`Protocol.cpp:1972`); the model has
  no credit requests, as no reply depends on them.
* The part of a referral path that a server says it has consumed
  (`NativeDfsReferralResolver.cpp:205`): servers of the model report exactly the
  path of the link, the case in which the code's computation is the identity.
* What the properties exclude by name, because the code does not do it: transfers
  after a short WRITE (`disturbed`) and of a file onto itself are outside
  `SuccessIsFaithful`, `SourceSurvives` and `NoMixture`; two syncs of a file at
  once, and a download over an open file (`mixed`), are outside
  `SavesReachTheServer`. These four hazards are described in section 4 and not
  covered by any property.
* `RecursiveSearchService`, `OpenFileService`, `PreviewService`,
  `TempFileCache::cleanup` and `RemoteBrowserWidget::clear`: no code of the
  application calls them.
* `deleteTree` and `deleteWildcard`: they only compose session calls that are
  modelled.
* The torn read of a `QString` that one thread assigns while another copies it
  (`copyOrMoveEntries`), and the database connection shared by threads: the models
  have the values, not the crash.
* The order in which `app/main.cpp:529` destroys its objects; the settings, which
  are single statements of one thread.
* The error boxes after a failed operation: they block the user's other actions
  for a while; the model lets the user go on at once, which allows all the same
  behaviours.
* Capabilities and the enabling of buttons beyond the guards of the handlers.
* The libsmb2 backend (off by default), windows, themes, logging, localisation.

## 7. Plan

What is left, in this order:

1. `RequestsArrive` and `RepliesComeBack` of `SmbCodec` as theorems: the two
   conversions by induction over the code points of a text, and for each command
   the sizes up to which its lengths fit.
2. The composition of `SmbConnector` and `SmbSession`: reconnecting after a closed
   socket.
3. The destruction of the application's objects while operations run.
