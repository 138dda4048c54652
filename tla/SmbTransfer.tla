----------------------------- MODULE SmbTransfer -----------------------------
(***************************************************************************)
(* infrastructure/smb/NativeSmbClient: download, upload, copy and move, as *)
(* application/ConnectionOpenService starts them on the pool's threads.    *)
(* A transfer is a sequence of session calls on connections of its own.    *)
(* Any call may fail, be cancelled, or be carried out and lose its reply;  *)
(* a server may write less than it was given; other clients may shorten a  *)
(* file meanwhile, and two transfers may meet at one file.                 *)
(*                                                                         *)
(* A file is a sequence of blocks, each known by where it was first seen.  *)
(***************************************************************************)
EXTENDS Naturals, SequencesExt

CONSTANTS
  Worker,       \* threads, one transfer each
  File,         \* remote files
  Tree,         \* for each file, its share
  None,         \* no file, no owner
  Sizes,        \* sizes of the files there are at first, in blocks
  ChunkSize,    \* kChunkSize and kDownloadChunkSize, in blocks
  MaxShortened  \* bound: files shortened by other clients

\* A block has its first owner and its number there.
Block == (File \cup Worker \cup {None}) \X Nat
Content == Seq(Block)

ASSUME NoneAssumption == None \notin File \cup Worker \cup Content
ASSUME SizesAssumption == /\ Sizes \subseteq Nat /\ ChunkSize \in Nat \ {0}
                          /\ MaxShortened \in Nat

VARIABLES
  remote,       \* content of each remote file; None: there is no such file
  local,        \* content of each transfer's local file
  job,          \* the transfer of each thread
  disturbed,    \* history: others changed a file of the transfer, or the
                \* server wrote less than it was given
  shortened     \* number of files shortened so far

vars == <<remote, local, job, disturbed, shortened>>

Hole == <<None, 0>>

Fresh(owner, n) == [i \in 1..n |-> <<owner, i>>]

\* wanted: what is transferred; old: the target's content at the start.
NoJob == [kind |-> "none", source |-> None, target |-> None, same |-> FALSE,
          at |-> "idle", offset |-> 0, size |-> 0, buffer |-> <<>>,
          wanted |-> None, old |-> None]

Over == {"done", "failed"}

-----------------------------------------------------------------------------
Init == /\ remote \in [File -> {None}] \cup
                      {[f \in File |-> IF f \in there THEN Fresh(f, size[f]) ELSE None] :
                         there \in SUBSET File, size \in [File -> Sizes]}
        /\ local = [w \in Worker |-> None]
        /\ job = [w \in Worker |-> NoJob]
        /\ disturbed = [w \in Worker |-> FALSE]
        /\ shortened = 0

(* Starting a transfer. *)

\* A transfer whose connections and secrets are loaded.
Begin(w, j) ==
  /\ job[w] = NoJob
  /\ job' = [job EXCEPT ![w] = j]
  /\ UNCHANGED <<remote, disturbed, shortened>>

StartDownload(w, f) ==
  /\ Begin(w, [NoJob EXCEPT !.kind = "download", !.source = f, !.at = "open",
                            !.wanted = remote[f]])
  /\ UNCHANGED local

\* The local file is opened before the target is looked at.
StartUpload(w, f, n) ==
  /\ Begin(w, [NoJob EXCEPT !.kind = "upload", !.target = f, !.at = "stat",
                            !.size = n, !.wanted = Fresh(w, n),
                            !.old = remote[f]])
  /\ local' = [local EXCEPT ![w] = Fresh(w, n)]

\* same: sameRemoteTree holds of the connections.  It does not if one share is
\* reached through connections of two users.
StartCopy(w, kind, s, t, same) ==
  /\ same => Tree[s] = Tree[t]
  /\ Begin(w, [NoJob EXCEPT !.kind = kind, !.source = s, !.target = t,
                            !.same = same, !.wanted = remote[s],
                            !.old = remote[t],
                            !.at = IF kind = "move" /\ same THEN "rename"
                                   ELSE "source"])
  /\ UNCHANGED local

(* One session call. *)

\* File f of transfer w, and perhaps of others, gets a new content.
Put(w, f, content) ==
  /\ remote' = [remote EXCEPT ![f] = content]
  /\ disturbed' = [v \in Worker |->
       disturbed[v] \/ (v # w /\ f \in {job[v].source, job[v].target})]

\* The reply tells the transfer to go on as j, or is lost.
Replied(w, j) ==
  \/ job' = [job EXCEPT ![w] = j]
  \/ job' = [job EXCEPT ![w].at = "failed"]

Continue(w, j) == job' = [job EXCEPT ![w] = j]

\* Mutant: a move goes on to remove the source after a failed copy.
FailsMove(w) ==
  /\ job[w].at \notin Over \cup {"idle", "sweep"}
  /\ job' = [job EXCEPT ![w].at =
               IF job[w].kind = "move" /\ job[w].at \in {"fetch", "write"}
               THEN "remove" ELSE "failed"]
  /\ UNCHANGED <<remote, local, disturbed, shortened>>

\* The call fails or is cancelled without an effect, or the local file does.
Fails(w) ==
  /\ job[w].at \notin Over \cup {"idle", "sweep"}
  /\ job' = [job EXCEPT ![w].at = "failed"]
  /\ UNCHANGED <<remote, local, disturbed, shortened>>

Least(m, n) == IF m < n THEN m ELSE n

\* How many blocks a READ at the offset may return: none only at the end.
Readable(j) ==
  LET there == Len(remote[j.source]) IN
  IF there <= j.offset THEN {0}
  ELSE 1..Least(Least(ChunkSize, j.size - j.offset), there - j.offset)

Blocks(content, offset, n) == SubSeq(content, offset + 1, offset + n)

\* Content once data is written at the offset.
Overlay(content, offset, data) ==
  LET end == offset + Len(data)
      length == IF Len(content) > end THEN Len(content) ELSE end
  IN [i \in 1..length |-> IF i \in (offset + 1)..end THEN data[i - offset]
                          ELSE IF i <= Len(content) THEN content[i] ELSE Hole]

\* Content of a file that CREATE opens, or makes.
Opened(f) == IF remote[f] = None THEN <<>> ELSE remote[f]

(* downloadFile *)

OpenRemote(w) ==
  LET j == job[w] IN
  /\ j.at = "open"
  /\ remote[j.source] # None
  /\ Continue(w, [j EXCEPT !.size = Len(remote[j.source]), !.at = "local"])
  /\ UNCHANGED <<remote, local, disturbed, shortened>>

OpenLocal(w) ==
  LET j == job[w] IN
  /\ j.at = "local"
  /\ local' = [local EXCEPT ![w] = <<>>]
  /\ Continue(w, [j EXCEPT !.at = IF j.size = 0 THEN "done" ELSE "read"])
  /\ UNCHANGED <<remote, disturbed, shortened>>

ReadFileChunk(w) ==
  LET j == job[w] IN
  /\ j.at = "read"
  /\ remote[j.source] # None
  /\ \E n \in Readable(j) :
       /\ local' = [local EXCEPT ![w] =
                      @ \o Blocks(remote[j.source], j.offset, n)]
       /\ Continue(w, [j EXCEPT !.offset = @ + n,
                                !.at = IF n = 0 \/ j.offset + n = j.size
                                       THEN "done" ELSE "read"])
  /\ UNCHANGED <<remote, disturbed, shortened>>

(* uploadFile, and copy up to the first block *)

\* With the target out of the way: an empty upload has nothing left to do.
Cleared(j) ==
  [j EXCEPT !.at = IF j.kind = "upload" THEN (IF j.size = 0 THEN "done" ELSE "write")
                   ELSE IF j.same THEN "server"
                   ELSE IF j.size = 0 THEN "touch" ELSE "fetch"]

StatSource(w) ==
  LET j == job[w] IN
  /\ j.at = "source"
  /\ remote[j.source] # None
  /\ Continue(w, [j EXCEPT !.size = Len(remote[j.source]), !.at = "stat"])
  /\ UNCHANGED <<remote, local, disturbed, shortened>>

\* Mutant: the blocks are written over what is there.
StatTargetOnly(w) ==
  /\ job[w].at = "stat"
  /\ Continue(w, Cleared(job[w]))
  /\ UNCHANGED <<remote, local, disturbed, shortened>>

StatTarget(w) ==
  LET j == job[w] IN
  /\ j.at = "stat"
  /\ Continue(w, IF remote[j.target] = None THEN Cleared(j)
                 ELSE [j EXCEPT !.at = "delete"])
  /\ UNCHANGED <<remote, local, disturbed, shortened>>

DeleteTarget(w) ==
  LET j == job[w] IN
  /\ j.at = "delete"
  /\ remote[j.target] # None
  /\ Put(w, j.target, None)
  /\ Replied(w, Cleared(j))
  /\ UNCHANGED <<local, shortened>>

(* copy *)

\* The copy has succeeded.
Copied(j) == [j EXCEPT !.at = IF j.kind = "move" THEN "remove" ELSE "done"]

\* copyFileServerSide opens the source and creates or empties the target.
ServerOpen(w) ==
  LET j == job[w] IN
  /\ j.at = "server"
  /\ remote[j.source] # None
  /\ Put(w, j.target, <<>>)
  /\ Continue(w, [j EXCEPT !.at = "chunk"])
  /\ UNCHANGED <<local, shortened>>

ServerChunk(w) ==
  LET j == job[w] IN
  /\ j.at = "chunk" /\ j.offset < j.size
  /\ remote[j.source] # None /\ remote[j.target] # None
  /\ \E n \in Readable(j) \ {0} :
       /\ Put(w, j.target, Overlay(remote[j.target], j.offset,
                                   Blocks(remote[j.source], j.offset, n)))
       /\ Continue(w, [j EXCEPT !.offset = @ + n])
  /\ UNCHANGED <<local, shortened>>

ServerDone(w) ==
  LET j == job[w] IN
  /\ j.at = "chunk" /\ j.offset = j.size
  /\ Continue(w, Copied(j))
  /\ UNCHANGED <<remote, local, disturbed, shortened>>

\* Mutant: the stream copy goes on where the server stopped.
ServerFailsMidway(w) ==
  /\ job[w].at \in {"server", "chunk"}
  /\ Continue(w, [job[w] EXCEPT !.at = "sweep"])
  /\ UNCHANGED <<remote, local, disturbed, shortened>>

\* Any error but a cancellation: what was copied is removed, if possible, ...
ServerFails(w) ==
  /\ job[w].at \in {"server", "chunk"}
  /\ Continue(w, [job[w] EXCEPT !.at = "sweep", !.offset = 0])
  /\ UNCHANGED <<remote, local, disturbed, shortened>>

\* ... and the blocks are copied one by one.
Sweep(w) ==
  LET j == job[w] IN
  /\ j.at = "sweep"
  /\ \/ remote[j.target] # None /\ Put(w, j.target, None)
     \/ UNCHANGED <<remote, disturbed>>
  /\ Continue(w, [j EXCEPT !.at = IF j.size = 0 THEN "touch" ELSE "fetch"])
  /\ UNCHANGED <<local, shortened>>

\* writeFileOnce without data creates the file, or leaves it alone.
Touch(w) ==
  LET j == job[w] IN
  /\ j.at = "touch"
  /\ Put(w, j.target, Opened(j.target))
  /\ Replied(w, Copied(j))
  /\ UNCHANGED <<local, shortened>>

ReadFileOnce(w) ==
  LET j == job[w] IN
  /\ j.at = "fetch"
  /\ remote[j.source] # None
  /\ \E n \in Readable(j) :
       Continue(w, [j EXCEPT !.buffer = Blocks(remote[j.source], j.offset, n),
                             !.at = "write"])
  /\ UNCHANGED <<remote, local, disturbed, shortened>>

\* What the transfer writes next.
Data(w) ==
  LET j == job[w] IN
  IF j.kind = "upload"
  THEN Blocks(local[w], j.offset, Least(ChunkSize, j.size - j.offset))
  ELSE j.buffer

\* Mutant: only the offset ends the loop.
WrittenAll(j, data) ==
  LET next == [j EXCEPT !.offset = @ + Len(data), !.buffer = <<>>] IN
  IF next.offset < j.size
  THEN [next EXCEPT !.at = IF j.kind = "upload" THEN "write" ELSE "fetch"]
  ELSE Copied(next)

\* The transfer once data is written: the offset moves by what was given to the
\* server, and the loop ends with the file or with an empty READ.
Written(j, data) ==
  LET next == [j EXCEPT !.offset = @ + Len(data), !.buffer = <<>>] IN
  IF data # <<>> /\ next.offset < j.size
  THEN [next EXCEPT !.at = IF j.kind = "upload" THEN "write" ELSE "fetch"]
  ELSE Copied(next)

\* writeFileOnce opens or creates the target and writes n blocks of the data,
\* by rights all of them.  The client does not look at the count.
WriteFileOnce(w) ==
  LET j == job[w]
      data == Data(w)
  IN
  /\ j.at = "write"
  /\ \E n \in 0..Len(data) :
       /\ remote' = [remote EXCEPT ![j.target] =
                       Overlay(Opened(j.target), IF n = 0 THEN 0 ELSE j.offset,
                               SubSeq(data, 1, n))]
       /\ disturbed' = [v \in Worker |->
            \/ disturbed[v]
            \/ v = w /\ n < Len(data)
            \/ v # w /\ j.target \in {job[v].source, job[v].target}]
  /\ Replied(w, Written(j, data))
  /\ UNCHANGED <<local, shortened>>

(* move *)

\* renameObject, which may replace the target.
Rename(w) ==
  LET j == job[w] IN
  /\ j.at = "rename"
  /\ remote[j.source] # None
  /\ remote' = [remote EXCEPT ![j.source] = None, ![j.target] = remote[j.source]]
  /\ disturbed' = [v \in Worker |->
       \/ disturbed[v]
       \/ v # w /\ {j.source, j.target} \cap {job[v].source, job[v].target} # {}]
  /\ Replied(w, [j EXCEPT !.at = "done"])
  /\ UNCHANGED <<local, shortened>>

\* remove, after the copy, on a connection of its own.
RemoveSource(w) ==
  LET j == job[w] IN
  /\ j.at = "remove"
  /\ remote[j.source] # None
  /\ Put(w, j.source, None)
  /\ Replied(w, [j EXCEPT !.at = "done"])
  /\ UNCHANGED <<local, shortened>>

(* Others *)

\* Another client shortens a file.
Shorten(f) ==
  /\ shortened < MaxShortened
  /\ remote[f] # None /\ remote[f] # <<>>
  /\ remote' = [remote EXCEPT ![f] = Front(@)]
  /\ disturbed' = [v \in Worker |-> \/ disturbed[v]
                                    \/ f \in {job[v].source, job[v].target}]
  /\ shortened' = shortened + 1
  /\ UNCHANGED <<local, job>>

Work(w) == \/ OpenRemote(w) \/ OpenLocal(w) \/ ReadFileChunk(w)
           \/ StatSource(w) \/ StatTarget(w) \/ DeleteTarget(w)
           \/ ServerOpen(w) \/ ServerChunk(w) \/ ServerDone(w) \/ ServerFails(w)
           \/ Sweep(w) \/ Touch(w) \/ ReadFileOnce(w) \/ WriteFileOnce(w)
           \/ Rename(w) \/ RemoveSource(w) \/ Fails(w)

Start(w) == \/ \E f \in File : StartDownload(w, f)
            \/ \E f \in File, n \in Sizes : StartUpload(w, f, n)
            \/ \E kind \in {"copy", "move"}, s, t \in File, same \in BOOLEAN :
                 StartCopy(w, kind, s, t, same)

\* The behaviours considered end when each thread has had its transfer.
Finished == /\ \A w \in Worker : job[w].at \in Over
            /\ UNCHANGED vars

Next == \/ \E w \in Worker : Start(w) \/ Work(w)
        \/ \E f \in File : Shorten(f)
        \/ Finished

Spec == Init /\ [][Next]_vars

\* Every session call returns, with a result or an error.
FairSpec == Spec /\ \A w \in Worker : WF_vars(Work(w))

-----------------------------------------------------------------------------
(* Properties. *)

\* A transfer that reports success has transferred the file: through lost
\* replies, partial reads, and a server-side copy abandoned half-way, as long as
\* nobody else changes its files and the server writes what it is given.  Two
\* exceptions: the upload of an empty file leaves no file, and an empty file
\* moved onto itself through another user's connection is removed.
SuccessIsFaithful ==
  \A w \in Worker :
    LET j == job[w] IN
    j.at = "done" /\ ~disturbed[w] =>
      CASE j.kind = "download" -> local[w] = j.wanted
        [] j.kind = "upload" -> j.wanted = <<>> \/ remote[j.target] = j.wanted
        [] OTHER -> j.source = j.target \/ remote[j.target] = j.wanted

\* Copying never loses the source: it is there until, for a move, the target
\* holds all of it, however the transfer fails.  A file copied onto itself is
\* the exception: it is deleted as the target.
SourceSurvives ==
  \A w \in Worker :
    LET j == job[w] IN
    j.kind \in {"copy", "move"} /\ ~disturbed[w] /\ j.source # j.target =>
      \/ remote[j.source] = j.wanted
      \/ j.kind = "move" /\ remote[j.target] = j.wanted

\* Whenever a transfer ends or is interrupted, its target is the old file, no
\* file, or a beginning of the new one, never a mixture of the two.
NoMixture ==
  \A w \in Worker :
    LET j == job[w] IN
    j.target # None /\ ~disturbed[w] /\ j.source # j.target =>
      \/ remote[j.target] \in {j.old, None}
      \/ j.wanted # None /\ IsPrefix(remote[j.target], j.wanted)

\* Every transfer ends, also when its source shrinks below the size it knows.
TransfersEnd ==
  \A w \in Worker : job[w] # NoJob ~> job[w].at \in Over
=============================================================================
