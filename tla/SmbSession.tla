------------------------------ MODULE SmbSession ------------------------------
(***************************************************************************)
(* native_smb: one NativeSmbSession above one DirectTcpTransport.  Every   *)
(* call of the session is a short conversation of requests and replies on  *)
(* an open handle; the session gives each request a message id, which SMB2 *)
(* wants used once per TCP connection.  Some calls reserve their ids       *)
(* beforehand, some report afterwards how many they used, some guess.      *)
(*                                                                         *)
(* A request can fail before it is sent, lose its reply (the transport     *)
(* then closes the socket and the next request opens a new one, without a  *)
(* session), be refused, or be overtaken by the cancellation token, which  *)
(* another thread may raise at any moment.  Payloads, paths and credits    *)
(* are left out: every caller keeps READ and WRITE within 64 KiB, so each  *)
(* request costs one id.                                                   *)
(***************************************************************************)
EXTENDS Integers, Sequences, Functions

CONSTANTS
  MaxCalls,     \* bound: calls of the session in one behaviour
  MaxPages,     \* bound: QUERY_DIRECTORY replies the server has for a listing
  MaxSize,      \* bound: size of a file copied on the server, in blocks
  ChunkSize,    \* kCopyChunkSize, in blocks
  MaxId         \* bound: message ids

ASSUME BoundsAssumption == /\ MaxCalls \in Nat /\ MaxPages \in Nat \ {0}
                           /\ MaxSize \in Nat /\ ChunkSize \in Nat \ {0}
                           /\ MaxId \in Nat

VARIABLES
  next,         \* m_nextMessageId
  wire,         \* highest message id sent on the present socket
  peer,         \* the server's view of the present socket: "full" (session and
                \* tree), "treeless", "none" (no session), or "closed": no socket
  open,         \* handles open at the server, named by call and request
  stuck,        \* handles whose CLOSE the server refused
  held,         \* handles openFileForRead returned and nobody closed yet
  call,         \* the call in progress
  token,        \* the call's cancellation token is raised
  result,       \* what the last call returned
  calls,        \* number of calls so far
  disconnected, \* m_disconnected
  lapsed        \* history: some call has ended in a way that undercounts

vars == <<next, wire, peer, open, stuck, held, call, token, result, calls,
          disconnected, lapsed>>

-----------------------------------------------------------------------------
(* The calls.  script: the requests, in order.  reserve: ids taken from the  *)
(* session before the first request.  charge: how the session learns of the  *)
(* ids used: "reserved", "each" (one per request), "reported" (by the result *)
(* or the error) or "three" (reported on success, three on any failure).     *)
(* guarded: requests before which, and noticed: replies after which, the     *)
(* operation itself looks at the token.                                      *)

Operation(script, reserve, charge, guarded, noticed) ==
  [script |-> script, reserve |-> reserve, charge |-> charge,
   guarded |-> guarded, noticed |-> noticed]

\* QUERY is repeated until the server has no more entries.
List == Operation(<<"CREATE", "QUERY", "CLOSE">>, 0, "three",
                  {"CREATE"}, {"CREATE", "QUERY"})

ReadOnce == Operation(<<"CREATE", "READ", "CLOSE">>, 3, "reserved",
                      {"CREATE"}, {"CREATE"})

WriteOnce == Operation(<<"CREATE", "WRITE", "CLOSE">>, 0, "three",
                       {"CREATE"}, {"CREATE"})

\* Mutant: an empty file is created and its handle forgotten.
WriteEmptyLeaves == Operation(<<"CREATE">>, 0, "three", {"CREATE"}, {"CREATE"})

\* writeOnce with no data.
WriteEmpty == Operation(<<"CREATE", "CLOSE">>, 0, "three",
                        {"CREATE"}, {"CREATE"})

OpenForRead == Operation(<<"CREATE">>, 1, "reserved", {}, {})

ReadChunk == Operation(<<"READ">>, 1, "reserved", {}, {})

CloseHandle == Operation(<<"CLOSE">>, 1, "reserved", {}, {})

Stat == Operation(<<"CREATE", "QUERY_INFO", "QUERY_INFO", "CLOSE">>, 0,
                  "reported", {"CREATE"}, {"CREATE", "QUERY_INFO"})

\* Basic information, extended attributes, and the security descriptor.
Metadata(request) == Operation(<<"CREATE", request, "CLOSE">>, 0, "reported",
                               {"CREATE", request}, {})

SetMetadata == Metadata("SET_INFO")

QueryMetadata == Metadata("QUERY_INFO")

CreateDirectory == Operation(<<"CREATE", "CLOSE">>, 2, "reserved",
                             {"CREATE", "CLOSE"}, {})

\* deleteObject, renameObject and createHardLink.
MutateObject == Operation(<<"CREATE", "SET_INFO", "CLOSE">>, 3, "reserved",
                          {"CREATE", "SET_INFO"}, {})

CreateSymbolicLink == Operation(<<"CREATE", "IOCTL", "CLOSE">>, 3, "reserved",
                                {"CREATE", "IOCTL"}, {})

WatchOnce == Operation(<<"CREATE", "NOTIFY", "CLOSE">>, 3, "reserved",
                       {"CREATE", "NOTIFY"}, {})

ListShares == Operation(<<"CREATE", "WRITE", "READ", "WRITE", "READ", "CLOSE">>,
                        0, "reported", {"CREATE"}, {})

DfsReferrals == Operation(<<"IOCTL">>, 0, "reported", {"IOCTL"}, {})

\* Source and target are opened; CHUNK is repeated until the file is copied,
\* not at all if it is empty; target and source are closed.
Copy == Operation(<<"CREATE", "CREATE", "IOCTL", "CHUNK", "CLOSE", "CLOSE">>,
                  0, "each", {"CREATE", "CHUNK"}, {})

CopyEmpty == [Copy EXCEPT !.script = <<"CREATE", "CREATE", "CLOSE", "CLOSE">>]

\* NativeSmbConnection::disconnect, also run by its destructor.
Disconnect == Operation(<<"TREE_DISCONNECT", "LOGOFF">>, 0, "each", {}, {})

Operations ==
  [list |-> List, read |-> ReadOnce, write |-> WriteOnce, touch |-> WriteEmpty,
   open |-> OpenForRead, chunk |-> ReadChunk, close |-> CloseHandle,
   stat |-> Stat, setmeta |-> SetMetadata, getmeta |-> QueryMetadata,
   mkdir |-> CreateDirectory, mutate |-> MutateObject,
   symlink |-> CreateSymbolicLink, watch |-> WatchOnce, shares |-> ListShares,
   dfs |-> DfsReferrals, copy |-> Copy, copyempty |-> CopyEmpty,
   disconnect |-> Disconnect]

Kind == DOMAIN Operations

Copies == {"copy", "copyempty"}

\* Requests sent through an exchanger, which looks at the token on entry and
\* again when the reply is there.  The others go to the transport directly.
Exchanged == {"READ", "WRITE", "QUERY_INFO", "SET_INFO", "NOTIFY", "CLOSE"}

NoCall == [kind |-> "none", plan |-> <<>>, base |-> 0, used |-> 0,
           stage |-> "idle", failing |-> "no", mine |-> <<>>, size |-> 0,
           left |-> 0]

-----------------------------------------------------------------------------
Init == /\ next = 1
        /\ wire = 0
        /\ peer = "full"
        /\ open = {} /\ stuck = {} /\ held = {}
        /\ call = NoCall
        /\ token = FALSE
        /\ result = "none"
        /\ calls = 0
        /\ disconnected = FALSE
        /\ lapsed = FALSE

(* Starting a call. *)

\* Handles a call begins with: closeFileHandle closes one the caller holds.
GivenHandles(k) == IF k = "close" THEN {<<h>> : h \in held} ELSE {<<>>}

Start(k) ==
  /\ call = NoCall
  /\ calls < MaxCalls
  /\ k = "chunk" => held # {}
  /\ k = "disconnect" => ~disconnected
  /\ next' = next + Operations[k].reserve
  /\ \E given \in GivenHandles(k),
        size \in IF k = "copy" THEN 1..MaxSize ELSE {0} :
       /\ call' = [NoCall EXCEPT !.kind = k, !.plan = Operations[k].script,
                                 !.base = next, !.stage = "ready",
                                 !.mine = given,
                                 !.size = size, !.left = size]
       /\ held' = held \ Range(given)
  /\ token' = FALSE
  /\ calls' = calls + 1
  /\ UNCHANGED <<wire, peer, open, stuck, result, disconnected, lapsed>>

\* Another thread cancels the operation.
RaiseToken ==
  /\ call # NoCall
  /\ ~token
  /\ token' = TRUE
  /\ UNCHANGED <<next, wire, peer, open, stuck, held, call, result, calls,
                 disconnected, lapsed>>

(* How a request, and with it perhaps the call, comes to its end.  c is the  *)
(* call's state by then, id the session's counter.                           *)

\* Ids an operation says it has used; none, if it saw the token itself.
Reported(c, own) == IF own THEN 0 ELSE c.used

\* Mutant: a listing costs three ids, however many pages it had.
SettledThree(c, r, own) ==
  CASE Operations[c.kind].charge = "three" -> 3
    [] Operations[c.kind].charge = "reported" -> Reported(c, own)
    [] OTHER -> 0

\* Ids the session adds to its counter when the call returns.
Settled(c, r, own) ==
  CASE Operations[c.kind].charge = "three" -> IF r = "ok" THEN c.used ELSE 3
    [] Operations[c.kind].charge = "reported" -> Reported(c, own)
    [] OTHER -> 0

\* The two ways a call ends without accounting for its requests: a listing
\* fails after more than three of them, or a stat or metadata call sees the
\* token itself after the first.
Undercounts(c, r, own) ==
  \/ c.kind = "list" /\ r # "ok" /\ c.used > 3
  \/ c.kind \in {"stat", "setmeta", "getmeta"} /\ own /\ c.used > 0

\* The call returns r; own: because the operation itself saw the token.
Return(c, r, own, id) ==
  /\ call' = NoCall
  /\ result' = r
  /\ next' = id + Settled(c, r, own)
  /\ held' = IF c.kind = "open" /\ r = "ok" THEN held \cup Range(c.mine)
             ELSE held
  /\ disconnected' = (disconnected \/ (c.kind = "disconnect" /\ r = "ok"))
  /\ lapsed' = (lapsed \/ Undercounts(c, r, own))

Continue(c, id) ==
  /\ call' = [c EXCEPT !.stage = "ready"]
  /\ next' = id
  /\ UNCHANGED <<held, result, disconnected, lapsed>>

\* On to the next request, or the call is over.
Advance(c, id) ==
  IF Len(c.plan) = 1
  THEN Return(c, IF c.failing = "no" THEN "ok" ELSE c.failing, FALSE, id)
  ELSE Continue([c EXCEPT !.plan = Tail(@)], id)

\* Mutant: the cleanup runs under the caller's context.
IgnoredNever(c) == FALSE

\* The closes of closeBoth and closeOpenedPipe run under a context of their
\* own that nobody cancels, and what they return is ignored.
Ignored(c) == \/ c.failing # "no"
              \/ c.kind \in Copies /\ Head(c.plan) = "CLOSE"

\* A failed request ends the call; a copy and a share enumeration first close
\* what they have opened.
Fail(c, r, own, id) ==
  IF Ignored(c) THEN Advance(c, id)
  ELSE IF c.kind \in Copies \cup {"shares"} /\ c.mine # <<>>
       THEN Continue([c EXCEPT !.plan = [i \in DOMAIN c.mine |-> "CLOSE"],
                               !.failing = r], id)
       ELSE Return(c, r, own, id)

(* One request. *)

Request == Head(call.plan)

Each == Operations[call.kind].charge = "each"

RequestId == IF Each THEN next ELSE call.base + call.used

\* The session's counter once the request has its id.
Allocated == IF Each THEN next + 1 ELSE next

\* The call's state once the request has been tried: a CLOSE gives up the most
\* recently opened handle, whatever becomes of it.
Answered == [call EXCEPT !.mine = IF Request = "CLOSE"
                                  THEN SubSeq(@, 1, Len(@) - 1) ELSE @]

Issued == [Answered EXCEPT !.used = @ + 1]

\* The handle the request names, or creates.
Closing == IF Request = "CLOSE" THEN {call.mine[Len(call.mine)]} ELSE {}

Created == <<calls, call.used>>

\* The operation looks at the token before the request.
GiveUp ==
  /\ call.stage = "ready"
  /\ token /\ ~Ignored(call)
  /\ Request \in Operations[call.kind].guarded
  /\ Fail(call, "cancelled", TRUE, next)
  /\ UNCHANGED <<wire, peer, open, stuck, token, calls>>

\* The exchanger looks at the token on entry.
Decline ==
  /\ call.stage = "ready"
  /\ token /\ ~Ignored(call)
  /\ Request \in Exchanged
  /\ Fail(Issued, "cancelled", FALSE, Allocated)
  /\ UNCHANGED <<wire, peer, open, stuck, token, calls>>

\* The transport closes the socket; the server drops what it held for it.
Disconnected == /\ peer' = "closed"
                /\ wire' = 0
                /\ open' = {}

\* waitForSocket: why the transport gives up.
Verdict == IF token THEN "cancelled" ELSE "error"

\* connectSocket: no address of the server can be reached.
ConnectFails ==
  /\ call.stage = "ready"
  /\ peer = "closed"
  /\ Fail(Issued, Verdict, FALSE, Allocated)
  /\ UNCHANGED <<wire, peer, open, stuck, token, calls>>

\* sendAll: the socket breaks, the deadline passes, or the token is raised; a part
\* of the request may be on its way.
SendFails ==
  /\ call.stage = "ready"
  /\ Disconnected
  /\ Fail(Issued, Verdict, FALSE, Allocated)
  /\ UNCHANGED <<stuck, token, calls>>

\* connectIfNeeded: the server knows no session on a new socket.
Connected == IF peer = "closed" THEN "none" ELSE peer

\* exchange(): the request is on the wire.
Send ==
  /\ call.stage = "ready"
  /\ Allocated <= MaxId
  /\ wire' = IF RequestId > wire THEN RequestId ELSE wire
  /\ peer' = Connected
  /\ call' = [call EXCEPT !.used = @ + 1, !.stage = "sent"]
  /\ next' = Allocated
  /\ UNCHANGED <<open, stuck, held, token, result, calls, disconnected, lapsed>>

\* Mutant: only the token ends the wait for a reply.
ReplyLostWaits ==
  /\ call.stage = "sent"
  /\ token
  /\ Disconnected
  /\ Fail(Answered, "cancelled", FALSE, next)
  /\ UNCHANGED <<stuck, token, calls>>

\* receiveExact: time-out, cancellation or a broken connection.
ReplyLost ==
  /\ call.stage = "sent"
  /\ Disconnected
  /\ Fail(Answered, Verdict, FALSE, next)
  /\ UNCHANGED <<stuck, token, calls>>

\* The server carries the request out: it must know the session, and the tree
\* for all but LOGOFF.
Carried ==
  /\ call.stage = "sent"
  /\ peer = "full" \/ (peer = "treeless" /\ Request = "LOGOFF")
  /\ Closing \subseteq open
  /\ open' = CASE Request = "CREATE" -> open \cup {Created}
               [] Request = "CLOSE" -> open \ Closing
               [] Request \in {"TREE_DISCONNECT", "LOGOFF"} -> {}
               [] OTHER -> open
  /\ peer' = CASE Request = "TREE_DISCONNECT" -> "treeless"
               [] Request = "LOGOFF" -> "none"
               [] OTHER -> peer
  /\ call' = [Answered EXCEPT !.stage = "done",
                              !.mine = IF Request = "CREATE"
                                       THEN Append(@, Created) ELSE @]
  /\ UNCHANGED <<next, wire, stuck, held, token, result, calls, disconnected,
                 lapsed>>

\* The server answers with an error, or with something that does not decode.
Refused ==
  /\ call.stage = "sent"
  /\ stuck' = stuck \cup Closing
  /\ call' = [Answered EXCEPT !.stage = "refused"]
  /\ UNCHANGED <<next, wire, peer, open, held, token, result, calls,
                 disconnected, lapsed>>

\* With the reply there, the operation itself looks at the token ...
Notice ==
  /\ call.stage \in {"done", "refused"}
  /\ token /\ ~Ignored(call)
  /\ Request \in Operations[call.kind].noticed
  /\ Request = "QUERY_INFO" => call.stage = "done"
  /\ Fail(call, "cancelled", TRUE, next)
  /\ UNCHANGED <<wire, peer, open, stuck, token, calls>>

\* ... or the exchanger does.
Withhold ==
  /\ call.stage \in {"done", "refused"}
  /\ token /\ ~Ignored(call)
  /\ Request \in Exchanged
  /\ Fail(call, "cancelled", FALSE, next)
  /\ UNCHANGED <<wire, peer, open, stuck, token, calls>>

\* A page of a listing: the server has more, or this was the last.
Page ==
  \/ call.used < MaxPages + 1 /\ Continue(call, next)
  \/ Advance(call, next)

\* Mutant: a chunk of no blocks is not an error.
ChunkStalls ==
  LET length == IF call.left < ChunkSize THEN call.left ELSE ChunkSize IN
  \E count \in 0..(length + 1) :
    IF count > length
    THEN Fail(call, "error", FALSE, next)
    ELSE LET c == [call EXCEPT !.left = @ - count] IN
         IF c.left > 0 THEN Continue(c, next) ELSE Advance(c, next)

\* A chunk of a copy: the server reports how many blocks it wrote; none, or
\* more than were asked for, is an error.
Chunk ==
  LET length == IF call.left < ChunkSize THEN call.left ELSE ChunkSize IN
  \E count \in 0..(length + 1) :
    IF count = 0 \/ count > length
    THEN Fail(call, "error", FALSE, next)
    ELSE LET c == [call EXCEPT !.left = @ - count] IN
         IF c.left > 0 THEN Continue(c, next) ELSE Advance(c, next)

Decode ==
  /\ \/ /\ call.stage = "refused"
        /\ Fail(call, "error", FALSE, next)
     \/ /\ call.stage = "done"
        /\ CASE Request = "QUERY" -> Page
             [] Request = "CHUNK" -> Chunk
             [] OTHER -> Advance(call, next)
  /\ UNCHANGED <<wire, peer, open, stuck, token, calls>>

\* The thread of the call, and the server.
Step == GiveUp \/ Decline \/ ConnectFails \/ SendFails \/ Send \/ ReplyLost \/ Notice
          \/ Withhold \/ Decode

Serve == Carried \/ Refused

\* The behaviours considered end after MaxCalls calls.
Finished == /\ call = NoCall
            /\ calls = MaxCalls
            /\ UNCHANGED vars

Next == \/ \E k \in Kind : Start(k)
        \/ RaiseToken
        \/ Step
        \/ Serve
        \/ Finished

Spec == Init /\ [][Next]_vars

\* The thread of a call keeps running, and a deadline ends its wait for a
\* reply.  Nothing obliges the server to answer.
FairSpec == Spec /\ WF_vars(Step)

-----------------------------------------------------------------------------
(* Properties. *)

\* Unless a call has ended in one of the two ways that undercount, every
\* request carries an id that was not sent before on the same connection,
\* whichever of the four ways of counting its call uses and wherever earlier
\* calls failed or were cancelled.
FreshIds ==
  ~lapsed => /\ call = NoCall => next > wire
             /\ call.stage = "ready" => RequestId > wire

\* Handles of this call still open at the server that it could have closed.
Leaked == {h \in open' : h[1] = calls /\ h \notin stuck' \cup held'}

\* A call that reports success leaves no handle open at the server, except the
\* one it returns and those the server refused to close.
SuccessReleasesHandles ==
  [][call # NoCall /\ call' = NoCall /\ result' = "ok" => Leaked = {}]_vars

\* A server-side copy closes source and target however it ends: after an
\* error, an impossible byte count or a cancellation at any point.  A share
\* enumeration does so too unless it is cancelled at its own final close.
CleanupReleasesHandles ==
  [][/\ call # NoCall /\ call' = NoCall
     /\ \/ call.kind \in Copies
        \/ call.kind = "shares" /\ ~(token /\ call.plan = <<"CLOSE">>)
     => Leaked = {}]_vars

\* A server-side copy never sends more chunk requests than the file has blocks:
\* each one that does not end the copy has copied something, and none starts at
\* or past the end of the file, whatever number of bytes the server reports.
CopyMakesProgress ==
  call.kind = "copy" /\ call.stage = "ready" /\ Request = "CHUNK"
    => call.left \in 1..call.size /\ call.used - 3 <= call.size - call.left

\* Every call returns, even if the server never answers and nobody cancels.
CallsReturn == call # NoCall ~> call = NoCall
=============================================================================
