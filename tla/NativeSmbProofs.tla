--------------------------- MODULE NativeSmbProofs ---------------------------
(***************************************************************************)
(* Proofs about the native SMB client: the session (SmbSession) and the    *)
(* message codecs (SmbCodec).                                              *)
(*                                                                         *)
(* The session: a message id is not sent twice on a connection unless a    *)
(* call undercounted, a server-side copy asks for no chunk past the end of *)
(* the file, and the calls that promise it leave no handle open at the     *)
(* server.  Behind all of them is one invariant of the call in progress:   *)
(* its plan is what remains of its script, or the closes of a cleanup, and *)
(* the length of what remains tells how many ids it has used and how many  *)
(* handles it holds.                                                       *)
(*                                                                         *)
(* The codecs: no decoder reads past the end of a reply.  The invariant is *)
(* that a walk stays inside a buffer that was found to be inside the       *)
(* reply, and that the ends of the values around it do.                    *)
(***************************************************************************)
EXTENDS SmbSession, SmbCodec, SequenceTheorems, WellFoundedInduction, TLAPS

-----------------------------------------------------------------------------
(* SmbSession                                                              *)

\* Requests of the calls' scripts.
Requests == {"CREATE", "QUERY", "READ", "WRITE", "CLOSE", "QUERY_INFO",
             "SET_INFO", "IOCTL", "NOTIFY", "CHUNK", "TREE_DISCONNECT", "LOGOFF"}

\* A handle is named by the call that opened it and the number of its request.
Handles == Nat \X Nat

\* Calls in progress.
Calls == [kind : Kind, plan : Seq(Requests), base : Nat, used : Nat,
          stage : {"ready", "sent", "done", "refused"},
          failing : {"no", "error", "cancelled"}, mine : Seq(Handles),
          size : Nat, left : Nat]

\* The types of the state.
Typed ==
  /\ next \in Nat /\ wire \in Nat /\ calls \in Nat
  /\ peer \in {"full", "treeless", "none", "closed"}
  /\ open \subseteq Handles /\ stuck \subseteq Handles /\ held \subseteq Handles
  /\ call \in Calls \cup {NoCall}
  /\ token \in BOOLEAN /\ disconnected \in BOOLEAN /\ lapsed \in BOOLEAN

\* The requests a call makes when all goes well.
Script(c) == Operations[c.kind].script

\* Requests of the script that are behind the call.
Position(c) == Len(Script(c)) - Len(c.plan)

\* The plan is a rest of the script or, after a failure, a row of closes.
Planned(c) ==
  /\ Len(c.plan) > 0
  /\ IF c.failing = "no"
     THEN /\ Len(c.plan) <= Len(Script(c))
          /\ \A j \in 1..Len(c.plan) : c.plan[j] = Script(c)[Position(c) + j]
     ELSE /\ c.kind \in Copies \cup {"shares"}
          /\ \A j \in 1..Len(c.plan) : c.plan[j] = "CLOSE"

\* How many ids the call has used, n of them for the request at hand: one per
\* request, except where a listing asks for another page and a copy for
\* another chunk.
Counted(c, n) ==
  c.failing = "no" =>
    /\ c.kind \notin {"list", "copy"} => c.used = Position(c) + n
    /\ c.kind = "copy" =>
         /\ Position(c) < 3 => c.used = Position(c) + n /\ c.left = c.size /\ c.size > 0
         /\ Position(c) = 3 => /\ c.left \in 0..c.size /\ (n = 0 => c.left > 0)
                               /\ c.used - 3 - n <= c.size - c.left

\* Handles a call of kind k holds after n requests of its script went well.
Holding(k, n) ==
  CASE k \in {"chunk", "dfs", "disconnect"} -> 0
    [] k = "close" -> 1 - n
    [] k = "open" -> n
    [] k = "copy" -> IF n < 3 THEN n ELSE IF n < 5 THEN 2 ELSE 6 - n
    [] k = "copyempty" -> IF n < 3 THEN n ELSE 4 - n
    [] OTHER -> IF 0 < n /\ n < Len(Operations[k].script) THEN 1 ELSE 0

\* The number of handles of a call whose present request has (n = 1) or has not
\* (n = 0) been carried out.
Holds(c, n) ==
  Len(c.mine) = IF c.failing = "no" THEN Holding(c.kind, Position(c) + n)
                ELSE Len(c.plan) - n

\* The same for one whose request failed: a CREATE has made no handle.
HoldsAfterFailure(c) ==
  Holds(c, IF Head(c.plan) = "CREATE" THEN 0 ELSE 1)

\* The session's counter id and the highest id w on the wire agree with the
\* way the call's ids are charged.
Numbered(c, id, w) ==
  CASE Operations[c.kind].charge = "each" -> id > w
    [] Operations[c.kind].charge = "reserved" ->
         id = c.base + Operations[c.kind].reserve /\ w < c.base + c.used
    [] OTHER -> id = c.base /\ w < c.base + c.used

\* Handles the n-th call opened that are open at the server, were not refused a
\* CLOSE and have not been returned.
Own(n, o, s, h) == {x \in o : x[1] = n} \ (s \cup h)

\* What holds of the call in progress.
CallInv(c) ==
  /\ Planned(c)
  /\ Counted(c, IF c.stage = "ready" THEN 0 ELSE 1)
  /\ CASE c.stage = "done" -> Holds(c, 1)
       [] c.stage = "refused" -> HoldsAfterFailure(c)
       [] OTHER -> Holds(c, 0)

\* The counter is past every id on the wire, at the latest when the call is over.
IdsInv == ~lapsed => IF call = NoCall THEN next > wire ELSE Numbered(call, next, wire)

\* Open handles belong to calls made so far, none is open on a closed socket,
\* and the call in progress knows its own.
HandlesInv ==
  /\ \A h \in open : h[1] <= calls
  /\ peer = "closed" => open = {}
  /\ call # NoCall => Own(calls, open, stuck, held) \subseteq Range(call.mine)

\* The inductive invariant.
SessionInv == /\ Typed
              /\ call # NoCall => CallInv(call)
              /\ IdsInv
              /\ HandlesInv

-----------------------------------------------------------------------------
(* The table of calls. *)

\* What the proofs use of an entry of the table.
Entry(k) ==
  LET o == Operations[k] IN
  /\ o.script \in Seq(Requests) /\ Len(o.script) > 0 /\ o.reserve \in Nat
  /\ o.charge \in {"reserved", "each", "reported", "three"}
  /\ o.charge = "reserved" => o.reserve = Len(o.script)
  /\ o.charge \in {"reported", "three"} => o.reserve = 0
  /\ o.charge = "three" /\ k # "list" => Len(o.script) <= 3
  /\ k \in Copies => o.charge = "each"
  /\ k = "shares" => o.charge = "reported"
  /\ k = "list" => o.charge = "three"
  /\ o.charge = "reported" /\ k \notin {"stat", "setmeta", "getmeta"}
       => o.noticed = {} /\ \A i \in 2..Len(o.script) : o.script[i] \notin o.guarded
  /\ \A i \in 1..Len(o.script) : /\ o.script[i] = "QUERY" => k = "list" /\ i = 2
                                 /\ o.script[i] = "CHUNK" => k = "copy" /\ i = 4

\* The kinds of calls.
LEMMA KindLemma ==
  Kind = {"list", "read", "write", "touch", "open", "chunk", "close", "stat",
          "setmeta", "getmeta", "mkdir", "mutate", "symlink", "watch", "shares",
          "dfs", "copy", "copyempty", "disconnect"}
  BY DEF Kind, Operations

\* What Holding says of the handles of a call of kind k, request by request.
Balanced(k) ==
  LET s == Operations[k].script IN
  /\ Holding(k, 0) = (IF k = "close" THEN 1 ELSE 0)
  /\ k # "open" => Holding(k, Len(s)) = 0
  /\ k = "shares" => \A i \in 1..Len(s) : s[i] = "CLOSE" => i = Len(s)
  /\ \A i \in 1..Len(s) :
       /\ Holding(k, i) \in Nat
       /\ s[i] = "CREATE" => Holding(k, i) = Holding(k, i - 1) + 1
       /\ s[i] = "CLOSE" => Holding(k, i - 1) = Holding(k, i) + 1
       /\ s[i] \notin {"CREATE", "CLOSE"} => Holding(k, i) = Holding(k, i - 1)

\* The whole table, entry by entry.
LEMMA TableLemma == \A k \in Kind : Entry(k) /\ Balanced(k)
  <1> SUFFICES ASSUME NEW k \in Kind PROVE Entry(k) /\ Balanced(k)
    OBVIOUS
  <1> USE DEF Entry, Balanced, Holding, Operation, Requests, Copies
  <1>1. CASE k = "list"
    <2>1. Operations[k] = List
      BY <1>1 DEF Operations
    <2> QED
      BY <1>1, <2>1 DEF List
  <1>2. CASE k = "read"
    <2>1. Operations[k] = ReadOnce
      BY <1>2 DEF Operations
    <2> QED
      BY <1>2, <2>1 DEF ReadOnce
  <1>3. CASE k = "write"
    <2>1. Operations[k] = WriteOnce
      BY <1>3 DEF Operations
    <2> QED
      BY <1>3, <2>1 DEF WriteOnce
  <1>4. CASE k = "touch"
    <2>1. Operations[k] = WriteEmpty
      BY <1>4 DEF Operations
    <2> QED
      BY <1>4, <2>1 DEF WriteEmpty
  <1>5. CASE k = "open"
    <2>1. Operations[k] = OpenForRead
      BY <1>5 DEF Operations
    <2> QED
      BY <1>5, <2>1 DEF OpenForRead
  <1>6. CASE k = "chunk"
    <2>1. Operations[k] = ReadChunk
      BY <1>6 DEF Operations
    <2> QED
      BY <1>6, <2>1 DEF ReadChunk
  <1>7. CASE k = "close"
    <2>1. Operations[k] = CloseHandle
      BY <1>7 DEF Operations
    <2> QED
      BY <1>7, <2>1 DEF CloseHandle
  <1>8. CASE k = "stat"
    <2>1. Operations[k] = Stat
      BY <1>8 DEF Operations
    <2> QED
      BY <1>8, <2>1 DEF Stat
  <1>9. CASE k = "setmeta"
    <2>1. Operations[k] = SetMetadata
      BY <1>9 DEF Operations
    <2> QED
      BY <1>9, <2>1 DEF SetMetadata, Metadata
  <1>10. CASE k = "getmeta"
    <2>1. Operations[k] = QueryMetadata
      BY <1>10 DEF Operations
    <2> QED
      BY <1>10, <2>1 DEF QueryMetadata, Metadata
  <1>11. CASE k = "mkdir"
    <2>1. Operations[k] = CreateDirectory
      BY <1>11 DEF Operations
    <2> QED
      BY <1>11, <2>1 DEF CreateDirectory
  <1>12. CASE k = "mutate"
    <2>1. Operations[k] = MutateObject
      BY <1>12 DEF Operations
    <2> QED
      BY <1>12, <2>1 DEF MutateObject
  <1>13. CASE k = "symlink"
    <2>1. Operations[k] = CreateSymbolicLink
      BY <1>13 DEF Operations
    <2> QED
      BY <1>13, <2>1 DEF CreateSymbolicLink
  <1>14. CASE k = "watch"
    <2>1. Operations[k] = WatchOnce
      BY <1>14 DEF Operations
    <2> QED
      BY <1>14, <2>1 DEF WatchOnce
  <1>15. CASE k = "shares"
    <2>1. Operations[k] = ListShares
      BY <1>15 DEF Operations
    <2> QED
      BY <1>15, <2>1 DEF ListShares
  <1>16. CASE k = "dfs"
    <2>1. Operations[k] = DfsReferrals
      BY <1>16 DEF Operations
    <2> QED
      BY <1>16, <2>1 DEF DfsReferrals
  <1>17. CASE k = "copy"
    <2>1. Operations[k] = Copy
      BY <1>17 DEF Operations
    <2> QED
      BY <1>17, <2>1 DEF Copy
  <1>18. CASE k = "copyempty"
    <2>1. Operations[k] = CopyEmpty
      BY <1>18 DEF Operations
    <2> QED
      BY <1>18, <2>1 DEF CopyEmpty, Copy
  <1>19. CASE k = "disconnect"
    <2>1. Operations[k] = Disconnect
      BY <1>19 DEF Operations
    <2> QED
      BY <1>19, <2>1 DEF Disconnect
  <1> QED
    BY KindLemma, <1>1, <1>2, <1>3, <1>4, <1>5, <1>6, <1>7, <1>8, <1>9,
       <1>10, <1>11, <1>12, <1>13, <1>14, <1>15, <1>16, <1>17, <1>18, <1>19

-----------------------------------------------------------------------------
(* How a call goes on or ends. *)

\* What the steps that end a request bring about, when w, o and s are the new
\* values of wire, open and stuck.
Outcome(w, o, s) ==
  /\ next' \in Nat /\ held' \in SUBSET Handles
  /\ lapsed' \in BOOLEAN /\ disconnected' \in BOOLEAN
  /\ call' \in Calls \cup {NoCall}
  /\ call' # NoCall => CallInv(call') /\ Own(calls, o, s, held') \subseteq Range(call'.mine)
  /\ ~lapsed' => IF call' = NoCall THEN next' > w ELSE Numbered(call', next', w)

\* A call that is over released its handles.
Releases(o, s) == call' = NoCall => Own(calls, o, s, held') = {}

\* No call in progress is taken for none.
LEMMA NoCallLemma == NoCall \notin Calls
  BY DEF NoCall, Calls

\* No call uses more ids than were reserved for it, and one that is charged
\* three when it fails has used no more, except for a listing.
LEMMA UsedLemma ==
  ASSUME NEW c \in Calls, NEW n \in {0, 1}, Planned(c), Counted(c, n)
  PROVE  /\ Operations[c.kind].charge = "reserved" => c.used <= Operations[c.kind].reserve
         /\ Operations[c.kind].charge = "three" /\ c.kind # "list" => c.used <= 3
  <1>1. c.kind \in Kind /\ c.used \in Nat /\ Len(c.plan) \in Nat
    BY DEF Calls
  <1>2. Entry(c.kind)
    BY <1>1, TableLemma
  <1>3. Len(Script(c)) \in Nat
    BY <1>2 DEF Entry, Script
  <1>4. c.kind \in Copies \cup {"shares"} => Operations[c.kind].charge \in {"each", "reported"}
    BY <1>2 DEF Entry
  <1>5. c.failing = "no" /\ c.kind \notin {"list", "copy"} => c.used <= Len(Script(c))
    <2>1. c.failing = "no" /\ c.kind \notin {"list", "copy"}
            => c.used = Len(Script(c)) - Len(c.plan) + n
      BY DEF Counted, Position
    <2>2. Len(c.plan) > 0
      BY DEF Planned
    <2>3. \A x, y \in Nat : y > 0 => x - y + n <= x
      OBVIOUS
    <2> QED
      BY <1>1, <1>3, <2>1, <2>2, <2>3
  <1>6. c.kind \in {"list", "copy"} => Operations[c.kind].charge \in {"each", "three"}
    BY <1>2 DEF Entry, Copies
  <1>7. c.failing # "no" => c.kind \in Copies \cup {"shares"}
    BY DEF Planned
  <1>8. c.kind = "copy" => Operations[c.kind].charge = "each"
    BY <1>2 DEF Entry, Copies
  <1> QED
    BY <1>1, <1>2, <1>3, <1>4, <1>5, <1>6, <1>7, <1>8 DEF Entry, Script

\* A call that returns has accounted for its ids or has undercounted.
LEMMA ReturnLemma ==
  ASSUME NEW c \in Calls, NEW n \in {0, 1}, Planned(c), Counted(c, n),
         NEW r \in {"ok", "error", "cancelled"}, NEW own \in BOOLEAN, NEW id \in Nat,
         NEW w \in Nat, NEW o, NEW s, Typed, ~lapsed => Numbered(c, id, w),
         own => r # "ok" /\ (\/ c.used = 0 \/ c.kind \in {"stat", "setmeta", "getmeta"}
                             \/ Operations[c.kind].charge # "reported"),
         Return(c, r, own, id)
  PROVE  Outcome(w, o, s)
  <1>1. c.kind \in Kind /\ c.used \in Nat /\ c.base \in Nat
    BY DEF Calls
  <1>2. Entry(c.kind)
    BY <1>1, TableLemma
  <1>3. PICK g : g = Settled(c, r, own)
    OBVIOUS
  <1>4. g \in Nat
    BY <1>1, <1>3 DEF Settled, Reported
  <1>5. next' = id + g
    BY <1>3 DEF Return
  <1>6. call' = NoCall /\ next' \in Nat
    BY <1>4, <1>5 DEF Return
  <1>7. held' \in SUBSET Handles
    <2>1. Range(c.mine) \subseteq Handles
      BY DEF Calls, Range
    <2> QED
      BY <2>1 DEF Return, Typed
  <1>8. lapsed' \in BOOLEAN /\ disconnected' \in BOOLEAN
    BY DEF Return
  <1>9. ASSUME ~lapsed' PROVE next' > w
    <2>1. ~lapsed /\ ~Undercounts(c, r, own)
      BY <1>9 DEF Return, Typed
    <2>2. Numbered(c, id, w)
      BY <2>1
    <2>3. CASE Operations[c.kind].charge = "each"
      BY <1>4, <1>5, <2>2, <2>3 DEF Numbered
    <2>4. CASE Operations[c.kind].charge = "reserved"
      <3>1. c.used <= Operations[c.kind].reserve /\ Operations[c.kind].reserve \in Nat
        BY <1>2, <2>4, UsedLemma DEF Entry
      <3>2. id = c.base + Operations[c.kind].reserve /\ w < c.base + c.used
        BY <2>2, <2>4 DEF Numbered
      <3> QED
        BY <1>1, <1>4, <1>5, <3>1, <3>2
    <2>5. CASE Operations[c.kind].charge = "reported"
      <3>1. id = c.base /\ w < c.base + c.used
        BY <2>2, <2>5 DEF Numbered
      <3>2. g = IF own THEN 0 ELSE c.used
        BY <1>3, <2>5 DEF Settled, Reported
      <3>3. own => c.used = 0
        BY <1>1, <2>1, <2>5 DEF Undercounts
      <3> QED
        BY <1>1, <1>5, <3>1, <3>2, <3>3
    <2>6. CASE Operations[c.kind].charge = "three"
      <3>1. id = c.base /\ w < c.base + c.used
        BY <2>2, <2>6 DEF Numbered
      <3>2. g = IF r = "ok" THEN c.used ELSE 3
        BY <1>3, <2>6 DEF Settled
      <3>3. r # "ok" => c.used <= 3
        BY <1>1, <2>1, <2>6, UsedLemma DEF Undercounts
      <3> QED
        BY <1>1, <1>5, <3>1, <3>2, <3>3
    <2> QED
      BY <1>2, <2>3, <2>4, <2>5, <2>6 DEF Entry
  <1> QED
    BY <1>6, <1>7, <1>8, <1>9 DEF Outcome

\* A call that goes on to its next request keeps its invariant if what it goes
\* on with has.
LEMMA ContinueLemma ==
  ASSUME NEW c \in Calls, NEW id \in Nat, NEW w \in Nat, NEW o, NEW s, Typed,
         Planned(c), Counted(c, 0), Holds(c, 0),
         ~lapsed => Numbered(c, id, w),
         Own(calls, o, s, held) \subseteq Range(c.mine), Continue(c, id)
  PROVE  Outcome(w, o, s) /\ call' # NoCall
  <1>1. PICK d : d = [c EXCEPT !.stage = "ready"]
    OBVIOUS
  <1>2. call' = d
    BY <1>1 DEF Continue
  <1>3. /\ d \in Calls
        /\ d.kind = c.kind /\ d.plan = c.plan /\ d.failing = c.failing /\ d.used = c.used
        /\ d.mine = c.mine /\ d.left = c.left /\ d.size = c.size /\ d.base = c.base
        /\ d.stage = "ready"
    BY <1>1 DEF Calls
  <1>4. call' # NoCall /\ call' \in Calls
    BY <1>2, <1>3, NoCallLemma
  <1>5. Planned(d)
    BY <1>3 DEF Planned, Position, Script
  <1>6. Counted(d, 0)
    BY <1>3 DEF Counted, Position, Script
  <1>7. Holds(d, 0)
    BY <1>3 DEF Holds, Position, Script
  <1>8. CallInv(call')
    BY <1>2, <1>3, <1>5, <1>6, <1>7 DEF CallInv
  <1>9. Own(calls, o, s, held') \subseteq Range(call'.mine)
    BY <1>2, <1>3 DEF Continue
  <1>10. ~lapsed' => Numbered(call', next', w)
    BY <1>2, <1>3 DEF Continue, Numbered
  <1>11. /\ next' \in Nat /\ held' \in SUBSET Handles
         /\ lapsed' \in BOOLEAN /\ disconnected' \in BOOLEAN
    BY DEF Continue, Typed
  <1> QED
    BY <1>4, <1>8, <1>9, <1>10, <1>11 DEF Outcome

\* A request that went well, or whose failure is ignored, leads to the next one
\* or to the end of the call; by then the call's handles are released.
LEMMA AdvanceLemma ==
  ASSUME NEW c \in Calls, NEW id \in Nat, NEW w \in Nat, NEW o, NEW s, Typed,
         Planned(c), Counted(c, 1), Holds(c, 1),
         ~lapsed => Numbered(c, id, w),
         Own(calls, o, s, held) \subseteq Range(c.mine), Advance(c, id)
  PROVE  Outcome(w, o, s) /\ Releases(o, s)
  <1>1. /\ c.kind \in Kind /\ c.plan \in Seq(Requests) /\ c.mine \in Seq(Handles)
        /\ c.used \in Nat /\ c.left \in Nat /\ c.size \in Nat
        /\ c.failing \in {"no", "error", "cancelled"}
    BY DEF Calls
  <1>2. Entry(c.kind) /\ Balanced(c.kind)
    BY <1>1, TableLemma
  <1>3. Len(c.plan) \in Nat /\ Len(Script(c)) \in Nat
    BY <1>1, <1>2 DEF Entry, Script
  <1>4. CASE Len(c.plan) = 1
    <2>1. PICK r : r = (IF c.failing = "no" THEN "ok" ELSE c.failing)
      OBVIOUS
    <2>2. r \in {"ok", "error", "cancelled"}
      BY <1>1, <2>1
    <2>3. Return(c, r, FALSE, id)
      BY <1>4, <2>1 DEF Advance
    <2>4. Outcome(w, o, s)
      BY <2>2, <2>3, ReturnLemma
    <2>5. CASE c.kind = "open" /\ c.failing = "no"
      <3>1. held' = held \cup Range(c.mine)
        BY <2>1, <2>3, <2>5 DEF Return
      <3> QED
        BY <2>4, <3>1 DEF Releases, Own
    <2>6. CASE ~(c.kind = "open" /\ c.failing = "no")
      <3>1. held' = held
        BY <1>1, <2>1, <2>3, <2>6 DEF Return
      <3>2. Len(c.mine) = 0
        <4>1. CASE c.failing = "no"
          <5>1. Position(c) + 1 = Len(Script(c))
            BY <1>3, <1>4 DEF Position
          <5> QED
            BY <1>2, <2>6, <4>1, <5>1 DEF Holds, Balanced, Script
        <4>2. CASE c.failing # "no"
          BY <1>4, <4>2 DEF Holds
        <4> QED
          BY <4>1, <4>2
      <3>3. Range(c.mine) = {}
        BY <1>1, <3>2 DEF Range
      <3> QED
        BY <2>4, <3>1, <3>3 DEF Releases
    <2> QED
      BY <2>5, <2>6
  <1>5. CASE Len(c.plan) # 1
    <2>0. Len(c.plan) > 0
      BY DEF Planned
    <2>1. Len(c.plan) > 1
      <3>1. \A x \in Nat : x > 0 /\ x # 1 => x > 1
        OBVIOUS
      <3> QED
        BY <1>3, <1>5, <2>0, <3>1
    <2>2. PICK d : d = [c EXCEPT !.plan = Tail(c.plan)]
      OBVIOUS
    <2>3. /\ Tail(c.plan) \in Seq(Requests) /\ Len(Tail(c.plan)) = Len(c.plan) - 1
          /\ \A j \in 1..(Len(c.plan) - 1) : Tail(c.plan)[j] = c.plan[j + 1]
      BY <1>1, <2>1
    <2>4. /\ d \in Calls
          /\ d.kind = c.kind /\ d.plan = Tail(c.plan) /\ d.failing = c.failing
          /\ d.used = c.used /\ d.mine = c.mine /\ d.left = c.left /\ d.size = c.size
          /\ d.base = c.base
      BY <2>2, <2>3 DEF Calls
    <2>5. Continue(d, id)
      BY <1>5, <2>2 DEF Advance
    <2>6. Script(d) = Script(c) /\ Position(d) = Position(c) + 1 /\ Position(c) \in Int
      <3>1. Script(d) = Script(c)
        BY <2>4 DEF Script
      <3>2. Len(d.plan) = Len(c.plan) - 1
        BY <2>3, <2>4
      <3> QED
        BY <1>3, <3>1, <3>2 DEF Position
    <2>7. Planned(d)
      <3>1. Len(d.plan) > 0
        BY <1>3, <2>1, <2>3, <2>4
      <3>2. CASE c.failing = "no"
        <4>1. Len(d.plan) <= Len(Script(d))
          BY <1>3, <2>3, <2>4, <2>6, <3>2 DEF Planned
        <4>2. ASSUME NEW j \in 1..Len(d.plan)
              PROVE  d.plan[j] = Script(d)[Position(d) + j]
          <5>1. j + 1 \in 1..Len(c.plan) /\ d.plan[j] = c.plan[j + 1]
            BY <1>3, <2>3, <2>4
          <5>2. c.plan[j + 1] = Script(c)[Position(c) + (j + 1)]
            BY <3>2, <5>1 DEF Planned
          <5>3. Position(c) + (j + 1) = Position(d) + j
            BY <2>6
          <5> QED
            BY <2>6, <5>1, <5>2, <5>3
        <4> QED
          BY <2>4, <3>1, <3>2, <4>1, <4>2 DEF Planned
      <3>3. CASE c.failing # "no"
        <4>1. ASSUME NEW j \in 1..Len(d.plan) PROVE d.plan[j] = "CLOSE"
          BY <1>3, <2>3, <2>4, <3>3 DEF Planned
        <4> QED
          BY <2>4, <3>1, <3>3, <4>1 DEF Planned
      <3> QED
        BY <3>2, <3>3
    <2>8. Counted(d, 0)
      <3>1. c.failing = "no" /\ c.kind \notin {"list", "copy"} => d.used = Position(d) + 0
        BY <1>1, <2>4, <2>6 DEF Counted
      <3>2. ASSUME c.failing = "no", c.kind = "copy", Position(d) \in {1, 2, 3} \/ Position(d) < 1
            PROVE  d.used = Position(d) + 0 /\ d.left = d.size /\ d.size > 0
        BY <1>1, <2>4, <2>6, <3>2 DEF Counted
      <3>3. Position(d) < 3 \/ Position(d) = 3 => Position(d) \in {1, 2, 3} \/ Position(d) < 1
        BY <2>6
      <3>4. Position(d) = 3 /\ d.used = Position(d) + 0 /\ d.left = d.size /\ d.size > 0
              => /\ d.left \in 0..d.size /\ d.left > 0
                 /\ d.used - 3 - 0 <= d.size - d.left
        BY <1>1, <2>4
      <3> QED
        BY <2>4, <3>1, <3>2, <3>3, <3>4 DEF Counted
    <2>9. Holds(d, 0)
      BY <1>3, <2>3, <2>4, <2>6 DEF Holds
    <2>10. ~lapsed => Numbered(d, id, w)
      BY <2>4 DEF Numbered
    <2>11. Outcome(w, o, s) /\ call' # NoCall
      BY <2>4, <2>5, <2>7, <2>8, <2>9, <2>10, ContinueLemma
    <2> QED
      BY <2>11 DEF Releases
  <1> QED
    BY <1>4, <1>5

\* A failed request ends the call or begins its cleanup.  A copy and a share
\* enumeration have released their handles by the end.
LEMMA FailLemma ==
  ASSUME NEW c \in Calls, NEW n \in {0, 1}, Planned(c), Counted(c, n),
         NEW r \in {"error", "cancelled"}, NEW own \in BOOLEAN, NEW id \in Nat,
         NEW w \in Nat, NEW o, NEW s, Typed, ~lapsed => Numbered(c, id, w),
         own => \/ c.used = 0 \/ c.kind \in {"stat", "setmeta", "getmeta"}
                \/ Operations[c.kind].charge # "reported",
         Ignored(c) => n = 1 /\ Holds(c, 1),
         \/ Own(calls, o, s, held) \subseteq Range(c.mine)
         \/ ~Ignored(c) /\ (c.kind \in Copies \cup {"shares"} => c.mine = <<>>),
         Fail(c, r, own, id)
  PROVE  /\ Outcome(w, o, s)
         /\ result' = "ok" /\ call' = NoCall => Releases(o, s)
         /\ c.kind \in Copies \cup {"shares"} /\ Own(calls, o, s, held) \subseteq Range(c.mine)
              => Releases(o, s)
  <1>1. CASE Ignored(c)
    BY <1>1, AdvanceLemma DEF Fail
  <1>2. CASE ~Ignored(c) /\ c.kind \in Copies \cup {"shares"} /\ c.mine # <<>>
    <2>1. c.mine \in Seq(Handles) /\ Len(c.mine) \in Nat
      BY DEF Calls
    <2>2. DOMAIN c.mine = 1..Len(c.mine) /\ Len(c.mine) > 0
      BY <1>2, <2>1
    <2>3. PICK p : p = [i \in DOMAIN c.mine |-> "CLOSE"]
      OBVIOUS
    <2>4. p \in Seq(Requests) /\ Len(p) = Len(c.mine)
      BY <2>1, <2>2, <2>3 DEF Requests
    <2>5. \A j \in 1..Len(p) : p[j] = "CLOSE"
      BY <2>2, <2>3, <2>4
    <2>6. PICK d : d = [c EXCEPT !.plan = p, !.failing = r]
      OBVIOUS
    <2>7. Continue(d, id)
      BY <1>2, <2>3, <2>6 DEF Fail
    <2>8. /\ d \in Calls /\ d.plan = p /\ d.failing = r /\ d.kind = c.kind
          /\ d.mine = c.mine /\ d.base = c.base /\ d.used = c.used
      BY <2>4, <2>6 DEF Calls
    <2>9. Planned(d)
      BY <1>2, <2>1, <2>2, <2>4, <2>5, <2>8 DEF Planned
    <2>10. Counted(d, 0)
      BY <2>8 DEF Counted
    <2>11. Holds(d, 0)
      BY <2>1, <2>4, <2>8 DEF Holds
    <2>12. ~lapsed => Numbered(d, id, w)
      BY <2>8 DEF Numbered
    <2>13. Own(calls, o, s, held) \subseteq Range(d.mine)
      BY <1>2, <2>8
    <2>14. Outcome(w, o, s) /\ call' # NoCall
      BY <2>7, <2>8, <2>9, <2>10, <2>11, <2>12, <2>13, ContinueLemma
    <2> QED
      BY <2>14 DEF Releases
  <1>3. CASE ~Ignored(c) /\ ~(c.kind \in Copies \cup {"shares"} /\ c.mine # <<>>)
    <2>1. Return(c, r, own, id)
      BY <1>3 DEF Fail
    <2>2. Outcome(w, o, s)
      BY <2>1, ReturnLemma
    <2>3. result' = r
      BY <2>1 DEF Return
    <2>4. c.kind \in Copies \cup {"shares"} => held' = held
      BY <2>1 DEF Return, Copies
    <2>5. c.kind \in Copies \cup {"shares"} => Range(c.mine) = {}
      BY <1>3 DEF Range
    <2> QED
      BY <2>2, <2>3, <2>4, <2>5 DEF Releases
  <1> QED
    BY <1>1, <1>2, <1>3

-----------------------------------------------------------------------------
(* The request at hand. *)

\* The request at hand is the next of the script, or a CLOSE.
LEMMA RequestLemma ==
  ASSUME NEW c \in Calls, Planned(c)
  PROVE  /\ Head(c.plan) \in Requests
         /\ c.failing = "no" => /\ Position(c) + 1 \in 1..Len(Script(c)) /\ Position(c) \in Nat
                                /\ Head(c.plan) = Script(c)[Position(c) + 1]
         /\ c.failing # "no" => Head(c.plan) = "CLOSE" /\ c.kind \in Copies \cup {"shares"}
  <1>1. c.plan \in Seq(Requests) /\ c.kind \in Kind /\ Len(c.plan) \in Nat
    BY DEF Calls
  <1>2. Len(c.plan) > 0
    BY DEF Planned
  <1>3. Head(c.plan) = c.plan[1] /\ c.plan[1] \in Requests /\ 1 \in 1..Len(c.plan)
    BY <1>1, <1>2
  <1>4. Len(Script(c)) \in Nat
    BY <1>1, TableLemma DEF Entry, Script
  <1>5. CASE c.failing = "no"
    <2>1. Len(c.plan) <= Len(Script(c))
      BY <1>5 DEF Planned
    <2>2. Position(c) + 1 \in 1..Len(Script(c)) /\ Position(c) \in Nat
      BY <1>1, <1>2, <1>4, <2>1 DEF Position
    <2>3. c.plan[1] = Script(c)[Position(c) + 1]
      BY <1>3, <1>5 DEF Planned
    <2> QED
      BY <1>3, <1>5, <2>2, <2>3
  <1>6. CASE c.failing # "no"
    BY <1>3, <1>6 DEF Planned
  <1> QED
    BY <1>5, <1>6

\* The call once its request has been tried, and the handle the request closes.
Tried(c) == [c EXCEPT !.mine = IF Head(c.plan) = "CLOSE"
                               THEN SubSeq(@, 1, Len(@) - 1) ELSE @]

\* The handle that is closed.
Closed(c) == IF Head(c.plan) = "CLOSE" THEN {c.mine[Len(c.mine)]} ELSE {}

\* A row of handles without the last.
LEMMA FrontLemma ==
  ASSUME NEW w \in Seq(Handles), Len(w) > 0
  PROVE  LET f == SubSeq(w, 1, Len(w) - 1) IN
         /\ f \in Seq(Handles) /\ Len(f) = Len(w) - 1
         /\ Range(w) \subseteq Range(f) \cup {w[Len(w)]} /\ w[Len(w)] \in Handles
  <1>1. PICK f : f = SubSeq(w, 1, Len(w) - 1)
    OBVIOUS
  <1>2. /\ f \in Seq(Handles) /\ Len(f) = Len(w) - 1 /\ Len(w) \in Nat /\ Len(f) \in Nat
        /\ \A i \in 1..(Len(w) - 1) : f[i] = w[i]
    <2>1. Len(w) \in Nat /\ Len(w) - 1 \in 0..Len(w) /\ 1 \in 1..(Len(w) + 1)
      OBVIOUS
    <2>2. /\ SubSeq(w, 1, Len(w) - 1) \in Seq(Handles)
          /\ Len(SubSeq(w, 1, Len(w) - 1)) = Len(w) - 1
          /\ \A i \in 1..(Len(w) - 1) : SubSeq(w, 1, Len(w) - 1)[i] = w[i]
      <3>1. \A i \in 1..(Len(w) - 1) : w[i] \in Handles
        BY <2>1
      <3>2. SubSeq(w, 1, Len(w) - 1) = [i \in 1..(Len(w) - 1) |-> w[i]]
        BY <2>1
      <3>3. ASSUME NEW k \in Nat, \A i \in 1..k : w[i] \in Handles
            PROVE  /\ [i \in 1..k |-> w[i]] \in Seq(Handles)
                   /\ Len([i \in 1..k |-> w[i]]) = k
                   /\ \A i \in 1..k : [j \in 1..k |-> w[j]][i] = w[i]
        BY <3>3
      <3>4. PICK k \in Nat : k = Len(w) - 1
        BY <2>1
      <3> QED
        BY <3>1, <3>2, <3>3, <3>4
    <2> QED
      BY <1>1, <2>1, <2>2
  <1>3. w[Len(w)] \in Handles
    BY <1>2
  <1>4. ASSUME NEW h \in Range(w), h # w[Len(w)] PROVE h \in Range(f)
    <2>1. PICK i \in 1..Len(w) : h = w[i]
      BY DEF Range
    <2>2. i \in 1..(Len(w) - 1)
      BY <1>2, <1>4, <2>1
    <2>3. i \in DOMAIN f /\ f[i] = h
      BY <1>2, <2>1, <2>2
    <2> QED
      BY <2>3 DEF Range
  <1> QED
    BY <1>1, <1>2, <1>3, <1>4

\* Trying a request changes nothing but the handles, and gives up the one it
\* closes.
LEMMA TriedLemma ==
  ASSUME NEW c \in Calls, Planned(c), Holds(c, 0), NEW d, d = Tried(c)
  PROVE  /\ d \in Calls
         /\ d.kind = c.kind /\ d.plan = c.plan /\ d.failing = c.failing
         /\ d.used = c.used /\ d.base = c.base /\ d.size = c.size /\ d.left = c.left
         /\ d.stage = c.stage
         /\ Closed(c) \subseteq Handles
         /\ Range(c.mine) \subseteq Range(d.mine) \cup Closed(c)
         /\ Head(c.plan) # "CLOSE" => d.mine = c.mine
         /\ HoldsAfterFailure(d)
         /\ c.kind = "shares" /\ c.failing = "no" /\ Head(c.plan) = "CLOSE" => d.mine = <<>>
  <1>1. c.mine \in Seq(Handles) /\ c.kind \in Kind /\ Len(c.plan) \in Nat /\ Len(c.mine) \in Nat
    BY DEF Calls
  <1>2. Entry(c.kind) /\ Balanced(c.kind)
    BY <1>1, TableLemma
  <1>3. Len(c.plan) > 0
    BY DEF Planned
  <1>4. c.failing = "no" => /\ Position(c) + 1 \in 1..Len(Script(c)) /\ Position(c) \in Nat
                            /\ Head(c.plan) = Script(c)[Position(c) + 1]
    BY RequestLemma
  <1>5. PICK i : i = Position(c) + 1
    OBVIOUS
  <1>6. c.failing = "no" => i - 1 = Position(c)
    BY <1>4, <1>5
  <1>7. c.failing = "no" => Len(c.mine) = Holding(c.kind, i - 1) /\ Holding(c.kind, i) \in Nat
    <2>1. c.failing = "no" => Len(c.mine) = Holding(c.kind, i - 1)
      <3>1. c.failing = "no" => Position(c) + 0 = Position(c)
        BY <1>4
      <3> QED
        BY <1>6, <3>1 DEF Holds
    <2> QED
      BY <1>2, <1>4, <1>5, <2>1 DEF Balanced, Script
  <1>8. CASE Head(c.plan) = "CLOSE"
    <2>1. c.failing = "no" => Holding(c.kind, i - 1) = Holding(c.kind, i) + 1
      BY <1>2, <1>4, <1>5, <1>8 DEF Balanced, Script
    <2>2. c.failing # "no" => Len(c.mine) = Len(c.plan)
      BY <1>1 DEF Holds
    <2>3. Len(c.mine) > 0
      BY <1>1, <1>3, <1>7, <2>1, <2>2
    <2>4. PICK f : f = SubSeq(c.mine, 1, Len(c.mine) - 1)
      OBVIOUS
    <2>5. /\ f \in Seq(Handles) /\ Len(f) = Len(c.mine) - 1
          /\ Range(c.mine) \subseteq Range(f) \cup {c.mine[Len(c.mine)]}
          /\ c.mine[Len(c.mine)] \in Handles
      BY <1>1, <2>3, <2>4, FrontLemma
    <2>6. d = [c EXCEPT !.mine = f]
      BY <1>8, <2>4 DEF Tried
    <2>7. /\ d \in Calls /\ d.mine = f
          /\ d.kind = c.kind /\ d.plan = c.plan /\ d.failing = c.failing
          /\ d.used = c.used /\ d.base = c.base /\ d.size = c.size /\ d.left = c.left
          /\ d.stage = c.stage
      BY <2>5, <2>6 DEF Calls
    <2>8. Position(d) = Position(c)
      BY <2>7 DEF Position, Script
    <2>9. Holds(d, 1)
      <3>1. CASE c.failing = "no"
        <4>1. Len(f) = Holding(c.kind, i)
          BY <1>1, <1>7, <2>1, <2>5, <3>1
        <4> QED
          BY <1>5, <2>7, <2>8, <3>1, <4>1 DEF Holds
      <3>2. CASE c.failing # "no"
        BY <1>1, <2>2, <2>5, <2>7, <3>2 DEF Holds
      <3> QED
        BY <3>1, <3>2
    <2>10. HoldsAfterFailure(d)
      BY <1>8, <2>7, <2>9 DEF HoldsAfterFailure
    <2>11. ASSUME c.kind = "shares", c.failing = "no" PROVE d.mine = <<>>
      <3>1. i = Len(Script(c))
        BY <1>2, <1>4, <1>5, <1>8, <2>11 DEF Balanced, Script
      <3>2. Holding(c.kind, i) = 0
        BY <1>2, <2>11, <3>1 DEF Balanced, Script
      <3>3. Len(f) = 0
        <4>1. Len(c.mine) = 0 + 1
          BY <1>7, <2>1, <2>11, <3>2
        <4> QED
          BY <2>5, <4>1
      <3> QED
        BY <2>5, <2>7, <3>3
    <2> QED
      BY <1>8, <2>5, <2>7, <2>10, <2>11 DEF Closed
  <1>9. CASE Head(c.plan) # "CLOSE"
    <2>1. d = c
      BY <1>9 DEF Tried, Calls
    <2>2. c.failing = "no"
      BY <1>9, RequestLemma
    <2>3. Head(c.plan) # "CREATE" => Holds(c, 1)
      <3>1. Head(c.plan) # "CREATE" => Holding(c.kind, i) = Holding(c.kind, i - 1)
        BY <1>2, <1>4, <1>5, <1>9, <2>2 DEF Balanced, Script
      <3> QED
        BY <1>5, <1>7, <2>2, <3>1 DEF Holds
    <2>4. HoldsAfterFailure(d)
      BY <2>1, <2>3 DEF HoldsAfterFailure
    <2> QED
      BY <1>9, <2>1, <2>4 DEF Closed
  <1> QED
    BY <1>8, <1>9

-----------------------------------------------------------------------------
(* The invariant is preserved. *)

\* What the handle properties ask of a step.
Released ==
  call # NoCall /\ call' = NoCall
    /\ \/ result' = "ok"
       \/ call.kind \in Copies
       \/ call.kind = "shares" /\ ~(token /\ call.plan = <<"CLOSE">>)
    => Own(calls, open', stuck', held') = {}

\* The steps that end a request leave the rest of the state as follows.
LEMMA OutcomeLemma ==
  ASSUME SessionInv, Outcome(wire', open', stuck'), wire' \in Nat,
         UNCHANGED <<stuck, token, calls>>,
         UNCHANGED <<peer, open>> \/ (peer' = "closed" /\ open' = {})
  PROVE  SessionInv'
  <1>1. Typed'
    <2>1. /\ calls' \in Nat /\ stuck' \subseteq Handles /\ token' \in BOOLEAN
          /\ peer' \in {"full", "treeless", "none", "closed"} /\ open' \subseteq Handles
      BY DEF SessionInv, Typed
    <2> QED
      BY <2>1 DEF Outcome, Typed
  <1>2. (call # NoCall => CallInv(call))'
    BY DEF Outcome
  <1>3. IdsInv'
    BY DEF Outcome, IdsInv
  <1>4. HandlesInv'
    <2>1. (\A h \in open : h[1] <= calls)' /\ (peer = "closed" => open = {})'
      BY DEF SessionInv, HandlesInv
    <2>2. (call # NoCall => Own(calls, open, stuck, held) \subseteq Range(call.mine))'
      BY DEF Outcome
    <2> QED
      BY <2>1, <2>2 DEF HandlesInv
  <1> QED
    BY <1>1, <1>2, <1>3, <1>4 DEF SessionInv

\* What the invariant says of the call in progress.
LEMMA CallLemma ==
  ASSUME SessionInv, call.stage \in {"ready", "sent", "done", "refused"}
  PROVE  /\ call \in Calls /\ call # NoCall /\ CallInv(call)
         /\ ~lapsed => Numbered(call, next, wire)
         /\ Own(calls, open, stuck, held) \subseteq Range(call.mine)
  <1>1. call # NoCall
    BY DEF NoCall
  <1> QED
    BY <1>1 DEF SessionInv, Typed, IdsInv, HandlesInv

\* The state of a call whose request was tried without getting to the server.
LEMMA IssuedLemma ==
  ASSUME SessionInv, call.stage = "ready", NEW c, c = Issued
  PROVE  /\ c \in Calls /\ Planned(c) /\ Counted(c, 1) /\ HoldsAfterFailure(c)
         /\ Allocated \in Nat
         /\ c.kind = call.kind /\ c.plan = call.plan /\ c.failing = call.failing
         /\ \A w \in Nat : w <= wire /\ ~lapsed => Numbered(c, Allocated, w)
         /\ Ignored(c) <=> Ignored(call)
         /\ Head(c.plan) # "CLOSE" => Own(calls, open, stuck, held) \subseteq Range(c.mine)
         /\ c.kind = "shares" /\ c.failing = "no" /\ Head(c.plan) = "CLOSE" => c.mine = <<>>
  <1>1. call \in Calls /\ CallInv(call) /\ Own(calls, open, stuck, held) \subseteq Range(call.mine)
    BY CallLemma
  <1>2. Planned(call) /\ Counted(call, 0) /\ Holds(call, 0)
    BY <1>1 DEF CallInv
  <1>3. PICK d : d = Tried(call)
    OBVIOUS
  <1>4. /\ d \in Calls
        /\ d.kind = call.kind /\ d.plan = call.plan /\ d.failing = call.failing
        /\ d.used = call.used /\ d.base = call.base /\ d.size = call.size /\ d.left = call.left
        /\ Head(call.plan) # "CLOSE" => d.mine = call.mine
        /\ HoldsAfterFailure(d)
        /\ call.kind = "shares" /\ call.failing = "no" /\ Head(call.plan) = "CLOSE"
             => d.mine = <<>>
    BY <1>1, <1>2, <1>3, TriedLemma
  <1>5. c = [d EXCEPT !.used = d.used + 1]
    BY <1>3 DEF Issued, Answered, Tried, Request
  <1>6. d.used \in Nat /\ d.base \in Nat /\ d.kind \in Kind
    BY <1>4 DEF Calls
  <1>7. /\ c \in Calls /\ c.mine = d.mine /\ c.used = call.used + 1
        /\ c.kind = call.kind /\ c.plan = call.plan /\ c.failing = call.failing
        /\ c.base = call.base /\ c.size = call.size /\ c.left = call.left
    BY <1>4, <1>5, <1>6, SMTT(30) DEF Calls
  <1>8. Script(c) = Script(call) /\ Position(c) = Position(call)
    BY <1>7 DEF Position, Script
  <1>9. Planned(c)
    BY <1>2, <1>7, <1>8 DEF Planned
  <1>10. Counted(c, 1)
    <2>1. call.failing = "no" => Position(call) \in Nat
      BY <1>1, <1>2, RequestLemma
    <2>2. call.used \in Nat /\ call.left \in Nat /\ call.size \in Nat
      BY <1>1 DEF Calls
    <2>3. call.failing = "no" /\ call.used = Position(call) + 0 => c.used = Position(c) + 1
      BY <1>7, <1>8, <2>1, <2>2
    <2>4. call.used - 3 - 0 <= call.size - call.left => c.used - 3 - 1 <= c.size - c.left
      BY <1>7, <2>2
    <2> QED
      BY <1>2, <1>7, <1>8, <2>3, <2>4 DEF Counted
  <1>11. HoldsAfterFailure(c)
    BY <1>4, <1>7 DEF HoldsAfterFailure, Holds, Position, Script
  <1>12. Allocated \in Nat
    BY DEF Allocated, SessionInv, Typed
  <1>13. ASSUME NEW w \in Nat, w <= wire, ~lapsed PROVE Numbered(c, Allocated, w)
    <2>1. Numbered(call, next, wire) /\ wire \in Nat /\ next \in Nat
      BY <1>13, CallLemma DEF SessionInv, Typed
    <2>2. call.used \in Nat /\ call.base \in Nat
      BY <1>1 DEF Calls
    <2>3. CASE Operations[call.kind].charge = "each"
      <3>1. Allocated = next + 1 /\ next > wire
        BY <2>1, <2>3 DEF Numbered, Allocated, Each
      <3>2. Allocated > w
        BY <1>13, <2>1, <3>1
      <3> QED
        BY <1>7, <2>3, <3>2 DEF Numbered
    <2>4. CASE Operations[call.kind].charge # "each"
      <3>1. Allocated = next
        BY <2>4 DEF Allocated, Each
      <3>2. wire < call.base + call.used
        BY <2>1, <2>4 DEF Numbered
      <3>3. w < c.base + c.used
        BY <1>7, <1>13, <2>1, <2>2, <3>2
      <3> QED
        BY <1>7, <2>1, <2>4, <3>1, <3>3 DEF Numbered
    <2> QED
      BY <2>3, <2>4
  <1>14. Ignored(c) <=> Ignored(call)
    BY <1>7 DEF Ignored
  <1> QED
    BY <1>1, <1>4, <1>7, <1>9, <1>10, <1>11, <1>12, <1>13, <1>14

\* The operation gives up before its request.
LEMMA GiveUpStep == SessionInv /\ GiveUp => SessionInv' /\ Released
  <1> SUFFICES ASSUME SessionInv, GiveUp PROVE SessionInv' /\ Released
    OBVIOUS
  <1>1. call.stage = "ready" /\ ~Ignored(call) /\ Fail(call, "cancelled", TRUE, next)
        /\ UNCHANGED <<wire, peer, open, stuck, token, calls>>
    BY DEF GiveUp
  <1>2. /\ call \in Calls /\ call # NoCall /\ CallInv(call)
        /\ ~lapsed => Numbered(call, next, wire)
        /\ Own(calls, open, stuck, held) \subseteq Range(call.mine)
    BY <1>1, CallLemma
  <1>3. Planned(call) /\ Counted(call, 0)
    BY <1>1, <1>2 DEF CallInv
  <1>4. call.kind \in Kind /\ call.used \in Nat
    BY <1>2 DEF Calls
  <1>5. \/ call.used = 0 \/ call.kind \in {"stat", "setmeta", "getmeta"}
        \/ Operations[call.kind].charge # "reported"
    <2>1. ASSUME call.kind \notin {"stat", "setmeta", "getmeta"},
                 Operations[call.kind].charge = "reported"
          PROVE  call.used = 0
      <3>1. Entry(call.kind)
        BY <1>4, TableLemma
      <3>2. call.failing = "no"
        BY <1>1 DEF Ignored
      <3>3. Position(call) + 1 \in 1..Len(Script(call)) /\ Position(call) \in Nat
            /\ Request = Script(call)[Position(call) + 1]
        BY <1>2, <1>3, <3>2, RequestLemma DEF Request
      <3>4. Request \in Operations[call.kind].guarded
        BY DEF GiveUp
      <3>5. Position(call) + 1 \notin 2..Len(Script(call))
        BY <2>1, <3>1, <3>3, <3>4 DEF Entry, Script
      <3>6. Position(call) = 0
        BY <3>1, <3>3, <3>5 DEF Entry, Script
      <3>7. call.kind \notin {"list", "copy"}
        BY <2>1, <3>1 DEF Entry, Copies
      <3> QED
        BY <1>3, <3>2, <3>6, <3>7 DEF Counted
    <2> QED
      BY <2>1
  <1>6. next \in Nat /\ wire \in Nat /\ Typed
    BY DEF SessionInv, Typed
  <1>7. /\ Outcome(wire, open, stuck)
        /\ result' = "ok" /\ call' = NoCall => Releases(open, stuck)
        /\ call.kind \in Copies \cup {"shares"} => Releases(open, stuck)
    BY <1>1, <1>2, <1>3, <1>5, <1>6, FailLemma
  <1>8. SessionInv'
    BY <1>1, <1>6, <1>7, OutcomeLemma
  <1>9. Released
    BY <1>1, <1>7 DEF Released, Releases
  <1> QED
    BY <1>8, <1>9

\* The exchanger declines: a CLOSE that is declined leaves its handle open.
LEMMA DeclineStep == SessionInv /\ Decline => SessionInv' /\ Released
  <1> SUFFICES ASSUME SessionInv, Decline PROVE SessionInv' /\ Released
    OBVIOUS
  <1>1. /\ call.stage = "ready" /\ token /\ ~Ignored(call)
        /\ Fail(Issued, "cancelled", FALSE, Allocated)
        /\ UNCHANGED <<wire, peer, open, stuck, token, calls>>
    BY DEF Decline
  <1>2. PICK c : c = Issued
    OBVIOUS
  <1>3. PICK id : id = Allocated
    OBVIOUS
  <1>4. next \in Nat /\ wire \in Nat /\ wire <= wire /\ Typed
    BY DEF SessionInv, Typed
  <1>5. /\ c \in Calls /\ Planned(c) /\ Counted(c, 1) /\ id \in Nat
        /\ c.kind = call.kind /\ c.plan = call.plan /\ c.failing = call.failing
        /\ ~lapsed => Numbered(c, id, wire)
        /\ ~Ignored(c)
        /\ Head(c.plan) # "CLOSE" => Own(calls, open, stuck, held) \subseteq Range(c.mine)
        /\ c.kind = "shares" /\ c.failing = "no" /\ Head(c.plan) = "CLOSE" => c.mine = <<>>
    BY <1>1, <1>2, <1>3, <1>4, IssuedLemma
  <1>6. c.failing = "no" /\ (Head(c.plan) = "CLOSE" => c.kind \notin Copies)
    BY <1>5 DEF Ignored
  <1>7. /\ Outcome(wire, open, stuck)
        /\ result' = "ok" /\ call' = NoCall => Releases(open, stuck)
        /\ c.kind \in Copies \cup {"shares"} /\ Own(calls, open, stuck, held) \subseteq Range(c.mine)
             => Releases(open, stuck)
    BY <1>1, <1>2, <1>3, <1>4, <1>5, <1>6, FailLemma
  <1>8. SessionInv'
    BY <1>1, <1>4, <1>7, OutcomeLemma
  <1>9. call.kind = "shares" /\ Head(call.plan) = "CLOSE" => call.plan = <<"CLOSE">>
    <2>1. SUFFICES ASSUME call.kind = "shares", Head(call.plan) = "CLOSE"
                   PROVE  call.plan = <<"CLOSE">>
      OBVIOUS
    <2>2. call.plan \in Seq(Requests) /\ call.kind \in Kind /\ Len(call.plan) \in Nat
      BY <1>5 DEF Calls
    <2>3. Position(c) + 1 \in 1..Len(Script(c)) /\ Head(c.plan) = Script(c)[Position(c) + 1]
      BY <1>5, <1>6, RequestLemma
    <2>4. Position(c) + 1 = Len(Script(c))
      BY <1>5, <2>1, <2>2, <2>3, TableLemma DEF Balanced, Script
    <2>5. Len(Script(c)) \in Nat
      BY <1>5, <2>2, TableLemma DEF Entry, Script
    <2>6. Len(call.plan) = 1
      <3>1. Position(c) = Len(Script(c)) - Len(call.plan)
        BY <1>5 DEF Position
      <3>2. \A x, y \in Nat : (x - y) + 1 = x => y = 1
        OBVIOUS
      <3> QED
        BY <2>2, <2>4, <2>5, <3>1, <3>2
    <2> QED
      BY <2>1, <2>2, <2>6
  <1>10. Released
    BY <1>1, <1>5, <1>6, <1>7, <1>9 DEF Released, Releases
  <1> QED
    BY <1>8, <1>10

\* A failure that ignored requests survive is that of a CLOSE.
LEMMA IgnoredLemma ==
  ASSUME NEW c \in Calls, Planned(c), HoldsAfterFailure(c), Ignored(c)
  PROVE  Holds(c, 1)
  <1>1. Head(c.plan) = "CLOSE"
    BY RequestLemma DEF Ignored
  <1> QED
    BY <1>1 DEF HoldsAfterFailure

\* The transport fails before the request is sent: no socket, or it breaks.
LEMMA SendFailsStep ==
  SessionInv /\ (ConnectFails \/ SendFails) => SessionInv' /\ Released
  <1> SUFFICES ASSUME SessionInv, ConnectFails \/ SendFails PROVE SessionInv' /\ Released
    OBVIOUS
  <1>1. /\ call.stage = "ready" /\ Fail(Issued, Verdict, FALSE, Allocated)
        /\ UNCHANGED <<stuck, token, calls>>
    BY DEF ConnectFails, SendFails
  <1>2. UNCHANGED <<peer, open>> \/ (peer' = "closed" /\ open' = {})
    BY DEF ConnectFails, SendFails, Disconnected
  <1>3. open' = {}
    BY DEF ConnectFails, SendFails, Disconnected, SessionInv, HandlesInv
  <1>4. wire \in Nat /\ wire' \in Nat /\ wire' <= wire /\ Typed
    <2>1. wire \in Nat /\ Typed
      BY DEF SessionInv, Typed
    <2>2. wire' = wire \/ wire' = 0
      BY DEF ConnectFails, SendFails, Disconnected
    <2> QED
      BY <2>1, <2>2
  <1>5. PICK c : c = Issued
    OBVIOUS
  <1>6. PICK id : id = Allocated
    OBVIOUS
  <1>7. PICK r : r = Verdict
    OBVIOUS
  <1>8. r \in {"error", "cancelled"}
    BY <1>7 DEF Verdict
  <1>9. /\ c \in Calls /\ Planned(c) /\ Counted(c, 1) /\ id \in Nat /\ HoldsAfterFailure(c)
        /\ c.kind = call.kind
        /\ ~lapsed => Numbered(c, id, wire')
    BY <1>1, <1>4, <1>5, <1>6, IssuedLemma
  <1>10. Own(calls, open', stuck', held) = {}
    BY <1>3 DEF Own
  <1>11. Ignored(c) => Holds(c, 1)
    BY <1>9, IgnoredLemma
  <1>12. Fail(c, r, FALSE, id)
    BY <1>1, <1>5, <1>6, <1>7
  <1>13. Outcome(wire', open', stuck')
    BY <1>4, <1>8, <1>9, <1>10, <1>11, <1>12, FailLemma
  <1>14. SessionInv'
    BY <1>1, <1>2, <1>4, <1>13, OutcomeLemma
  <1>15. Released
    BY <1>3 DEF Released, Own
  <1> QED
    BY <1>14, <1>15

\* The reply is lost.
LEMMA ReplyLostStep == SessionInv /\ ReplyLost => SessionInv' /\ Released
  <1> SUFFICES ASSUME SessionInv, ReplyLost PROVE SessionInv' /\ Released
    OBVIOUS
  <1>1. /\ call.stage = "sent" /\ Fail(Answered, Verdict, FALSE, next)
        /\ UNCHANGED <<stuck, token, calls>>
        /\ peer' = "closed" /\ open' = {} /\ wire' = 0
    BY DEF ReplyLost, Disconnected
  <1>2. next \in Nat /\ wire \in Nat /\ Typed
    BY DEF SessionInv, Typed
  <1>3. /\ call \in Calls /\ CallInv(call) /\ (~lapsed => Numbered(call, next, wire))
    BY <1>1, CallLemma
  <1>4. Planned(call) /\ Counted(call, 1) /\ Holds(call, 0)
    BY <1>1, <1>3 DEF CallInv
  <1>5. PICK c : c = Tried(call)
    OBVIOUS
  <1>6. c = Answered
    BY <1>5 DEF Answered, Tried, Request
  <1>7. /\ c \in Calls /\ c.kind = call.kind /\ c.plan = call.plan /\ c.failing = call.failing
        /\ c.used = call.used /\ c.base = call.base /\ c.size = call.size /\ c.left = call.left
        /\ HoldsAfterFailure(c)
    BY <1>3, <1>4, <1>5, TriedLemma
  <1>8. Planned(c)
    BY <1>4, <1>7 DEF Planned, Position, Script
  <1>9. Counted(c, 1)
    BY <1>4, <1>7 DEF Counted, Position, Script
  <1>10. ~lapsed => Numbered(c, next, 0)
    <2>1. call.used \in Nat /\ call.base \in Nat
      BY <1>3 DEF Calls
    <2>2. next > wire => next > 0
      BY <1>2
    <2>3. wire < call.base + call.used => 0 < call.base + call.used
      BY <1>2, <2>1
    <2> QED
      BY <1>3, <1>7, <2>2, <2>3 DEF Numbered
  <1>11. PICK r : r = Verdict
    OBVIOUS
  <1>12. r \in {"error", "cancelled"}
    BY <1>11 DEF Verdict
  <1>13. Own(calls, open', stuck', held) = {}
    BY <1>1 DEF Own
  <1>14. Ignored(c) => Holds(c, 1)
    BY <1>7, <1>8, IgnoredLemma
  <1>15. Fail(c, r, FALSE, next)
    BY <1>1, <1>6, <1>11
  <1>16. Outcome(wire', open', stuck')
    BY <1>1, <1>2, <1>7, <1>8, <1>9, <1>10, <1>12, <1>13, <1>14, <1>15, FailLemma
  <1>17. SessionInv'
    BY <1>1, <1>16, OutcomeLemma
  <1>18. Released
    BY <1>1 DEF Released, Own
  <1> QED
    BY <1>17, <1>18

\* The request is on the wire.
LEMMA SendStep == SessionInv /\ Send => SessionInv' /\ Released
  <1> SUFFICES ASSUME SessionInv, Send PROVE SessionInv' /\ Released
    OBVIOUS
  <1>1. /\ call.stage = "ready"
        /\ wire' = (IF RequestId > wire THEN RequestId ELSE wire)
        /\ peer' = Connected /\ next' = Allocated
        /\ UNCHANGED <<open, stuck, held, token, result, calls, disconnected, lapsed>>
    BY DEF Send
  <1>2. Typed /\ next \in Nat /\ wire \in Nat
    BY DEF SessionInv, Typed
  <1>3. /\ call \in Calls /\ CallInv(call) /\ call # NoCall
        /\ ~lapsed => Numbered(call, next, wire)
        /\ Own(calls, open, stuck, held) \subseteq Range(call.mine)
    BY <1>1, CallLemma
  <1>4. Planned(call) /\ Counted(call, 0) /\ Holds(call, 0)
    BY <1>1, <1>3 DEF CallInv
  <1>5. PICK c : c = call
    OBVIOUS
  <1>6. PICK d : d = [c EXCEPT !.used = c.used + 1, !.stage = "sent"]
    OBVIOUS
  <1>7. call' = d
    BY <1>5, <1>6 DEF Send
  <1>8. c.used \in Nat /\ c.base \in Nat /\ c.left \in Nat /\ c.size \in Nat
    BY <1>3, <1>5 DEF Calls
  <1>9. /\ d \in Calls /\ d.kind = c.kind /\ d.plan = c.plan /\ d.failing = c.failing
        /\ d.used = c.used + 1 /\ d.base = c.base /\ d.size = c.size /\ d.left = c.left
        /\ d.mine = c.mine /\ d.stage = "sent"
    <2>1. c \in Calls /\ c.used + 1 \in Nat
      BY <1>3, <1>5, <1>8
    <2> QED
      BY <1>6, <2>1 DEF Calls
  <1>10. d # NoCall
    BY <1>9, NoCallLemma
  <1>11. Script(d) = Script(c) /\ Position(d) = Position(c)
    BY <1>9 DEF Position, Script
  <1>12. Planned(d)
    BY <1>4, <1>5, <1>9, <1>11 DEF Planned
  <1>13. Counted(d, 1)
    <2>1. c.failing = "no" => Position(c) \in Nat
      BY <1>3, <1>4, <1>5, RequestLemma
    <2>2. c.failing = "no" /\ c.used = Position(c) + 0 => d.used = Position(d) + 1
      BY <1>8, <1>9, <1>11, <2>1
    <2>3. c.used - 3 - 0 <= c.size - c.left => d.used - 3 - 1 <= d.size - d.left
      BY <1>8, <1>9
    <2> QED
      BY <1>4, <1>5, <1>9, <1>11, <2>2, <2>3 DEF Counted
  <1>14. Holds(d, 0)
    BY <1>4, <1>5, <1>9, <1>11 DEF Holds
  <1>15. CallInv(d)
    BY <1>9, <1>12, <1>13, <1>14 DEF CallInv
  <1>16. next' \in Nat /\ RequestId \in Nat /\ wire' \in Nat
    BY <1>1, <1>2, <1>5, <1>8 DEF Allocated, RequestId
  <1>17. ASSUME ~lapsed PROVE Numbered(d, next', wire')
    <2>1. CASE Operations[c.kind].charge = "each"
      <3>1. RequestId = next /\ next' = next + 1
        BY <1>1, <1>5, <2>1 DEF RequestId, Allocated, Each
      <3>2. next > wire
        BY <1>3, <1>5, <1>17, <2>1 DEF Numbered
      <3>3. next' > wire'
        BY <1>1, <1>2, <3>1, <3>2
      <3> QED
        BY <1>9, <2>1, <3>3 DEF Numbered
    <2>2. CASE Operations[c.kind].charge # "each"
      <3>1. RequestId = c.base + c.used /\ next' = next
        BY <1>1, <1>5, <2>2 DEF RequestId, Allocated, Each
      <3>2. wire < c.base + c.used
        BY <1>3, <1>5, <1>17, <2>2 DEF Numbered
      <3>3. wire' < d.base + d.used
        BY <1>1, <1>2, <1>8, <1>9, <3>1, <3>2
      <3> QED
        BY <1>3, <1>5, <1>9, <1>17, <2>2, <3>1, <3>3 DEF Numbered
    <2> QED
      BY <2>1, <2>2
  <1>18. peer' \in {"full", "treeless", "none"}
    BY <1>1, <1>2 DEF Connected, Typed
  <1>19. Typed'
    BY <1>1, <1>2, <1>7, <1>9, <1>16, <1>18 DEF Typed
  <1>20. IdsInv'
    BY <1>1, <1>7, <1>10, <1>17 DEF IdsInv
  <1>21. HandlesInv'
    BY <1>1, <1>3, <1>5, <1>7, <1>9, <1>18 DEF HandlesInv, SessionInv
  <1> QED
    BY <1>7, <1>10, <1>15, <1>19, <1>20, <1>21 DEF SessionInv, Released

\* The server carries the request out.
LEMMA CarriedStep == SessionInv /\ Carried => SessionInv' /\ Released
  <1> SUFFICES ASSUME SessionInv, Carried PROVE SessionInv' /\ Released
    OBVIOUS
  <1>1. /\ call.stage = "sent" /\ peer \in {"full", "treeless"}
        /\ UNCHANGED <<next, wire, stuck, held, token, result, calls, disconnected, lapsed>>
    BY DEF Carried
  <1>2. Typed /\ calls \in Nat
    BY DEF SessionInv, Typed
  <1>3. /\ call \in Calls /\ CallInv(call) /\ call # NoCall
        /\ ~lapsed => Numbered(call, next, wire)
        /\ Own(calls, open, stuck, held) \subseteq Range(call.mine)
    BY <1>1, CallLemma
  <1>4. Planned(call) /\ Counted(call, 1) /\ Holds(call, 0)
    BY <1>1, <1>3 DEF CallInv
  <1>5. PICK c : c = Tried(call)
    OBVIOUS
  <1>6. c = Answered /\ Closing = Closed(call)
    BY <1>5 DEF Answered, Tried, Request, Closing, Closed
  <1>7. /\ c \in Calls /\ c.kind = call.kind /\ c.plan = call.plan /\ c.failing = call.failing
        /\ c.used = call.used /\ c.base = call.base /\ c.size = call.size /\ c.left = call.left
        /\ Range(call.mine) \subseteq Range(c.mine) \cup Closed(call)
        /\ Head(call.plan) # "CLOSE" => c.mine = call.mine
        /\ HoldsAfterFailure(c)
    BY <1>3, <1>4, <1>5, TriedLemma
  <1>8. PICK w : w = (IF Request = "CREATE" THEN Append(c.mine, Created) ELSE c.mine)
    OBVIOUS
  <1>9. call' = [c EXCEPT !.stage = "done", !.mine = w]
    BY <1>6, <1>8 DEF Carried
  <1>10. c.mine \in Seq(Handles) /\ c.used \in Nat /\ c.kind \in Kind
    BY <1>7 DEF Calls
  <1>11. Created \in Handles /\ Created[1] = calls
    BY <1>2, <1>7, <1>10 DEF Created, Handles
  <1>12. /\ w \in Seq(Handles) /\ Range(c.mine) \subseteq Range(w)
         /\ Request = "CREATE" => Created \in Range(w) /\ Len(w) = Len(c.mine) + 1
         /\ Request # "CREATE" => w = c.mine
    <2>1. CASE Request = "CREATE"
      <3>1. w = Append(c.mine, Created)
        BY <1>8, <2>1
      <3>2. /\ w \in Seq(Handles) /\ Len(w) = Len(c.mine) + 1 /\ w[Len(c.mine) + 1] = Created
            /\ \A i \in 1..Len(c.mine) : w[i] = c.mine[i]
            /\ DOMAIN w = 1..(Len(c.mine) + 1) /\ DOMAIN c.mine = 1..Len(c.mine)
            /\ Len(c.mine) \in Nat
        BY <1>10, <1>11, <3>1
      <3>3. Created \in Range(w)
        BY <3>2 DEF Range
      <3>4. ASSUME NEW h \in Range(c.mine) PROVE h \in Range(w)
        <4>1. PICK i \in 1..Len(c.mine) : h = c.mine[i]
          BY <3>2 DEF Range
        <4>2. i \in 1..(Len(c.mine) + 1) /\ h = w[i]
          BY <3>2, <4>1
        <4> QED
          BY <3>2, <4>2 DEF Range
      <3> QED
        BY <2>1, <3>2, <3>3, <3>4
    <2> QED
      BY <1>8, <1>10, <2>1
  <1>13. PICK d : d = call'
    OBVIOUS
  <1>14. /\ d \in Calls /\ d.kind = c.kind /\ d.plan = c.plan /\ d.failing = c.failing
         /\ d.used = c.used /\ d.base = c.base /\ d.size = c.size /\ d.left = c.left
         /\ d.mine = w /\ d.stage = "done"
    BY <1>7, <1>9, <1>12, <1>13 DEF Calls
  <1>15. Script(d) = Script(call) /\ Position(d) = Position(call)
    BY <1>7, <1>14 DEF Position, Script
  <1>16. Planned(d)
    BY <1>4, <1>7, <1>14, <1>15 DEF Planned
  <1>17. Counted(d, 1)
    BY <1>4, <1>7, <1>14, <1>15 DEF Counted
  <1>18. Holds(d, 1)
    <2>1. CASE Request = "CREATE"
      <3>1. /\ call.failing = "no" /\ Position(call) + 1 \in 1..Len(Script(call))
            /\ Position(call) \in Nat
            /\ Script(call)[Position(call) + 1] = "CREATE"
        BY <1>3, <1>4, <2>1, RequestLemma DEF Request
      <3>2. PICK i : i = Position(call) + 1
        OBVIOUS
      <3>3. i - 1 = Position(call) /\ Position(call) + 0 = Position(call)
        BY <3>1, <3>2
      <3>4. Holding(call.kind, i) = Holding(call.kind, i - 1) + 1
        BY <1>7, <1>10, <3>1, <3>2, TableLemma DEF Balanced, Script
      <3>5. Len(call.mine) = Holding(call.kind, i - 1) /\ c.mine = call.mine
        BY <1>4, <1>7, <2>1, <3>1, <3>3 DEF Holds, Request
      <3>6. Len(w) = Holding(call.kind, i)
        BY <1>12, <2>1, <3>4, <3>5
      <3> QED
        BY <1>7, <1>14, <1>15, <3>1, <3>2, <3>6 DEF Holds
    <2>2. CASE Request # "CREATE"
      <3>1. Holds(c, 1) /\ w = c.mine
        BY <1>7, <1>12, <2>2 DEF HoldsAfterFailure, Request
      <3> QED
        BY <1>14, <3>1 DEF Holds, Position, Script
    <2> QED
      BY <2>1, <2>2
  <1>19. CallInv(d) /\ d # NoCall
    BY <1>14, <1>16, <1>17, <1>18, NoCallLemma DEF CallInv
  <1>20. ~lapsed => Numbered(d, next, wire)
    BY <1>3, <1>7, <1>14 DEF Numbered
  <1>21. open' \subseteq open \cup {Created} /\ (Request # "CREATE" => open' \subseteq open \ Closing)
    BY <1>6 DEF Carried, Closing
  <1>22. open' \subseteq Handles /\ \A h \in open' : h[1] <= calls
    BY <1>2, <1>11, <1>21 DEF Typed, SessionInv, HandlesInv
  <1>23. Own(calls, open', stuck, held) \subseteq Range(w)
    <2> SUFFICES ASSUME NEW h \in Own(calls, open', stuck, held) PROVE h \in Range(w)
      OBVIOUS
    <2>1. CASE h \in open
      <3>1. h \in Range(call.mine)
        BY <1>3, <2>1 DEF Own
      <3>2. h \notin Closed(call)
        BY <1>6, <1>21 DEF Own, Closing
      <3> QED
        BY <1>7, <1>12, <3>1, <3>2
    <2>2. CASE h \notin open
      BY <1>12, <1>21, <2>2 DEF Own
    <2> QED
      BY <2>1, <2>2
  <1>24. peer' \in {"full", "treeless", "none"}
    BY <1>1 DEF Carried
  <1>25. Typed'
    BY <1>1, <1>2, <1>13, <1>14, <1>22, <1>24 DEF Typed
  <1>26. IdsInv'
    BY <1>1, <1>13, <1>19, <1>20 DEF IdsInv
  <1>27. HandlesInv'
    BY <1>1, <1>13, <1>14, <1>22, <1>23, <1>24 DEF HandlesInv
  <1> QED
    BY <1>13, <1>19, <1>25, <1>26, <1>27 DEF SessionInv, Released

\* The server refuses the request: the handle of a CLOSE is stuck.
LEMMA RefusedStep == SessionInv /\ Refused => SessionInv' /\ Released
  <1> SUFFICES ASSUME SessionInv, Refused PROVE SessionInv' /\ Released
    OBVIOUS
  <1>1. /\ call.stage = "sent" /\ stuck' = stuck \cup Closing
        /\ UNCHANGED <<next, wire, peer, open, held, token, result, calls, disconnected,
                       lapsed>>
    BY DEF Refused
  <1>2. Typed
    BY DEF SessionInv
  <1>3. /\ call \in Calls /\ CallInv(call) /\ call # NoCall
        /\ ~lapsed => Numbered(call, next, wire)
        /\ Own(calls, open, stuck, held) \subseteq Range(call.mine)
    BY <1>1, CallLemma
  <1>4. Planned(call) /\ Counted(call, 1) /\ Holds(call, 0)
    BY <1>1, <1>3 DEF CallInv
  <1>5. PICK c : c = Tried(call)
    OBVIOUS
  <1>6. c = Answered /\ Closing = Closed(call)
    BY <1>5 DEF Answered, Tried, Request, Closing, Closed
  <1>7. /\ c \in Calls /\ c.kind = call.kind /\ c.plan = call.plan /\ c.failing = call.failing
        /\ c.used = call.used /\ c.base = call.base /\ c.size = call.size /\ c.left = call.left
        /\ Closed(call) \subseteq Handles
        /\ Range(call.mine) \subseteq Range(c.mine) \cup Closed(call)
        /\ HoldsAfterFailure(c)
    BY <1>3, <1>4, <1>5, TriedLemma
  <1>8. PICK d : d = [c EXCEPT !.stage = "refused"]
    OBVIOUS
  <1>9. call' = d
    BY <1>6, <1>8 DEF Refused
  <1>10. /\ d \in Calls /\ d.kind = c.kind /\ d.plan = c.plan /\ d.failing = c.failing
         /\ d.used = c.used /\ d.base = c.base /\ d.size = c.size /\ d.left = c.left
         /\ d.mine = c.mine /\ d.stage = "refused"
    BY <1>7, <1>8 DEF Calls
  <1>11. Script(d) = Script(call) /\ Position(d) = Position(call)
    BY <1>7, <1>10 DEF Position, Script
  <1>12. Planned(d)
    BY <1>4, <1>7, <1>10, <1>11 DEF Planned
  <1>13. Counted(d, 1)
    BY <1>4, <1>7, <1>10, <1>11 DEF Counted
  <1>14. HoldsAfterFailure(d)
    BY <1>7, <1>10 DEF HoldsAfterFailure, Holds, Position, Script
  <1>15. CallInv(d) /\ d # NoCall
    BY <1>10, <1>12, <1>13, <1>14, NoCallLemma DEF CallInv
  <1>16. ~lapsed => Numbered(d, next, wire)
    BY <1>3, <1>7, <1>10 DEF Numbered
  <1>17. Own(calls, open, stuck', held) \subseteq Range(d.mine)
    BY <1>1, <1>3, <1>6, <1>7, <1>10 DEF Own
  <1>18. Typed'
    BY <1>1, <1>2, <1>6, <1>7, <1>9, <1>10 DEF Typed
  <1>19. IdsInv'
    BY <1>1, <1>9, <1>15, <1>16 DEF IdsInv
  <1>20. HandlesInv'
    BY <1>1, <1>9, <1>17 DEF HandlesInv, SessionInv
  <1> QED
    BY <1>9, <1>15, <1>18, <1>19, <1>20 DEF SessionInv, Released

\* With the reply there, the operation or the exchanger sees the token.
LEMMA NoticeStep == SessionInv /\ (Notice \/ Withhold) => SessionInv' /\ Released
  <1> SUFFICES ASSUME SessionInv, Notice \/ Withhold PROVE SessionInv' /\ Released
    OBVIOUS
  <1>1. /\ call.stage \in {"done", "refused"} /\ ~Ignored(call)
        /\ UNCHANGED <<wire, peer, open, stuck, token, calls>>
    BY DEF Notice, Withhold
  <1>2. /\ call \in Calls /\ call # NoCall /\ CallInv(call)
        /\ ~lapsed => Numbered(call, next, wire)
        /\ Own(calls, open, stuck, held) \subseteq Range(call.mine)
    BY <1>1, CallLemma
  <1>3. Planned(call) /\ Counted(call, 1)
    BY <1>1, <1>2 DEF CallInv
  <1>4. PICK own \in BOOLEAN :
          /\ Fail(call, "cancelled", own, next)
          /\ own => Request \in Operations[call.kind].noticed
    BY DEF Notice, Withhold
  <1>5. own => \/ call.used = 0 \/ call.kind \in {"stat", "setmeta", "getmeta"}
               \/ Operations[call.kind].charge # "reported"
    <2>1. call.kind \in Kind
      BY <1>2 DEF Calls
    <2> QED
      BY <1>4, <2>1, TableLemma DEF Entry
  <1>6. next \in Nat /\ wire \in Nat /\ Typed
    BY DEF SessionInv, Typed
  <1>7. /\ Outcome(wire, open, stuck)
        /\ result' = "ok" /\ call' = NoCall => Releases(open, stuck)
        /\ call.kind \in Copies \cup {"shares"} => Releases(open, stuck)
    BY <1>1, <1>2, <1>3, <1>4, <1>5, <1>6, FailLemma
  <1>8. SessionInv'
    BY <1>1, <1>6, <1>7, OutcomeLemma
  <1>9. Released
    BY <1>1, <1>7 DEF Released, Releases
  <1> QED
    BY <1>8, <1>9

\* A page of a listing.
LEMMA PageLemma ==
  ASSUME SessionInv, call.stage = "done", Request = "QUERY", Page
  PROVE  Outcome(wire, open, stuck) /\ Releases(open, stuck)
  <1>1. /\ call \in Calls /\ CallInv(call)
        /\ ~lapsed => Numbered(call, next, wire)
        /\ Own(calls, open, stuck, held) \subseteq Range(call.mine)
    BY CallLemma
  <1>2. Planned(call) /\ Counted(call, 1) /\ Holds(call, 1)
    BY <1>1 DEF CallInv
  <1>3. Typed /\ next \in Nat /\ wire \in Nat
    BY DEF SessionInv, Typed
  <1>4. CASE Continue(call, next)
    <2>1. call.kind \in Kind
      BY <1>1 DEF Calls
    <2>2. /\ call.failing = "no" /\ Position(call) + 1 \in 1..Len(Script(call))
          /\ Position(call) \in Nat /\ Script(call)[Position(call) + 1] = "QUERY"
      BY <1>1, <1>2, RequestLemma DEF Request
    <2>3. call.kind = "list"
      BY <2>1, <2>2, TableLemma DEF Entry, Script
    <2>4. PICK i : i = Position(call) + 1
      OBVIOUS
    <2>5. i - 1 = Position(call) /\ Position(call) + 0 = Position(call)
      BY <2>2, <2>4
    <2>6. Holding(call.kind, i) = Holding(call.kind, i - 1)
      BY <2>1, <2>2, <2>4, TableLemma DEF Balanced, Script
    <2>7. Holds(call, 0)
      BY <1>2, <2>2, <2>4, <2>5, <2>6 DEF Holds
    <2>8. Counted(call, 0)
      BY <2>3 DEF Counted
    <2>9. Outcome(wire, open, stuck) /\ call' # NoCall
      BY <1>1, <1>2, <1>3, <1>4, <2>7, <2>8, ContinueLemma
    <2> QED
      BY <2>9 DEF Releases
  <1>5. CASE Advance(call, next)
    BY <1>1, <1>2, <1>3, <1>5, AdvanceLemma
  <1> QED
    BY <1>4, <1>5 DEF Page

\* A chunk of a copy: what goes on has copied at least one more block.
LEMMA ChunkLemma ==
  ASSUME SessionInv, call.stage = "done", Request = "CHUNK", Chunk
  PROVE  Outcome(wire, open, stuck) /\ Releases(open, stuck)
  <1>1. /\ call \in Calls /\ CallInv(call)
        /\ ~lapsed => Numbered(call, next, wire)
        /\ Own(calls, open, stuck, held) \subseteq Range(call.mine)
    BY CallLemma
  <1>2. Planned(call) /\ Counted(call, 1) /\ Holds(call, 1)
    BY <1>1 DEF CallInv
  <1>3. Typed /\ next \in Nat /\ wire \in Nat
    BY DEF SessionInv, Typed
  <1>4. call.kind \in Kind /\ call.used \in Nat /\ call.left \in Nat /\ call.size \in Nat
    BY <1>1 DEF Calls
  <1>5. /\ call.failing = "no" /\ Position(call) + 1 \in 1..Len(Script(call))
        /\ Position(call) \in Nat /\ Script(call)[Position(call) + 1] = "CHUNK"
    BY <1>1, <1>2, RequestLemma DEF Request
  <1>6. call.kind = "copy" /\ Position(call) = 3
    BY <1>4, <1>5, TableLemma DEF Entry, Script
  <1>7. call.left \in 0..call.size /\ call.used - 3 - 1 <= call.size - call.left
    BY <1>2, <1>5, <1>6 DEF Counted
  <1>8. PICK length : length = IF call.left < ChunkSize THEN call.left ELSE ChunkSize
    OBVIOUS
  <1>9. length \in Nat /\ length <= call.left
    BY <1>4, <1>8, BoundsAssumption
  <1>10. PICK count \in 0..(length + 1) :
           IF count = 0 \/ count > length
           THEN Fail(call, "error", FALSE, next)
           ELSE IF [call EXCEPT !.left = call.left - count].left > 0
                THEN Continue([call EXCEPT !.left = call.left - count], next)
                ELSE Advance([call EXCEPT !.left = call.left - count], next)
    BY <1>8 DEF Chunk
  <1>11. CASE count = 0 \/ count > length
    <2>1. ~Ignored(call)
      BY <1>5 DEF Ignored, Request
    <2>2. Fail(call, "error", FALSE, next)
      BY <1>10, <1>11
    <2>3. call.kind \in Copies \cup {"shares"}
      BY <1>6 DEF Copies
    <2> QED
      BY <1>1, <1>2, <1>3, <2>1, <2>2, <2>3, FailLemma
  <1>12. CASE count # 0 /\ count <= length
    <2>1. PICK n : n = call.left - count
      OBVIOUS
    <2>2. n \in Nat /\ n < call.left
      BY <1>4, <1>9, <1>12, <2>1
    <2>3. PICK c : c = [call EXCEPT !.left = n]
      OBVIOUS
    <2>4. /\ c \in Calls /\ c.left = n /\ c.kind = call.kind /\ c.plan = call.plan
          /\ c.failing = call.failing /\ c.used = call.used /\ c.base = call.base
          /\ c.size = call.size /\ c.mine = call.mine
      BY <1>1, <2>2, <2>3 DEF Calls
    <2>5. IF n > 0 THEN Continue(c, next) ELSE Advance(c, next)
      <3>1. ~(count = 0 \/ count > length)
        BY <1>9, <1>12
      <3>2. IF c.left > 0 THEN Continue(c, next) ELSE Advance(c, next)
        BY <1>10, <2>1, <2>3, <3>1
      <3> QED
        BY <2>4, <3>2
    <2>6. Script(c) = Script(call) /\ Position(c) = Position(call)
      BY <2>4 DEF Position, Script
    <2>7. Planned(c)
      BY <1>2, <2>4, <2>6 DEF Planned
    <2>8. Holds(c, 1)
      BY <1>2, <2>4, <2>6 DEF Holds
    <2>9. ~lapsed => Numbered(c, next, wire)
      BY <1>1, <2>4 DEF Numbered
    <2>10. Own(calls, open, stuck, held) \subseteq Range(c.mine)
      BY <1>1, <2>4
    <2>11. c.used - 3 - 0 <= c.size - c.left /\ c.left <= c.size
      BY <1>4, <1>7, <2>2, <2>4
    <2>12. CASE n > 0
      <3>1. Counted(c, 0)
        <4>1. c.left \in 0..c.size /\ c.left > 0
          BY <1>4, <2>2, <2>4, <2>11, <2>12
        <4> QED
          BY <1>6, <2>4, <2>6, <2>11, <4>1 DEF Counted
      <3>2. Holds(c, 0)
        <4>1. Holding(call.kind, 4) = Holding(call.kind, 3)
          BY <1>6 DEF Holding
        <4> QED
          BY <1>5, <1>6, <2>4, <2>6, <2>8, <4>1 DEF Holds
      <3>3. Outcome(wire, open, stuck) /\ call' # NoCall
        BY <1>3, <2>4, <2>5, <2>7, <2>9, <2>10, <2>12, <3>1, <3>2, ContinueLemma
      <3> QED
        BY <3>3 DEF Releases
    <2>13. CASE ~(n > 0)
      <3>1. Counted(c, 1)
        <4>1. c.left \in 0..c.size /\ c.used - 3 - 1 <= c.size - c.left
          BY <1>4, <2>2, <2>4, <2>11
        <4> QED
          BY <1>6, <2>4, <2>6, <4>1 DEF Counted
      <3>2. Advance(c, next)
        BY <2>5, <2>13
      <3> QED
        BY <1>3, <2>4, <2>7, <2>8, <2>9, <2>10, <3>1, <3>2, AdvanceLemma
    <2> QED
      BY <2>12, <2>13
  <1> QED
    BY <1>9, <1>10, <1>11, <1>12

\* The reply is decoded.
LEMMA DecodeStep == SessionInv /\ Decode => SessionInv' /\ Released
  <1> SUFFICES ASSUME SessionInv, Decode PROVE SessionInv' /\ Released
    OBVIOUS
  <1>1. /\ call.stage \in {"done", "refused"}
        /\ UNCHANGED <<wire, peer, open, stuck, token, calls>>
    BY DEF Decode
  <1>2. /\ call \in Calls /\ CallInv(call)
        /\ ~lapsed => Numbered(call, next, wire)
        /\ Own(calls, open, stuck, held) \subseteq Range(call.mine)
    BY <1>1, CallLemma
  <1>3. Planned(call) /\ Counted(call, 1)
    BY <1>1, <1>2 DEF CallInv
  <1>4. Typed /\ next \in Nat /\ wire \in Nat
    BY DEF SessionInv, Typed
  <1>5. /\ Outcome(wire, open, stuck)
        /\ result' = "ok" /\ call' = NoCall => Releases(open, stuck)
        /\ call.kind \in Copies \cup {"shares"} => Releases(open, stuck)
    <2>1. CASE call.stage = "refused"
      <3>1. Fail(call, "error", FALSE, next)
        BY <2>1 DEF Decode
      <3>2. HoldsAfterFailure(call)
        BY <1>2, <2>1 DEF CallInv
      <3>3. Ignored(call) => Holds(call, 1)
        BY <1>2, <1>3, <3>2, IgnoredLemma
      <3> QED
        BY <1>2, <1>3, <1>4, <3>1, <3>3, FailLemma
    <2>2. CASE call.stage = "done" /\ Request = "QUERY"
      <3>1. Page
        BY <2>2 DEF Decode
      <3> QED
        BY <2>2, <3>1, PageLemma
    <2>3. CASE call.stage = "done" /\ Request = "CHUNK"
      <3>1. Chunk
        BY <2>3 DEF Decode
      <3> QED
        BY <2>3, <3>1, ChunkLemma
    <2>4. CASE call.stage = "done" /\ Request \notin {"QUERY", "CHUNK"}
      <3>1. Advance(call, next)
        BY <2>4 DEF Decode
      <3>2. Holds(call, 1)
        BY <1>2, <2>4 DEF CallInv
      <3> QED
        BY <1>2, <1>3, <1>4, <3>1, <3>2, AdvanceLemma
    <2> QED
      BY <1>1, <2>1, <2>2, <2>3, <2>4
  <1>6. SessionInv'
    BY <1>1, <1>4, <1>5, OutcomeLemma
  <1>7. Released
    BY <1>1, <1>5 DEF Released, Releases
  <1> QED
    BY <1>6, <1>7

\* A call begins.
LEMMA StartStep ==
  ASSUME SessionInv, NEW k \in Kind, Start(k)
  PROVE  SessionInv' /\ Released
  <1>1. /\ call = NoCall /\ token' = FALSE /\ calls' = calls + 1
        /\ next' = next + Operations[k].reserve
        /\ UNCHANGED <<wire, peer, open, stuck, result, disconnected, lapsed>>
    BY DEF Start
  <1>2. PICK given \in GivenHandles(k), size \in IF k = "copy" THEN 1..MaxSize ELSE {0} :
          /\ call' = [NoCall EXCEPT !.kind = k, !.plan = Operations[k].script,
                                    !.base = next, !.stage = "ready", !.mine = given,
                                    !.size = size, !.left = size]
          /\ held' = held \ Range(given)
    BY DEF Start
  <1>3. Typed /\ next \in Nat /\ wire \in Nat /\ calls \in Nat /\ held \subseteq Handles
        /\ open \subseteq Handles
    BY DEF SessionInv, Typed
  <1>4. size \in Nat /\ (k = "copy" => size > 0)
    BY <1>2, BoundsAssumption
  <1>5. Entry(k) /\ Balanced(k)
    BY TableLemma
  <1>6. Operations[k].script \in Seq(Requests) /\ Len(Operations[k].script) > 0
        /\ Len(Operations[k].script) \in Nat /\ Operations[k].reserve \in Nat
    BY <1>5 DEF Entry
  <1>7. given \in Seq(Handles) /\ Len(given) = Holding(k, 0)
    <2>1. CASE k = "close"
      <3>1. PICK h \in held : given = <<h>>
        BY <1>2, <2>1 DEF GivenHandles
      <3> QED
        BY <1>3, <1>5, <2>1, <3>1 DEF Balanced
    <2>2. CASE k # "close"
      <3>1. given = <<>>
        BY <1>2, <2>2 DEF GivenHandles
      <3> QED
        BY <1>5, <2>2, <3>1 DEF Balanced
    <2> QED
      BY <2>1, <2>2
  <1>8. PICK d : d = call'
    OBVIOUS
  <1>9. /\ d.kind = k /\ d.plan = Operations[k].script /\ d.base = next /\ d.used = 0
        /\ d.stage = "ready" /\ d.failing = "no" /\ d.mine = given /\ d.size = size
        /\ d.left = size
    BY <1>2, <1>8 DEF NoCall
  <1>10. d \in Calls
    BY <1>2, <1>3, <1>4, <1>6, <1>7, <1>8 DEF NoCall, Calls
  <1>11. Script(d) = d.plan /\ Position(d) = 0
    BY <1>6, <1>9 DEF Position, Script
  <1>12. Planned(d)
    BY <1>6, <1>9, <1>11 DEF Planned
  <1>13. Counted(d, 0)
    BY <1>4, <1>9, <1>11 DEF Counted
  <1>14. Holds(d, 0)
    <2>1. Position(d) + 0 = 0
      BY <1>11
    <2> QED
      BY <1>7, <1>9, <2>1 DEF Holds
  <1>15. CallInv(d) /\ d # NoCall
    BY <1>9, <1>10, <1>12, <1>13, <1>14, NoCallLemma DEF CallInv
  <1>16. ~lapsed => Numbered(d, next', wire)
    <2>1. ~lapsed => next > wire
      BY <1>1 DEF SessionInv, IdsInv
    <2>2. ~lapsed => next + Operations[k].reserve > wire /\ wire < next + 0
      BY <1>3, <1>6, <2>1
    <2>3. Operations[k].charge \notin {"reserved", "each"} => Operations[k].reserve = 0
      BY <1>5 DEF Entry
    <2> QED
      BY <1>1, <1>3, <1>9, <2>2, <2>3 DEF Numbered
  <1>17. /\ \A h \in open : h[1] <= calls + 1
         /\ Own(calls + 1, open, stuck, held') = {}
    <2>1. \A h \in open : h[1] \in Nat /\ h[1] <= calls
      BY <1>3 DEF SessionInv, HandlesInv, Handles
    <2>2. \A h \in open : h[1] <= calls + 1 /\ h[1] # calls + 1
      BY <1>3, <2>1
    <2> QED
      BY <2>2 DEF Own
  <1>18. Typed'
    <2>1. next' \in Nat /\ calls' \in Nat /\ held' \subseteq Handles
      BY <1>1, <1>2, <1>3, <1>6
    <2> QED
      BY <1>1, <1>3, <1>8, <1>10, <2>1 DEF Typed
  <1>19. IdsInv'
    BY <1>1, <1>8, <1>15, <1>16 DEF IdsInv
  <1>20. HandlesInv'
    BY <1>1, <1>17 DEF HandlesInv, SessionInv
  <1> QED
    BY <1>1, <1>8, <1>15, <1>18, <1>19, <1>20 DEF SessionInv, Released

\* The invariant holds at the start.
LEMMA SessionInit == Init => SessionInv
  <1> SUFFICES ASSUME Init PROVE SessionInv
    OBVIOUS
  <1>1. Typed
    BY DEF Init, Typed
  <1>2. IdsInv
    BY DEF Init, IdsInv
  <1>3. HandlesInv
    BY DEF Init, HandlesInv
  <1> QED
    BY <1>1, <1>2, <1>3 DEF Init, SessionInv

\* Every step preserves it, and one that ends a call releases its handles.
LEMMA SessionStep == SessionInv /\ [Next]_vars => SessionInv' /\ (Released \/ UNCHANGED vars)
  <1> SUFFICES ASSUME SessionInv, [Next]_vars PROVE SessionInv' /\ (Released \/ UNCHANGED vars)
    OBVIOUS
  <1>1. CASE UNCHANGED vars
    BY <1>1 DEF vars, SessionInv, Typed, IdsInv, HandlesInv
  <1>2. CASE RaiseToken
    <2>1. /\ token' = TRUE
          /\ UNCHANGED <<next, wire, peer, open, stuck, held, call, result, calls,
                         disconnected, lapsed>>
      BY <1>2 DEF RaiseToken
    <2> QED
      BY <2>1 DEF SessionInv, Typed, IdsInv, HandlesInv, Released
  <1>3. CASE \E k \in Kind : Start(k)
    BY <1>3, StartStep
  <1>4. CASE Step
    BY <1>4, GiveUpStep, DeclineStep, SendFailsStep, SendStep, ReplyLostStep, NoticeStep,
       DecodeStep DEF Step
  <1>5. CASE Serve
    BY <1>5, CarriedStep, RefusedStep DEF Serve
  <1>6. CASE Finished
    BY <1>1, <1>6 DEF Finished
  <1> QED
    BY <1>1, <1>2, <1>3, <1>4, <1>5, <1>6 DEF Next

-----------------------------------------------------------------------------
(* The theorems. *)

\* The call in progress is where its script, its ids and its handles say it is.
THEOREM SessionInvariant == Spec => []SessionInv
  <1>1. SessionInv /\ [Next]_vars => SessionInv'
    BY SessionStep
  <1> QED
    BY <1>1, SessionInit, PTL DEF Spec

\* Unless a call has undercounted, no message id is sent twice on a connection,
\* whatever failed or was cancelled before.
THEOREM IdsAreFresh == Spec => []FreshIds
  <1>1. SessionInv => FreshIds
    <2> SUFFICES ASSUME SessionInv, ~lapsed
                 PROVE  /\ call = NoCall => next > wire
                        /\ call.stage = "ready" => RequestId > wire
      BY DEF FreshIds
    <2>1. call = NoCall => next > wire
      BY DEF SessionInv, IdsInv
    <2>2. ASSUME call.stage = "ready" PROVE RequestId > wire
      <3>1. call \in Calls /\ Numbered(call, next, wire)
        BY <2>2, CallLemma
      <3>2. next \in Nat /\ wire \in Nat /\ call.base \in Nat /\ call.used \in Nat
        BY <3>1 DEF SessionInv, Typed, Calls
      <3>3. CASE Operations[call.kind].charge = "each"
        BY <3>1, <3>3 DEF RequestId, Each, Numbered
      <3>4. CASE Operations[call.kind].charge # "each"
        <4>1. wire < call.base + call.used /\ RequestId = call.base + call.used
          BY <3>1, <3>4 DEF RequestId, Each, Numbered
        <4> QED
          BY <3>2, <4>1
      <3> QED
        BY <3>3, <3>4
    <2> QED
      BY <2>1, <2>2
  <1> QED
    BY <1>1, SessionInvariant, PTL

\* A server-side copy sends at most as many chunk requests as the file has
\* blocks, and none at its end.
THEOREM CopiesProgress == Spec => []CopyMakesProgress
  <1>1. SessionInv => CopyMakesProgress
    <2> SUFFICES ASSUME SessionInv, call.kind = "copy", call.stage = "ready",
                        Request = "CHUNK"
                 PROVE  call.left \in 1..call.size /\ call.used - 3 <= call.size - call.left
      BY DEF CopyMakesProgress
    <2>1. call \in Calls /\ Planned(call) /\ Counted(call, 0)
      BY CallLemma DEF CallInv
    <2>2. call.kind \in Kind /\ call.used \in Nat /\ call.left \in Nat /\ call.size \in Nat
      BY <2>1 DEF Calls
    <2>3. /\ call.failing = "no" /\ Position(call) + 1 \in 1..Len(Script(call))
          /\ Position(call) \in Nat /\ Script(call)[Position(call) + 1] = "CHUNK"
      BY <2>1, RequestLemma DEF Request
    <2>4. Position(call) = 3
      BY <2>2, <2>3, TableLemma DEF Entry, Script
    <2>5. call.left \in 0..call.size /\ call.left > 0
          /\ call.used - 3 - 0 <= call.size - call.left
      BY <2>1, <2>3, <2>4 DEF Counted
    <2> QED
      BY <2>2, <2>5
  <1> QED
    BY <1>1, SessionInvariant, PTL

\* Leaked handles are those the call still owns.
LEMMA LeakedLemma == Leaked = Own(calls, open', stuck', held')
  BY DEF Leaked, Own

\* A call that reports success leaves no handle of its own open at the server
\* but the one it returns and those the server refused to close.
THEOREM SuccessReleases == Spec => SuccessReleasesHandles
  <1>1. SessionInv /\ [Next]_vars
          => [call # NoCall /\ call' = NoCall /\ result' = "ok" => Leaked = {}]_vars
    BY SessionStep, LeakedLemma DEF Released
  <1> QED
    BY <1>1, SessionInvariant, PTL DEF Spec, SuccessReleasesHandles

\* A server-side copy and a share enumeration close what they opened, however
\* they end.
THEOREM CleanupReleases == Spec => CleanupReleasesHandles
  <1>1. SessionInv /\ [Next]_vars
          => [/\ call # NoCall /\ call' = NoCall
              /\ \/ call.kind \in Copies
                 \/ call.kind = "shares" /\ ~(token /\ call.plan = <<"CLOSE">>)
              => Leaked = {}]_vars
    BY SessionStep, LeakedLemma DEF Released
  <1> QED
    BY <1>1, SessionInvariant, PTL DEF Spec, CleanupReleasesHandles


-----------------------------------------------------------------------------
(* SmbCodec                                                                *)

-----------------------------------------------------------------------------
(* Numbers *)

\* A set of numbers has a least element.
LEMMA LeastNumber ==
  ASSUME NEW T \in SUBSET Nat, T # {}
  PROVE  \E x \in T : \A y \in T : x <= y
  <1>1. IsWellFoundedOn({ss \in Nat \X Nat : ss[1] < ss[2]}, Nat)
    BY NatLessThanWellFounded DEF OpToRel
  <1>2. PICK R : R = {ss \in Nat \X Nat : ss[1] < ss[2]}
    OBVIOUS
  <1>3. IsWellFoundedOn(R, Nat)
    BY <1>1, <1>2
  <1>4. PICK x \in T : \A y \in T : ~ (<<y, x>> \in R)
    BY <1>3, WFMin
  <1>5. ASSUME NEW y \in T, ~(x <= y) PROVE FALSE
    <2>1. <<y, x>> \in Nat \X Nat /\ y < x
      BY <1>5
    <2>2. <<y, x>> \in R
      BY <1>2, <2>1
    <2> QED BY <1>4, <2>2
  <1> QED BY <1>5

\* A set with zero and every successor holds all numbers.
LEMMA SetInduction ==
  ASSUME NEW S, 0 \in S, \A n \in Nat : n \in S => n + 1 \in S
  PROVE  Nat \subseteq S
  <1> SUFFICES ASSUME Nat \ S # {} PROVE FALSE
    OBVIOUS
  <1>1. PICK x \in Nat \ S : \A y \in Nat \ S : x <= y
    BY LeastNumber
  <1>2. x # 0 /\ x - 1 \in Nat
    BY <1>1
  <1>3. x - 1 \in S
    BY <1>1, <1>2
  <1> QED BY <1>1, <1>2, <1>3


-----------------------------------------------------------------------------
(* What a decoder is given.                                                 *)

\* The commands.
Commands == DOMAIN Structures
\* The fields of a reply,
ReplyFields == {"command", "smb2", "flag", "status", "structure", "offered", "size", "bufs",
                "kind", "cells", "count", "array", "frag", "container", "per", "resume",
                "granted", "names"}
\* and of a cell.
CellFields == {"next", "len", "extra", "units"}

\* A cell has numbers; what is measured in code units is a text.
SoundCell(kind, c) ==
  /\ DOMAIN c = CellFields
  /\ c.next \in Int /\ c.len \in Int /\ c.extra \in Int
  /\ kind = "dfs" /\ c.units # None => Len(c.units) \in Nat
  /\ kind = "token" /\ c.extra = Ntlmssp => Len(c.units) \in Nat

\* A reply, whatever its fields say.
IsReply(r) ==
  /\ DOMAIN r = ReplyFields
  /\ r.size \in Nat /\ r.count \in Nat /\ r.frag \in Nat /\ r.per \in 0..2
  /\ r.bufs \in Seq([off : Nat, len : Nat])
  /\ \A p \in DOMAIN r.cells : SoundCell(r.kind, r.cells[p])

\* Before the reply nothing has been read.
Unread ==
  /\ pc \in {"idle", "sent"} => m = None
  /\ pc \in {"idle", "sent", "reply"} => reach = 0 /\ outer = <<>>
  /\ pc # "idle" => asked \in Commands

\* From then on there is a reply, of which no more was read than the decoder has.
Read ==
  pc \in {"reply", "walk", "done"} => IsReply(m) /\ reach <= Given

\* A walk is inside a buffer that is inside what the decoder was given, and so are
\* the values around it; the challenge was found with its signature.
Walking ==
  pc = "walk" =>
    /\ pos < end => end <= Given
    /\ \A i \in DOMAIN outer : outer[i] <= Given
    /\ m.kind = "token" /\ left = 2 =>
         /\ end - pos >= 8 /\ end <= Given
         /\ pos \in DOMAIN m.cells /\ m.cells[pos].extra = Ntlmssp

\* The inductive invariant.
CodecInv ==
  /\ pc \in {"idle", "sent", "reply", "walk", "done"}
  /\ pos \in Int /\ end \in Int /\ left \in Int /\ reach \in Int /\ outer \in Seq(Int)
  /\ Unread /\ Read /\ Walking

-----------------------------------------------------------------------------
(* The decoders.                                                            *)

\* Larger is an upper bound, and the least one.
LEMMA LargerFacts ==
  ASSUME NEW a \in Int, NEW b \in Int
  PROVE  /\ Larger(a, b) \in Int /\ Larger(a, b) >= a /\ Larger(a, b) >= b
         /\ \A c \in Int : a <= c /\ b <= c => Larger(a, b) <= c
  BY DEF Larger

\* The fixed part of every reply has a size.
LEMMA DecoderFacts == \A c \in Commands : Decoder[c].fixed \in Nat
  BY DEF Commands, Structures, Decoder, Row, decodeNegotiateResponse, decodeSessionSetupResponse,
         decodeTreeConnectResponse, decodeTreeDisconnectResponse, decodeLogoffResponse,
         decodeCreateResponse, decodeCloseResponse, decodeReadResponse, decodeWriteResponse,
         decodeIoctlResponse, decodeSetInfoResponse, decodeQueryInfoResponse,
         decodeQueryDirectoryResponse, decodeChangeNotifyResponse

\* A sequence has its elements.
LEMMA InSeq ==
  ASSUME NEW T, NEW s \in Seq(T), NEW i \in DOMAIN s
  PROVE  s[i] \in T
  OBVIOUS

\* Among them the last one.
LEMMA LastOfSeq ==
  ASSUME NEW T, NEW s \in Seq(T), s # <<>>
  PROVE  Len(s) \in DOMAIN s /\ s[Len(s)] \in T /\ Last(s) = s[Len(s)]
  BY DEF Last

\* The buffer of a reply has a position and a size.
LEMMA BufferIsSound ==
  ASSUME IsReply(m)
  PROVE  /\ Buffer.off \in Nat /\ Buffer.len \in Nat
         /\ m.bufs = <<>> => Buffer.len = 0
         /\ m.bufs # <<>> => \E i \in DOMAIN m.bufs : Buffer = m.bufs[i]
  <1>1. PICK T, s : T = [off : Nat, len : Nat] /\ s = m.bufs /\ s \in Seq(T)
    BY DEF IsReply
  <1>2. CASE s = <<>>
    BY <1>1, <1>2 DEF Buffer
  <1>3. CASE s # <<>>
    <2>1. Buffer = Last(s)
      BY <1>1, <1>3 DEF Buffer
    <2>2. Len(s) \in DOMAIN s /\ s[Len(s)] \in T /\ Last(s) = s[Len(s)]
      BY <1>1, <1>3, LastOfSeq
    <2> QED BY <1>1, <1>3, <2>1, <2>2
  <1> QED BY <1>2, <1>3

\* An accepted reply has its buffer inside, unless that is empty.
LEMMA BufferFacts ==
  ASSUME IsReply(m), asked \in Commands, Accepted
  PROVE  /\ m.size \in Nat /\ m.frag \in Nat
         /\ Fixed \in Nat /\ m.size >= Fixed
         /\ Buffer.off \in Nat /\ Buffer.len \in Nat
         /\ Buffer.len # 0 => Buffer.off + Buffer.len <= m.size
  <1>1. m.size \in Nat /\ m.frag \in Nat
    BY DEF IsReply
  <1>2. Fixed \in Nat
    BY DecoderFacts DEF Fixed, Header
  <1>3. m.size >= Fixed /\ \A i \in DOMAIN m.bufs : InBounds(m.bufs[i])
    BY DEF Accepted, Fixed
  <1>4. Buffer.len # 0 => InBounds(Buffer)
    BY <1>3, BufferIsSound
  <1> QED BY <1>1, <1>2, <1>3, <1>4, BufferIsSound DEF InBounds

\* What is copied of an accepted reply, and n bytes of its payload.
LEMMA CopiedFacts ==
  ASSUME IsReply(m), asked \in Commands, Accepted
  PROVE  /\ Copied \in Nat /\ Copied <= m.size /\ Fixed <= Copied
         /\ Buffer.len # 0 => Buffer.off + Buffer.len <= Copied
         /\ \A n \in Nat : n <= Buffer.len => Within(n) \in Nat /\ Within(n) <= Copied
  <1>1. \A n \in Nat : n <= Buffer.len =>
          Within(n) \in Nat /\ Within(n) <= Within(Buffer.len) /\ Within(n) <= m.size
    BY BufferFacts DEF Within
  <1>2. Within(Buffer.len) \in Nat /\ Within(Buffer.len) <= m.size
        /\ (Buffer.len # 0 => Within(Buffer.len) = Buffer.off + Buffer.len)
    BY <1>1, BufferFacts DEF Within
  <1>3. /\ Copied \in Nat /\ Copied <= m.size /\ Fixed <= Copied
        /\ Within(Buffer.len) <= Copied
    BY <1>2, BufferFacts DEF Copied, Larger
  <1>4. Buffer.len \in Nat
    BY BufferFacts
  <1> QED BY <1>1, <1>2, <1>3, <1>4

\* A PDU of DCE/RPC is all that a decoder of one is given.
Pdu == m.kind \in {"bind", "shares"}

\* What a decoder is given is inside the reply.
LEMMA GivenFacts ==
  ASSUME IsReply(m), asked \in Commands
  PROVE  /\ Given \in Nat /\ Given <= m.size
         /\ ~Accepted => Given = m.size
         /\ Accepted => Fixed <= Given
         /\ Accepted /\ ~Pdu => Given = Copied
         /\ Accepted /\ Pdu =>
              \A n \in Nat : n <= m.frag /\ n <= Buffer.len =>
                Within(n) \in Nat /\ Within(n) <= Given
  <1>1. CASE ~Accepted
    BY <1>1 DEF Given, IsReply
  <1>2. CASE Accepted /\ ~Pdu
    <2>1. Given = Copied
      BY <1>2 DEF Given, Pdu
    <2> QED BY <1>2, <2>1, CopiedFacts
  <1>3. CASE Accepted /\ Pdu
    <2>1. PICK k : k = Smaller(m.frag, Buffer.len)
      OBVIOUS
    <2>2. k \in Nat /\ k <= Buffer.len /\ \A n \in Nat : n <= m.frag /\ n <= Buffer.len => n <= k
      BY <1>3, <2>1, BufferFacts DEF Smaller
    <2>3. Given = Larger(Fixed, Within(k))
      BY <1>3, <2>1 DEF Given, Pdu
    <2>4. Within(k) \in Nat /\ Within(k) <= m.size
      BY <1>3, <2>2, CopiedFacts, BufferFacts
    <2>5. /\ Given \in Nat /\ Given <= m.size /\ Fixed <= Given /\ Within(k) <= Given
      BY <1>3, <2>3, <2>4, BufferFacts DEF Larger
    <2>6. \A n \in Nat : n <= k => Within(n) \in Nat /\ Within(n) <= Within(k)
      BY <1>3, <2>2, BufferFacts DEF Within
    <2> QED BY <1>3, <2>2, <2>4, <2>5, <2>6
  <1> QED BY <1>1, <1>2, <1>3

\* A decoder is given so many bytes,
Sized == IsReply(m) /\ asked \in Commands => Given \in Nat

\* now
LEMMA SizedNow == Sized
  BY GivenFacts DEF Sized

\* and with the next reply.
LEMMA SizedNext == Sized'
  BY SizedNow, PTL

\* It does not change while the reply is read.
LEMMA GivenStays ==
  ASSUME UNCHANGED <<m, asked>>
  PROVE  Given' = Given
  BY DEF Given, Accepted, Fixed, Copied, Within, Buffer, Last, InBounds, Larger, Smaller,
         decodeSmb2SyncHeader, Decoder

\* A verdict keeps the invariant when what was read is in the reply.
LEMMA EndsKeeps ==
  ASSUME CodecInv, pc \in {"reply", "walk"}, NEW v, Ends(v), reach' \in Int, reach' <= Given
  PROVE  CodecInv'
  <1>1. Given' = Given
    BY GivenStays DEF Ends
  <1> QED BY <1>1 DEF CodecInv, Unread, Read, Walking, Ends

\* So does the start of a walk inside the reply.
LEMMA GoesKeeps ==
  ASSUME CodecInv, pc = "reply", NEW p \in Int, NEW e \in Int, NEW n \in Int, Goes(p, e, n),
         reach' \in Int, reach' <= Given, p < e => e <= Given,
         n = 2 /\ m.kind = "token" =>
           /\ e - p >= 8 /\ p \in DOMAIN m.cells /\ m.cells[p].extra = Ntlmssp
  PROVE  CodecInv'
  <1>1. Given' = Given
    BY GivenStays DEF Goes
  <1>2. n = 2 /\ m.kind = "token" => e <= Given
    OBVIOUS
  <1> QED BY <1>1, <1>2 DEF CodecInv, Unread, Read, Walking, Goes

\* A reply that is decoded, and of which nothing was read yet.
LEMMA Decoding ==
  ASSUME CodecInv, pc \in {"reply", "walk", "done"}
  PROVE  /\ IsReply(m) /\ asked \in Commands /\ m.size \in Nat /\ Given \in Nat
         /\ pc = "reply" => reach = 0
  <1>1. IsReply(m) /\ asked \in Commands /\ (pc = "reply" => reach = 0)
    BY DEF CodecInv, Unread, Read
  <1> QED BY <1>1, GivenFacts DEF IsReply

\* Reading up to n, when nothing was read before.
LEMMA FirstRead ==
  ASSUME CodecInv, pc = "reply", NEW n \in Int, n <= Given, Reads(n)
  PROVE  reach' \in Int /\ reach' <= Given
  BY Decoding DEF Reads, Larger

\* A decoder has read the fixed part it checked, or less, when it refuses.
LEMMA RefuseKeeps ==
  ASSUME CodecInv, Refuse
  PROVE  CodecInv'
  <1>1. /\ pc = "reply" /\ Ends(FALSE)
    BY DEF Refuse, Fails
  <1>2. /\ m.size \in Nat /\ reach = 0 /\ asked \in Commands /\ IsReply(m)
    BY <1>1, Decoding
  <1>3. Decoder[asked].fixed \in Nat
    BY <1>2, DecoderFacts
  <1>4. reach' \in Int /\ reach' <= m.size
    BY <1>2, <1>3 DEF Refuse, Reads, Larger, Header, decodeSmb2SyncHeader
  <1>5. ~Accepted
    BY <1>2, <1>3 DEF Refuse, Accepted, decodeSmb2SyncHeader, Header
  <1>6. Given = m.size
    BY <1>2, <1>5, GivenFacts
  <1> QED BY <1>1, <1>4, <1>6, EndsKeeps

\* No decoder takes a status both for an answer and for an end.
LEMMA EndsAreApart == \A c \in Commands : Decoder[c].ends \cap Decoder[c].accepts = {}
  BY DEF Commands, Structures, Decoder, Row, Success, decodeNegotiateResponse,
         decodeSessionSetupResponse, decodeTreeConnectResponse, decodeTreeDisconnectResponse,
         decodeLogoffResponse, decodeCreateResponse, decodeCloseResponse, decodeReadResponse,
         decodeWriteResponse, decodeIoctlResponse, decodeSetInfoResponse,
         decodeQueryInfoResponse, decodeQueryDirectoryResponse, decodeChangeNotifyResponse

\* The status alone is read.
LEMMA NoMoreFilesKeeps ==
  ASSUME CodecInv, NoMoreFiles
  PROVE  CodecInv'
  <1>1. /\ pc = "reply" /\ Ends(TRUE)
    BY DEF NoMoreFiles
  <1>2. /\ m.size \in Nat /\ reach = 0 /\ asked \in Commands /\ IsReply(m)
    BY <1>1, Decoding
  <1>3. reach' \in Int /\ reach' <= m.size
    BY <1>2 DEF NoMoreFiles, Reads, Larger, Header, decodeSmb2SyncHeader
  <1>4. ~Accepted
    BY <1>2, EndsAreApart DEF NoMoreFiles, Accepted
  <1>5. Given = m.size
    BY <1>2, <1>4, GivenFacts
  <1> QED BY <1>1, <1>3, <1>5, EndsKeeps

\* A payload of a fixed layout is as large as what is read of it.
LEMMA DecodeFixedKeeps ==
  ASSUME CodecInv, DecodeFixed
  PROVE  CodecInv'
  <1>1. pc = "reply" /\ Accepted /\ m.kind \in DOMAIN FixedSize
    BY DEF DecodeFixed
  <1>2. FixedSize[m.kind] \in Nat /\ ~Pdu
    BY <1>1 DEF FixedSize, Pdu
  <1>3. IsReply(m) /\ asked \in Commands
    BY <1>1, Decoding
  <1> DEFINE fits == Buffer.len >= FixedSize[m.kind]
             n == IF fits THEN FixedSize[m.kind] ELSE 0
  <1>4. n \in Nat /\ n <= Buffer.len
    BY <1>1, <1>2, <1>3, BufferFacts
  <1>5. Reads(Larger(Copied, Within(n))) /\ Ends(fits)
    BY DEF DecodeFixed
  <1> HIDE DEF n, fits
  <1>6. Larger(Copied, Within(n)) \in Int /\ Larger(Copied, Within(n)) <= Given
    BY <1>1, <1>2, <1>3, <1>4, CopiedFacts, GivenFacts DEF Larger
  <1>7. reach' \in Int /\ reach' <= Given
    BY <1>1, <1>5, <1>6, FirstRead
  <1> QED BY <1>1, <1>5, <1>7, EndsKeeps

\* A buffer that is walked is inside what was copied.
LEMMA WalkedBuffer ==
  ASSUME CodecInv, pc = "reply", Accepted, ~Pdu
  PROVE  /\ Buffer.off \in Int /\ Buffer.len \in Nat /\ BufferEnd \in Int
         /\ BufferEnd = Buffer.off + Buffer.len
         /\ Buffer.off < BufferEnd => BufferEnd <= Given
         /\ Copied \in Int /\ Copied <= Given /\ Fixed \in Int /\ Fixed <= Given
  <1>1. IsReply(m) /\ asked \in Commands
    BY Decoding
  <1> QED BY <1>1, BufferFacts, CopiedFacts, GivenFacts DEF BufferEnd

\* A chain is walked inside its buffer.
LEMMA StartChainKeeps ==
  ASSUME CodecInv, StartChain
  PROVE  CodecInv'
  <1>1. /\ pc = "reply" /\ Accepted /\ m.kind # "token" /\ ~Pdu
        /\ Reads(Fixed) /\ Goes(Buffer.off, BufferEnd, 0)
    BY DEF StartChain, Pdu
  <1>2. reach' \in Int /\ reach' <= Given
    BY <1>1, WalkedBuffer, FirstRead
  <1> QED BY <1>1, <1>2, WalkedBuffer, GoesKeeps

\* Referrals are walked behind the eight bytes of their header.
LEMMA ReferralResponseKeeps ==
  ASSUME CodecInv, decodeDfsReferralResponse
  PROVE  CodecInv'
  <1>1. pc = "reply" /\ Accepted /\ m.kind = "dfs" /\ ~Pdu /\ Reads(Copied)
    BY DEF decodeDfsReferralResponse, Pdu
  <1>2. reach' \in Int /\ reach' <= Given
    BY <1>1, WalkedBuffer, FirstRead
  <1>3. CASE Fails
    BY <1>1, <1>2, <1>3, EndsKeeps DEF Fails
  <1>4. CASE Buffer.len >= 8 /\ Goes(Buffer.off + 8, BufferEnd, m.count)
    <2>1. /\ Buffer.off + 8 \in Int /\ BufferEnd \in Int
          /\ Buffer.off + 8 < BufferEnd => BufferEnd <= Given
      BY <1>1, <1>4, WalkedBuffer
    <2>2. m.count \in Int /\ m.kind # "token"
      BY <1>1 DEF CodecInv, Read, IsReply
    <2> QED BY <1>1, <1>2, <1>4, <2>1, <2>2, GoesKeeps
  <1> QED BY <1>3, <1>4 DEF decodeDfsReferralResponse

\* Rounding up to four gives a number, at least as large.
LEMMA AlignedToFour ==
  ASSUME NEW n \in Int
  PROVE  Aligned(n, 4) \in Int /\ Aligned(n, 4) >= n
  BY DEF Aligned

\* So many bytes of a PDU may be read.
LEMMA PduRead ==
  ASSUME CodecInv, pc = "reply", Accepted, Pdu, NEW n \in Nat, n <= m.frag, n <= Buffer.len,
         Reads(Larger(Fixed, Within(n)))
  PROVE  reach' \in Int /\ reach' <= Given
  <1>1. IsReply(m) /\ asked \in Commands
    BY Decoding
  <1>2. Larger(Fixed, Within(n)) \in Int /\ Larger(Fixed, Within(n)) <= Given
    BY <1>1, GivenFacts, BufferFacts DEF Larger
  <1> QED BY <1>2, FirstRead

\* The results of a bind_ack are inside its fragment.
LEMMA BindAckKeeps ==
  ASSUME CodecInv, decodeDcerpcBindAck
  PROVE  CodecInv'
  <1>1. pc = "reply" /\ Accepted /\ Pdu /\ m.count \in Nat /\ m.frag \in Nat
    BY DEF decodeDcerpcBindAck, CodecInv, Read, IsReply, Pdu
  <1> DEFINE fits == /\ validateCommonHeader(36)
                     /\ 26 + m.count <= m.frag
                     /\ Aligned(26 + m.count, 4) + 4 + 24 <= m.frag
                     /\ m.array # 0
             n == IF fits THEN Aligned(26 + m.count, 4) + 28 ELSE 0
  <1>2. Reads(Larger(Fixed, Within(n))) /\ \E v : Ends(v)
    BY DEF decodeDcerpcBindAck
  <1>3. Buffer.len \in Nat
    BY <1>1, Decoding, BufferFacts
  <1>4. n \in Nat /\ n <= Buffer.len /\ n <= m.frag
    BY <1>1, <1>3, AlignedToFour DEF validateCommonHeader
  <1> HIDE DEF n, fits
  <1>5. reach' \in Int /\ reach' <= Given
    BY <1>1, <1>2, <1>4, PduRead
  <1> QED BY <1>1, <1>2, <1>5, EndsKeeps

\* The array of shares is inside the fragment, and the strings behind it.
LEMMA StartSharesKeeps ==
  ASSUME CodecInv, StartShares
  PROVE  CodecInv'
  <1>1. pc = "reply" /\ Accepted /\ m.kind = "shares" /\ m.count \in Nat /\ m.frag \in Nat
        /\ m.per \in 0..2 /\ Pdu
    BY DEF StartShares, CodecInv, Read, IsReply, Pdu
  <1> DEFINE listed == m.container /\ m.array # None
             need == (IF m.container THEN 20 ELSE 12) + (IF listed THEN 4 + (12 * m.count) ELSE 0)
             fits == /\ validateCommonHeader(24)
                     /\ need <= m.frag - 24
                     /\ IF listed THEN m.array >= m.count ELSE m.container => m.count = 0
             n == IF fits THEN 24 + need ELSE 0
             strings == IF listed THEN m.per * m.count ELSE 0
  <1>2. /\ Reads(Larger(Fixed, Within(n)))
        /\ \/ Fails
           \/ fits /\ Goes(Buffer.off + 24 + need, Buffer.off + m.frag, strings)
    BY DEF StartShares
  <1>3. need \in Nat /\ strings \in Int
    <2>1. m.per * m.count \in Int
      BY <1>1
    <2>2. strings \in Int
      BY <2>1
    <2>3. need \in Nat
      BY <1>1
    <2> QED BY <2>2, <2>3
  <1>4. fits => need <= m.frag - 24 /\ m.frag <= Buffer.len /\ Buffer.len >= 16
    BY DEF validateCommonHeader
  <1> HIDE DEF listed, need, strings, fits
  <1>5. IsReply(m) /\ asked \in Commands /\ Buffer.off \in Nat /\ Buffer.len \in Nat
    BY <1>1, Decoding, BufferFacts
  <1>6. n \in Nat /\ n <= Buffer.len /\ n <= m.frag
    BY <1>1, <1>3, <1>4, <1>5
  <1> HIDE DEF n
  <1>7. reach' \in Int /\ reach' <= Given
    BY <1>1, <1>2, <1>6, PduRead
  <1>8. CASE Fails
    BY <1>1, <1>7, <1>8, EndsKeeps DEF Fails
  <1>9. CASE fits /\ Goes(Buffer.off + 24 + need, Buffer.off + m.frag, strings)
    <2>1. m.frag > 0 /\ m.frag <= Buffer.len
      BY <1>1, <1>3, <1>4, <1>9
    <2>2. Within(m.frag) <= Given /\ Within(m.frag) = Buffer.off + m.frag
      BY <1>1, <1>5, <2>1, GivenFacts DEF Within
    <2>3. /\ Buffer.off + 24 + need \in Int /\ Buffer.off + m.frag \in Int
          /\ Buffer.off + m.frag <= Given
      BY <1>1, <1>3, <1>5, <2>2
    <2> QED BY <1>1, <1>3, <1>7, <1>9, <2>3, GoesKeeps
  <1> QED BY <1>2, <1>8, <1>9

\* A token is walked inside its buffer, from its signature or from its first value.
LEMMA StartTokenKeeps ==
  ASSUME CodecInv, StartToken
  PROVE  CodecInv'
  <1>1. PICK n : n = IF startsWithNtlmSignature(Buffer.off, BufferEnd) THEN 2 ELSE 1
    OBVIOUS
  <1>2. pc = "reply" /\ Accepted /\ ~Pdu /\ Reads(Copied) /\ Goes(Buffer.off, BufferEnd, n)
    BY <1>1 DEF StartToken, Pdu
  <1>3. reach' \in Int /\ reach' <= Given
    BY <1>2, WalkedBuffer, FirstRead
  <1>4. n \in Int /\ (n = 2 => /\ BufferEnd - Buffer.off >= 8 /\ Buffer.off \in DOMAIN m.cells
                               /\ m.cells[Buffer.off].extra = Ntlmssp)
    BY <1>1 DEF startsWithNtlmSignature
  <1> QED BY <1>2, <1>3, <1>4, WalkedBuffer, GoesKeeps

-----------------------------------------------------------------------------
(* The walks.                                                               *)

\* Cells that the walk may find are sound.
LEMMA CellsAtSound ==
  ASSUME CodecInv, pc = "walk", NEW c \in CellsAt
  PROVE  SoundCell(m.kind, c) /\ (pos \notin DOMAIN m.cells => c.units = None)
  <1>1. CASE pos \in DOMAIN m.cells
    BY <1>1 DEF CellsAt, CodecInv, Read, IsReply
  <1>2. CASE pos \notin DOMAIN m.cells
    <2>1. PICK n \in {0, 1, 36, 108}, l \in {0, 1, 2, 200}, x \in {0, 34} : c = Cell(n, l, x, None)
      BY <1>2 DEF CellsAt, Garbage
    <2>2. /\ DOMAIN c = CellFields /\ c.next = n /\ c.len = l /\ c.extra = x /\ c.units = None
      BY <2>1 DEF Cell, CellFields
    <2> QED BY <2>2 DEF SoundCell, Ntlmssp
  <1> QED BY <1>1, <1>2

\* And so are the values in a token.
LEMMA ValuesAtSound ==
  ASSUME CodecInv, pc = "walk", NEW c \in ValuesAt
  PROVE  SoundCell(m.kind, c)
  <1>1. CASE pos \in DOMAIN m.cells
    BY <1>1 DEF ValuesAt, CodecInv, Read, IsReply
  <1>2. CASE pos \notin DOMAIN m.cells
    <2>1. PICK n \in {1, 2}, l \in {0, 9}, x \in {Primitive, Constructed} :
            c = Cell(Larger(0, end - pos - n), l, x, None)
      BY <1>2 DEF ValuesAt, DerGarbage
    <2>2. Larger(0, end - pos - n) \in Int
      BY <2>1 DEF CodecInv, Larger
    <2>3. /\ DOMAIN c = CellFields /\ c.next = Larger(0, end - pos - n) /\ c.len = l
          /\ c.extra = x /\ c.units = None
      BY <2>1 DEF Cell, CellFields
    <2> QED BY <2>1, <2>2, <2>3 DEF SoundCell, Ntlmssp, Primitive, Constructed
  <1> QED BY <1>1, <1>2

\* A read inside the buffer of the walk.
LEMMA WalkReads ==
  ASSUME CodecInv, pc = "walk", NEW n \in Int, n <= Given, Reads(n)
  PROVE  reach' \in Int /\ reach' <= Given
  BY DEF CodecInv, Read, Reads, Larger

\* A walk that goes on inside its buffer.
LEMMA MovesOn ==
  ASSUME CodecInv, pc = "walk", pos < end, m.kind # "token", pos' \in Int, left' \in Int,
         reach' \in Int, reach' <= Given,
         UNCHANGED <<pc, req, asked, m, damage, end, outer, ok>>
  PROVE  CodecInv'
  BY GivenStays DEF CodecInv, Unread, Read, Walking

\* Nothing is read of an entry that does not fit,
LEMMA TruncatedKeeps ==
  ASSUME CodecInv, Truncated
  PROVE  CodecInv'
  BY EndsKeeps DEF Truncated, Fails, CodecInv, Read

\* nor behind the last one,
LEMMA ChainEndsKeeps ==
  ASSUME CodecInv, ChainEnds
  PROVE  CodecInv'
  BY EndsKeeps DEF ChainEnds, CodecInv, Read

\* nor behind the last referral.
LEMMA ReferralsEndKeeps ==
  ASSUME CodecInv, ReferralsEnd
  PROVE  CodecInv'
  BY EndsKeeps DEF ReferralsEnd, CodecInv, Read

\* An entry and its name are inside the buffer, and so is the next entry.
LEMMA NextNameKeeps ==
  ASSUME CodecInv, NextName
  PROVE  CodecInv'
  <1>1. pc = "walk" /\ m.kind \in {"dir", "notify"} /\ pos < end /\ end - pos >= EntrySize[m.kind]
    BY DEF NextName
  <1>2. PICK size \in Nat : size = EntrySize[m.kind]
    BY <1>1 DEF EntrySize
  <1>3. pos \in Int /\ end \in Int /\ Given \in Int /\ end <= Given /\ pos + size <= end
    BY <1>1, <1>2, Decoding DEF CodecInv, Read, Walking, IsReply
  <1>4. PICK c \in CellsAt :
          \/ Reads(pos + size) /\ Fails
          \/ /\ pos + size + c.len <= end /\ ~NextIsBad(c)
             /\ Reads(pos + size + c.len)
             /\ Fails \/ \E t : Take(t) /\ Follow(c)
    BY <1>2 DEF NextName
  <1>5. c.len \in Int /\ c.next \in Int
    BY <1>1, <1>4, CellsAtSound DEF SoundCell
  <1>6. reach' \in Int /\ reach' <= Given
    <2>1. CASE Reads(pos + size)
      BY <1>1, <1>3, <2>1, WalkReads
    <2>2. CASE pos + size + c.len <= end /\ Reads(pos + size + c.len)
      <3>1. pos + size + c.len \in Int /\ pos + size + c.len <= Given
        BY <1>3, <1>5, <2>2
      <3> QED BY <1>1, <2>2, <3>1, WalkReads
    <2> QED BY <1>4, <2>1, <2>2
  <1>7. CASE Fails
    BY <1>1, <1>6, <1>7, EndsKeeps DEF Fails
  <1>8. CASE Follow(c)
    <2>1. CASE c.next = 0
      BY <1>1, <1>6, <1>8, <2>1, EndsKeeps DEF Follow
    <2>2. CASE c.next # 0
      <3>1. /\ pos' = pos + c.next
            /\ UNCHANGED <<pc, req, asked, m, damage, end, left, outer, ok>>
        BY <1>8, <2>2 DEF Follow
      <3>2. pos' \in Int /\ left' \in Int
        BY <1>3, <1>5, <3>1 DEF CodecInv
      <3> QED BY <1>1, <1>6, <3>1, <3>2, MovesOn
    <2> QED BY <2>1, <2>2
  <1> QED BY <1>4, <1>7, <1>8

\* So are name, NUL and value of an attribute.
LEMMA NextAttributeKeeps ==
  ASSUME CodecInv, NextAttribute
  PROVE  CodecInv'
  <1>1. pc = "walk" /\ m.kind = "ea" /\ pos < end /\ end - pos >= 8
    BY DEF NextAttribute, EntrySize
  <1>2. pos \in Int /\ end \in Int /\ Given \in Int /\ end <= Given /\ pos + 8 <= end
    BY <1>1, Decoding DEF CodecInv, Read, Walking, IsReply
  <1>3. PICK c \in CellsAt :
          \/ Reads(pos + 8) /\ Fails
          \/ /\ pos + 8 + c.len + 1 + c.extra <= end
             /\ Reads(pos + 8 + c.len + 1 + c.extra)
             /\ Fails \/ \E t : Take(t) /\ Follow(c)
    BY DEF NextAttribute, EntrySize
  <1>4. c.len \in Int /\ c.next \in Int /\ c.extra \in Int
    BY <1>1, <1>3, CellsAtSound DEF SoundCell
  <1>5. reach' \in Int /\ reach' <= Given
    <2>1. CASE Reads(pos + 8)
      BY <1>1, <1>2, <2>1, WalkReads
    <2>2. CASE pos + 8 + c.len + 1 + c.extra <= end /\ Reads(pos + 8 + c.len + 1 + c.extra)
      <3>1. pos + 8 + c.len + 1 + c.extra \in Int /\ pos + 8 + c.len + 1 + c.extra <= Given
        BY <1>2, <1>4, <2>2
      <3> QED BY <1>1, <2>2, <3>1, WalkReads
    <2> QED BY <1>3, <2>1, <2>2
  <1>6. CASE Fails
    BY <1>1, <1>5, <1>6, EndsKeeps DEF Fails
  <1>7. CASE Follow(c)
    <2>1. CASE c.next = 0
      BY <1>1, <1>5, <1>7, <2>1, EndsKeeps DEF Follow
    <2>2. CASE c.next # 0
      <3>1. /\ pos' = pos + c.next
            /\ UNCHANGED <<pc, req, asked, m, damage, end, left, outer, ok>>
        BY <1>7, <2>2 DEF Follow
      <3>2. pos' \in Int /\ left' \in Int
        BY <1>2, <1>4, <3>1 DEF CodecInv
      <3> QED BY <1>1, <1>5, <3>1, <3>2, MovesOn
    <2> QED BY <2>1, <2>2
  <1> QED BY <1>3, <1>6, <1>7

\* So are a referral, and its string up to the NUL.
LEMMA NextReferralKeeps ==
  ASSUME CodecInv, NextReferral
  PROVE  CodecInv'
  <1>1. pc = "walk" /\ m.kind = "dfs"
    BY DEF NextReferral
  <1>2. pos \in Int /\ end \in Int /\ left \in Int /\ Given \in Int /\ reach \in Int
        /\ reach <= Given
    BY <1>1, Decoding DEF CodecInv, Read, Walking, IsReply
  <1>3. CASE UNCHANGED reach /\ Fails
    BY <1>1, <1>2, <1>3, EndsKeeps DEF Fails
  <1>4. CASE ~(UNCHANGED reach /\ Fails)
    <2> DEFINE stop(c) == IF c.units = None THEN end ELSE pos + c.len + (2 * Len(c.units)) + 2
               last(c) == IF stop(c) > end THEN end ELSE Larger(stop(c), pos + c.extra)
    <2>1. pos + 4 <= end
      BY <1>4 DEF NextReferral
    <2>2. end <= Given
      BY <1>1, <1>2, <2>1 DEF CodecInv, Walking
    <2>3. PICK c \in CellsAt :
            \/ Reads(pos + 4) /\ Fails
            \/ /\ pos + c.next <= end /\ c.next >= c.extra
               /\ Reads(pos + c.extra) /\ Fails
            \/ /\ pos + c.next <= end /\ c.next >= c.extra
               /\ Reads(last(c))
               /\ \/ Fails
                  \/ /\ pos' = pos + c.next /\ left' = left - 1
                     /\ UNCHANGED <<pc, req, asked, m, damage, end, outer, ok>>
      <3> HIDE DEF last
      <3>1. ASSUME NEW c \in CellsAt, NEW t, NEW T,
                   \E t0 \in T : /\ Reads(last(c))
                                 /\ IF t0 = None THEN Fails
                                    ELSE /\ Take(t0)
                                         /\ pos' = pos + c.next /\ left' = left - 1
                                         /\ UNCHANGED <<pc, req, asked, m, damage, end, outer, ok>>
            PROVE  /\ Reads(last(c))
                   /\ \/ Fails
                      \/ /\ pos' = pos + c.next /\ left' = left - 1
                         /\ UNCHANGED <<pc, req, asked, m, damage, end, outer, ok>>
        BY <3>1
      <3> USE DEF last
      <3> QED BY <1>4, <3>1 DEF NextReferral
    <2>4. c.next \in Int /\ c.len \in Int /\ c.extra \in Int
          /\ (c.units # None => Len(c.units) \in Nat)
      BY <1>1, <2>3, CellsAtSound DEF SoundCell
    <2>5. stop(c) \in Int
      BY <1>2, <2>4
    <2>6. reach' \in Int /\ reach' <= Given
      <3>1. CASE Reads(pos + 4)
        BY <1>1, <1>2, <2>1, <2>2, <3>1, WalkReads
      <3>2. CASE pos + c.next <= end /\ c.next >= c.extra /\ Reads(pos + c.extra)
        <4>1. pos + c.extra \in Int /\ pos + c.extra <= Given
          BY <1>2, <2>2, <2>4, <3>2
        <4> QED BY <1>1, <3>2, <4>1, WalkReads
      <3>3. CASE pos + c.next <= end /\ c.next >= c.extra /\ Reads(last(c))
        <4>1. last(c) \in Int /\ last(c) <= Given
          <5> HIDE DEF stop
          <5> QED BY <1>2, <2>2, <2>4, <2>5, <3>3 DEF Larger
        <4> HIDE DEF last
        <4> QED BY <1>1, <3>3, <4>1, WalkReads
      <3> HIDE DEF last
      <3> QED BY <2>3, <3>1, <3>2, <3>3
    <2>7. CASE Fails
      BY <1>1, <2>6, <2>7, EndsKeeps DEF Fails
    <2>8. CASE /\ pos' = pos + c.next /\ left' = left - 1
               /\ UNCHANGED <<pc, req, asked, m, damage, end, outer, ok>>
      <3>1. pos' \in Int /\ left' \in Int /\ pos < end
        BY <1>2, <2>1, <2>4, <2>8
      <3> QED BY <1>1, <2>6, <2>8, <3>1, MovesOn
    <2> HIDE DEF last
    <2> QED BY <2>3, <2>7, <2>8
  <1> QED BY <1>3, <1>4

\* So are the counts and the text of an NDR string.
LEMMA NextStringKeeps ==
  ASSUME CodecInv, NextString
  PROVE  CodecInv'
  <1>1. pc = "walk" /\ m.kind = "shares"
    BY DEF NextString
  <1>2. pos \in Int /\ end \in Int /\ left \in Int /\ Given \in Int /\ reach \in Int
        /\ reach <= Given
    BY <1>1, Decoding DEF CodecInv, Read, Walking, IsReply
  <1>3. CASE UNCHANGED reach /\ Fails
    BY <1>1, <1>2, <1>3, EndsKeeps DEF Fails
  <1>4. CASE ~(UNCHANGED reach /\ Fails)
    <2>1. pos + 12 <= end
      BY <1>4 DEF NextString
    <2>2. end <= Given
      BY <1>1, <1>2, <2>1 DEF CodecInv, Walking
    <2> DEFINE stop(c) == pos + 12 + (2 * c.len)
               after(c) == Buffer.off + 24 + Aligned(stop(c) - (Buffer.off + 24), 4)
    <2>3. PICK c \in CellsAt :
            \/ Reads(pos + 12) /\ Fails
            \/ /\ stop(c) <= end /\ Reads(stop(c))
               /\ \/ Fails
                  \/ /\ pos' = after(c) /\ left' = left - 1
                     /\ UNCHANGED <<pc, req, asked, m, damage, end, outer, ok>>
      BY <1>4 DEF NextString
    <2>4. c.len \in Int
      BY <1>1, <2>3, CellsAtSound DEF SoundCell
    <2>5. stop(c) \in Int
      BY <1>2, <2>4
    <2> HIDE DEF stop
    <2>6. reach' \in Int /\ reach' <= Given
      <3>1. CASE Reads(pos + 12)
        BY <1>1, <1>2, <2>1, <2>2, <3>1, WalkReads
      <3>2. CASE stop(c) <= end /\ Reads(stop(c))
        <4>1. stop(c) <= Given
          BY <1>2, <2>2, <2>5, <3>2
        <4> QED BY <1>1, <2>5, <3>2, <4>1, WalkReads
      <3> HIDE DEF after
      <3> QED BY <2>3, <3>1, <3>2
    <2>7. CASE Fails
      BY <1>1, <2>6, <2>7, EndsKeeps DEF Fails
    <2>8. CASE /\ pos' = after(c) /\ left' = left - 1
               /\ UNCHANGED <<pc, req, asked, m, damage, end, outer, ok>>
      <3>1. Buffer.off \in Int
        BY <1>1, BufferIsSound DEF CodecInv, Read
      <3>2. after(c) \in Int
        BY <2>5, <3>1, AlignedToFour
      <3> HIDE DEF after
      <3>3. pos' \in Int /\ left' \in Int /\ pos < end
        BY <1>2, <2>1, <2>8, <3>2
      <3> QED BY <1>1, <2>6, <2>8, <3>3, MovesOn
    <2> HIDE DEF after
    <2> QED BY <2>3, <2>7, <2>8
  <1> QED BY <1>3, <1>4

\* The totals are read when they are there.
LEMMA SharesEndKeeps ==
  ASSUME CodecInv, SharesEnd
  PROVE  CodecInv'
  <1>1. pc = "walk" /\ \E v : Ends(v)
    BY DEF SharesEnd, Fails
  <1>2. reach' \in Int /\ reach' <= Given
    <2>1. pos \in Int /\ end \in Int /\ Given \in Int /\ reach \in Int /\ reach <= Given
      BY <1>1, Decoding DEF CodecInv, Read, IsReply
    <2>2. CASE UNCHANGED reach
      BY <2>1, <2>2
    <2>3. PICK n \in {12, 16} : UNCHANGED reach \/ (pos + n <= end /\ Reads(pos + n))
      BY DEF SharesEnd
    <2>4. CASE pos + n <= end /\ Reads(pos + n)
      <3>1. pos + n \in Int /\ pos + n <= Given
        BY <1>1, <2>1, <2>3, <2>4 DEF CodecInv, Walking
      <3> QED BY <1>1, <2>4, <3>1, WalkReads
    <2> QED BY <2>2, <2>3, <2>4
  <1> QED BY <1>1, <1>2, EndsKeeps

(* The token: DER values, then the challenge and its pairs.                 *)

\* The next value, or the values inside it, with what was read in the reply.
LEMMA Enters ==
  ASSUME CodecInv, pc = "walk", NEW from \in Int, NEW to \in Int, NEW n \in Int,
         NEW ends \in Seq(Int), Enter(from, to, n, ends), reach' \in Int, reach' <= Given,
         from < to => to <= Given, \A i \in DOMAIN ends : ends[i] <= Given,
         n = 2 => /\ to - from >= 8 /\ to <= Given
                  /\ from \in DOMAIN m.cells /\ m.cells[from].extra = Ntlmssp
  PROVE  CodecInv'
  <1>1. Given' = Given
    BY GivenStays DEF Enter
  <1> QED BY <1>1 DEF CodecInv, Unread, Read, Walking, Enter

\* Behind a value that is passed over, the one around it goes on.
LEMMA PassOverKeeps ==
  ASSUME CodecInv, pc = "walk", left = 1, PassOver, reach' \in Int, reach' <= Given
  PROVE  CodecInv'
  <1>1. CASE outer = <<>>
    BY <1>1, EndsKeeps DEF PassOver, Fails
  <1>2. CASE outer # <<>>
    <2>1. /\ pos' = end /\ end' = Head(outer) /\ outer' = Tail(outer)
          /\ UNCHANGED <<pc, req, asked, m, damage, left, got, ok>>
      BY <1>2 DEF PassOver
    <2>2. outer \in Seq(Int) /\ \A i \in DOMAIN outer : outer[i] <= Given
      BY DEF CodecInv, Walking
    <2>3. Head(outer) \in Int /\ Head(outer) <= Given /\ Tail(outer) \in Seq(Int)
      BY <1>2, <2>2
    <2>4. \A i \in DOMAIN Tail(outer) : Tail(outer)[i] <= Given
      BY <1>2, <2>2
    <2>5. Given' = Given
      BY <2>1, GivenStays
    <2> QED BY <2>1, <2>3, <2>4, <2>5 DEF CodecInv, Unread, Read, Walking
  <1> QED BY <1>1, <1>2

\* A value is inside the one around it.
LEMMA NextValueKeeps ==
  ASSUME CodecInv, NextValue
  PROVE  CodecInv'
  <1>1. pc = "walk" /\ m.kind = "token" /\ left = 1
    BY DEF NextValue
  <1>2. /\ pos \in Int /\ end \in Int /\ Given \in Int /\ reach \in Int /\ reach <= Given
        /\ outer \in Seq(Int) /\ \A i \in DOMAIN outer : outer[i] <= Given
        /\ pos < end => end <= Given
    BY <1>1, Decoding DEF CodecInv, Read, Walking, IsReply
  <1>3. CASE pos >= end
    BY <1>1, <1>2, <1>3, PassOverKeeps DEF NextValue
  <1>4. CASE pos < end
    <2> DEFINE from(c) == pos + 2 + c.len
               to(c) == from(c) + c.next
    <2>1. PICK c \in ValuesAt :
            \/ Reads(pos + 1) /\ PassOver
            \/ pos + 1 < end /\ Reads(pos + 2) /\ PassOver
            \/ from(c) <= end /\ Reads(from(c)) /\ PassOver
            \/ /\ from(c) <= end /\ to(c) <= end /\ Reads(to(c))
               /\ \/ startsWithNtlmSignature(from(c), to(c)) /\ Enter(from(c), to(c), 2, outer)
                  \/ Enter(from(c), to(c), 1, <<end>> \o outer)
                  \/ Enter(to(c), end, 1, outer)
      <3>1. ~(pos >= end)
        BY <1>2, <1>4
      <3>2. PICK c \in ValuesAt :
              IF pos + 1 >= end THEN Reads(pos + 1) /\ PassOver
              ELSE IF c.len > 8 \/ from(c) > end THEN Reads(pos + 2) /\ PassOver
              ELSE IF to(c) > end THEN Reads(from(c)) /\ PassOver
              ELSE /\ Reads(to(c))
                   /\ \/ startsWithNtlmSignature(from(c), to(c)) /\ Enter(from(c), to(c), 2, outer)
                      \/ Enter(from(c), to(c), 1, <<end>> \o outer)
                      \/ Enter(to(c), end, 1, outer)
        BY <3>1 DEF NextValue
      <3>3. c.next \in Int /\ c.len \in Int
        BY <1>1, <3>2, ValuesAtSound DEF SoundCell
      <3>4. from(c) \in Int /\ to(c) \in Int
        BY <1>2, <3>3
      <3> HIDE DEF from, to
      <3> QED BY <1>2, <3>2, <3>4
    <2>2. c.next \in Int /\ c.len \in Int
      BY <1>1, <2>1, ValuesAtSound DEF SoundCell
    <2>3. from(c) \in Int /\ to(c) \in Int /\ end <= Given
      BY <1>2, <1>4, <2>2
    <2> HIDE DEF from, to
    <2>4. reach' \in Int /\ reach' <= Given
      <3>1. PICK n \in Int : n <= Given /\ Reads(n)
        BY <1>2, <1>4, <2>1, <2>3
      <3> QED BY <1>1, <3>1, WalkReads
    <2>5. CASE PassOver
      BY <1>1, <2>4, <2>5, PassOverKeeps
    <2>6. CASE startsWithNtlmSignature(from(c), to(c)) /\ to(c) <= end
               /\ Enter(from(c), to(c), 2, outer)
      <3>1. /\ to(c) - from(c) >= 8 /\ to(c) <= Given
            /\ from(c) \in DOMAIN m.cells /\ m.cells[from(c)].extra = Ntlmssp
        BY <1>2, <2>3, <2>6 DEF startsWithNtlmSignature
      <3> QED BY <1>1, <1>2, <2>3, <2>4, <2>6, <3>1, Enters
    <2>7. CASE Enter(from(c), to(c), 1, <<end>> \o outer) /\ to(c) <= end
      <3>1. PICK ends : ends = <<end>> \o outer
        OBVIOUS
      <3>2. ends \in Seq(Int) /\ \A i \in DOMAIN ends : ends[i] <= Given
        BY <1>2, <2>3, <3>1
      <3>3. to(c) <= Given
        BY <1>2, <2>3, <2>7
      <3>4. Enter(from(c), to(c), 1, ends)
        BY <2>7, <3>1
      <3> QED BY <1>1, <2>3, <2>4, <3>2, <3>3, <3>4, Enters
    <2>8. CASE Enter(to(c), end, 1, outer)
      BY <1>1, <1>2, <2>3, <2>4, <2>8, Enters
    <2> QED BY <2>1, <2>5, <2>6, <2>7, <2>8
  <1> QED BY <1>2, <1>3, <1>4

\* The buffers of a challenge are inside it.
LEMMA ChallengeKeeps ==
  ASSUME CodecInv, decodeNtlmChallengeMessage
  PROVE  CodecInv'
  <1>1. pc = "walk" /\ m.kind = "token" /\ left = 2
    BY DEF decodeNtlmChallengeMessage
  <1>2. PICK c : c = m.cells[pos]
    OBVIOUS
  <1>3. /\ pos \in Int /\ end \in Int /\ Given \in Int /\ outer \in Seq(Int)
        /\ \A i \in DOMAIN outer : outer[i] <= Given
        /\ pos + 8 <= end /\ end <= Given
        /\ SoundCell("token", c) /\ c.extra = Ntlmssp
    BY <1>1, <1>2, Decoding DEF CodecInv, Read, Walking, IsReply
  <1>4. c.next \in Int /\ c.len \in Int /\ Len(c.units) \in Nat
    BY <1>3 DEF SoundCell
  <1>5. PICK info : info = pos + 56 + (2 * Len(c.units))
    OBVIOUS
  <1>6. info \in Int
    BY <1>3, <1>4, <1>5
  <1>7. \/ Reads(pos + 8) /\ Fails
        \/ end - pos >= 48 /\ Reads(pos + 48) /\ Fails
        \/ end - pos >= 48 /\ Reads(pos + 48) /\ Ends(TRUE)
        \/ /\ end - pos >= 48 /\ Reads(pos + 48)
           /\ ~(c.next > 0 /\ info + c.next > end) /\ c.next # 0
           /\ pos' = info /\ end' = info + c.next /\ left' = 3
           /\ UNCHANGED <<pc, req, asked, m, damage, outer, ok>>
    <2>1. IF end - pos < 48 THEN Reads(pos + 8) /\ Fails
          ELSE IF (c.len > 0 /\ pos + 56 + c.len > end) \/ (c.next > 0 /\ info + c.next > end)
          THEN Reads(pos + 48) /\ Fails
          ELSE /\ Reads(pos + 48)
               /\ \E t \in TextAt(c, c.len) :
                    IF t = None THEN Fails
                    ELSE /\ Take(t)
                         /\ IF c.next = 0 THEN Ends(TRUE)
                            ELSE /\ pos' = info /\ end' = info + c.next /\ left' = 3
                                 /\ UNCHANGED <<pc, req, asked, m, damage, outer, ok>>
      BY <1>2, <1>5, Zenon DEF decodeNtlmChallengeMessage
    <2>2. ~(end - pos < 48) => end - pos >= 48
      BY <1>3
    <2> QED BY <2>1, <2>2
  <1>8. reach' \in Int /\ reach' <= Given
    <2>1. CASE Reads(pos + 8)
      BY <1>1, <1>3, <2>1, WalkReads
    <2>2. CASE end - pos >= 48 /\ Reads(pos + 48)
      <3>1. pos + 48 \in Int /\ pos + 48 <= Given
        BY <1>3, <2>2
      <3> QED BY <1>1, <2>2, <3>1, WalkReads
    <2> QED BY <1>7, <2>1, <2>2
  <1>9. CASE Fails \/ Ends(TRUE)
    BY <1>1, <1>8, <1>9, EndsKeeps DEF Fails
  <1>10. CASE /\ ~(c.next > 0 /\ info + c.next > end)
              /\ pos' = info /\ end' = info + c.next /\ left' = 3
              /\ UNCHANGED <<pc, req, asked, m, damage, outer, ok>>
    <2>1. pos' \in Int /\ end' \in Int /\ (pos' < end' => end' <= Given)
      BY <1>3, <1>4, <1>6, <1>10
    <2>2. Given' = Given
      BY <1>10, GivenStays
    <2> QED BY <1>1, <1>3, <1>8, <1>10, <2>1, <2>2 DEF CodecInv, Unread, Read, Walking
  <1> QED BY <1>7, <1>9, <1>10

\* A pair is inside the target information.
LEMMA NextPairKeeps ==
  ASSUME CodecInv, NextPair
  PROVE  CodecInv'
  <1>1. pc = "walk" /\ m.kind = "token" /\ left = 3
    BY DEF NextPair
  <1>2. /\ pos \in Int /\ end \in Int /\ Given \in Int /\ reach \in Int /\ reach <= Given
        /\ outer \in Seq(Int) /\ \A i \in DOMAIN outer : outer[i] <= Given
        /\ pos < end => end <= Given
    BY <1>1, Decoding DEF CodecInv, Read, Walking, IsReply
  <1>3. CASE pos + 4 > end
    <2>1. UNCHANGED reach /\ Fails
      BY <1>3 DEF NextPair
    <2> QED BY <1>1, <1>2, <2>1, EndsKeeps DEF Fails
  <1>4. CASE ~(pos + 4 > end)
    <2>1. PICK c \in CellsAt :
            \/ Reads(pos + 4) /\ \E v : Ends(v)
            \/ /\ ~(pos + 4 + c.next > end) /\ c.next = 8 /\ Reads(pos + 12) /\ Ends(TRUE)
            \/ Reads(pos + 4) /\ Enter(pos + 4 + c.next, end, 3, outer)
      BY <1>4 DEF NextPair, Fails
    <2>2. c.next \in Int
      BY <1>1, <2>1, CellsAtSound DEF SoundCell
    <2>3. end <= Given
      BY <1>2, <1>4
    <2>4. reach' \in Int /\ reach' <= Given
      <3>1. CASE Reads(pos + 4)
        BY <1>1, <1>2, <1>4, <2>3, <3>1, WalkReads
      <3>2. CASE ~(pos + 4 + c.next > end) /\ c.next = 8 /\ Reads(pos + 12)
        <4>1. pos + 12 \in Int /\ pos + 12 <= Given
          BY <1>2, <2>3, <3>2
        <4> QED BY <1>1, <3>2, <4>1, WalkReads
      <3> QED BY <2>1, <3>1, <3>2
    <2>5. CASE \E v : Ends(v)
      BY <1>1, <2>4, <2>5, EndsKeeps
    <2>6. CASE Enter(pos + 4 + c.next, end, 3, outer)
      <3>1. pos + 4 + c.next \in Int
        BY <1>2, <2>2
      <3> QED BY <1>1, <1>2, <2>3, <2>4, <2>6, <3>1, Enters
    <2> QED BY <2>1, <2>5, <2>6
  <1> QED BY <1>3, <1>4

-----------------------------------------------------------------------------
(* The reply on its way.                                                    *)

\* Another reply takes the place of the one the server sent.
Replaced ==
  /\ pc = "reply" /\ IsReply(m')
  /\ UNCHANGED <<pc, req, asked, damage, pos, end, left, outer, got, ok, reach>>

\* Before it is read, a reply may be any other.
LEMMA ReplacedKeeps ==
  ASSUME CodecInv, pc = "reply", IsReply(m'),
         UNCHANGED <<pc, asked, pos, end, left, outer, reach>>
  PROVE  CodecInv'
  <1>1. asked' \in Commands /\ reach' = 0
    BY DEF CodecInv, Unread
  <1>2. Given' \in Nat
    BY <1>1, SizedNext DEF Sized
  <1> QED BY <1>1, <1>2 DEF CodecInv, Unread, Read, Walking

\* A shorter reply is a reply,
LEMMA CutKeeps ==
  ASSUME CodecInv, Cut
  PROVE  CodecInv'
  <1>1. pc = "reply" /\ IsReply(m) /\ UNCHANGED <<pc, asked, pos, end, left, outer, reach>>
    BY DEF Cut, CodecInv, Read
  <1>2. PICK n \in 0..m.size - 1 : m' = [m EXCEPT !.size = n]
    BY DEF Cut
  <1>3. IsReply(m')
    BY <1>1, <1>2 DEF IsReply, ReplyFields
  <1> QED BY <1>1, <1>3, ReplacedKeeps

\* One field other than buffers and cells.
LEMMA FieldChanged ==
  ASSUME IsReply(m), NEW r,
         r \in {[m EXCEPT !.command = "Echo"], [m EXCEPT !.flag = FALSE],
                [m EXCEPT !.status = "ACCESS_DENIED"], [m EXCEPT !.smb2 = FALSE],
                [m EXCEPT !.structure = @ + 1], [m EXCEPT !.offered = FALSE],
                [m EXCEPT !.count = @ + 1], [m EXCEPT !.count = 0],
                [m EXCEPT !.count = @ + 1, !.array = m.count + 1],
                [m EXCEPT !.frag = @ + 1], [m EXCEPT !.frag = 16], [m EXCEPT !.frag = 36],
                [m EXCEPT !.array = 0], [m EXCEPT !.container = FALSE],
                [m EXCEPT !.per = 0], [m EXCEPT !.per = 2],
                [m EXCEPT !.resume = ~@], [m EXCEPT !.granted = FALSE]}
  PROVE  IsReply(r)
  <1>1. CASE r \in {[m EXCEPT !.command = "Echo"], [m EXCEPT !.flag = FALSE],
                    [m EXCEPT !.status = "ACCESS_DENIED"], [m EXCEPT !.smb2 = FALSE],
                    [m EXCEPT !.structure = @ + 1], [m EXCEPT !.offered = FALSE]}
    <2>1. /\ DOMAIN r = ReplyFields /\ r.size = m.size /\ r.count = m.count
          /\ r.frag = m.frag /\ r.per = m.per
      BY <1>1 DEF IsReply, ReplyFields
    <2>2. r.bufs = m.bufs /\ r.cells = m.cells /\ r.kind = m.kind
      BY <1>1 DEF IsReply, ReplyFields
    <2> QED BY <2>1, <2>2 DEF IsReply
  <1>2. CASE r \in {[m EXCEPT !.count = @ + 1], [m EXCEPT !.count = 0],
                    [m EXCEPT !.count = @ + 1, !.array = m.count + 1],
                    [m EXCEPT !.frag = @ + 1], [m EXCEPT !.frag = 16], [m EXCEPT !.frag = 36]}
    <2>1. m.count + 1 \in Nat /\ m.frag + 1 \in Nat
      BY DEF IsReply
    <2>2. ASSUME NEW k \in Nat
          PROVE  /\ IsReply([m EXCEPT !.count = k]) /\ IsReply([m EXCEPT !.frag = k])
                 /\ \A x : IsReply([m EXCEPT !.count = k, !.array = x])
      BY DEF IsReply, ReplyFields
    <2>3. PICK k \in Nat : \/ r = [m EXCEPT !.count = k] \/ r = [m EXCEPT !.frag = k]
                           \/ r = [m EXCEPT !.count = k, !.array = m.count + 1]
      <3>1. CASE r \in {[m EXCEPT !.count = @ + 1], [m EXCEPT !.count = 0]}
        BY <2>1, <3>1
      <3>2. CASE r = [m EXCEPT !.count = @ + 1, !.array = m.count + 1]
        BY <2>1, <3>2
      <3>3. CASE r \in {[m EXCEPT !.frag = @ + 1], [m EXCEPT !.frag = 16], [m EXCEPT !.frag = 36]}
        BY <2>1, <3>3
      <3> QED BY <1>2, <3>1, <3>2, <3>3
    <2> QED BY <2>2, <2>3
  <1>3. CASE r \in {[m EXCEPT !.array = 0], [m EXCEPT !.container = FALSE],
                    [m EXCEPT !.per = 0], [m EXCEPT !.per = 2],
                    [m EXCEPT !.resume = ~@], [m EXCEPT !.granted = FALSE]}
    <2>1. /\ DOMAIN r = ReplyFields /\ r.size = m.size /\ r.count = m.count
          /\ r.frag = m.frag /\ r.per \in 0..2
      BY <1>3 DEF IsReply, ReplyFields
    <2>2. r.bufs = m.bufs /\ r.cells = m.cells /\ r.kind = m.kind
      BY <1>3 DEF IsReply, ReplyFields
    <2> QED BY <2>1, <2>2 DEF IsReply
  <1> QED BY <1>1, <1>2, <1>3

\* One number of a buffer.
LEMMA BufferChanged ==
  ASSUME IsReply(m), NEW i \in DOMAIN m.bufs, NEW n \in Nat, NEW r,
         \/ r = [m EXCEPT !.bufs[i].off = n]
         \/ r = [m EXCEPT !.bufs[i].len = n]
  PROVE  IsReply(r)
  <1>1. /\ DOMAIN r = ReplyFields /\ r.size = m.size /\ r.count = m.count /\ r.frag = m.frag
        /\ r.per = m.per /\ r.cells = m.cells /\ r.kind = m.kind
    BY DEF IsReply, ReplyFields
  <1>2. PICK s : s = m.bufs
    OBVIOUS
  <1>3. s \in Seq([off : Nat, len : Nat]) /\ i \in DOMAIN s
    BY <1>2 DEF IsReply
  <1>4. r.bufs = [s EXCEPT ![i].off = n] \/ r.bufs = [s EXCEPT ![i].len = n]
    BY <1>2 DEF IsReply, ReplyFields
  <1>5. s[i] \in [off : Nat, len : Nat]
    BY <1>3, InSeq
  <1>6. PICK b \in [off : Nat, len : Nat] : r.bufs = [s EXCEPT ![i] = b]
    <2>1. CASE r.bufs = [s EXCEPT ![i].off = n]
      <3>1. [s[i] EXCEPT !.off = n] \in [off : Nat, len : Nat]
        BY <1>5
      <3> QED BY <2>1, <3>1
    <2>2. CASE r.bufs = [s EXCEPT ![i].len = n]
      <3>1. [s[i] EXCEPT !.len = n] \in [off : Nat, len : Nat]
        BY <1>5
      <3> QED BY <2>2, <3>1
    <2> QED BY <1>4, <2>1, <2>2
  <1>7. r.bufs \in Seq([off : Nat, len : Nat])
    <2>1. PICK T : T = [off : Nat, len : Nat]
      OBVIOUS
    <2>2. s \in Seq(T) /\ b \in T /\ i \in DOMAIN s
      BY <1>3, <1>6, <2>1
    <2>3. [s EXCEPT ![i] = b] \in Seq(T)
      BY <2>2
    <2> QED BY <1>6, <2>1, <2>3
  <1> QED BY <1>1, <1>7 DEF IsReply

\* One number of a cell.
LEMMA CellChanged ==
  ASSUME IsReply(m), NEW p \in DOMAIN m.cells, NEW n \in Int, NEW r,
         \/ r = [m EXCEPT !.cells[p].next = n]
         \/ r = [m EXCEPT !.cells[p].len = n]
  PROVE  IsReply(r)
  <1>1. /\ DOMAIN r = ReplyFields /\ r.size = m.size /\ r.count = m.count /\ r.frag = m.frag
        /\ r.per = m.per /\ r.bufs = m.bufs /\ r.kind = m.kind
    BY DEF IsReply, ReplyFields
  <1>2. PICK s : s = m.cells
    OBVIOUS
  <1>3. \A q \in DOMAIN s : SoundCell(m.kind, s[q])
    BY <1>2 DEF IsReply
  <1>4. r.cells = [s EXCEPT ![p].next = n] \/ r.cells = [s EXCEPT ![p].len = n]
    BY <1>2 DEF IsReply, ReplyFields
  <1>5. PICK c : SoundCell(m.kind, c) /\ r.cells = [s EXCEPT ![p] = c]
    <2>1. SoundCell(m.kind, s[p])
      BY <1>2, <1>3
    <2>2. CASE r.cells = [s EXCEPT ![p].next = n]
      <3>1. SoundCell(m.kind, [s[p] EXCEPT !.next = n])
        BY <2>1 DEF SoundCell, CellFields
      <3> QED BY <2>2, <3>1
    <2>3. CASE r.cells = [s EXCEPT ![p].len = n]
      <3>1. SoundCell(m.kind, [s[p] EXCEPT !.len = n])
        BY <2>1 DEF SoundCell, CellFields
      <3> QED BY <2>3, <3>1
    <2> QED BY <1>4, <2>2, <2>3
  <1>6. \A q \in DOMAIN r.cells : SoundCell(r.kind, r.cells[q])
    BY <1>1, <1>3, <1>5
  <1> QED BY <1>1, <1>6 DEF IsReply

\* and so is one with another field.
LEMMA ChangeKeeps ==
  ASSUME CodecInv, Change
  PROVE  CodecInv'
  <1>1. pc = "reply" /\ IsReply(m) /\ UNCHANGED <<pc, asked, pos, end, left, outer, reach>>
    BY DEF Change, CodecInv, Read
  <1>2. m.size \in Nat /\ m.bufs \in Seq([off : Nat, len : Nat])
        /\ \A p \in DOMAIN m.cells : m.cells[p].next \in Int /\ m.cells[p].len \in Int
    BY <1>1 DEF IsReply, SoundCell
  <1>3. ASSUME NEW i \in DOMAIN m.bufs PROVE m.bufs[i].len \in Nat
    <2>1. m.bufs[i] \in [off : Nat, len : Nat]
      BY <1>2, InSeq
    <2> QED BY <2>1
  <1>4. IsReply(m')
    <2>1. CASE m' \in {[m EXCEPT !.command = "Echo"], [m EXCEPT !.flag = FALSE],
                [m EXCEPT !.status = "ACCESS_DENIED"], [m EXCEPT !.smb2 = FALSE],
                [m EXCEPT !.structure = @ + 1], [m EXCEPT !.offered = FALSE],
                [m EXCEPT !.count = @ + 1], [m EXCEPT !.count = 0],
                [m EXCEPT !.count = @ + 1, !.array = m.count + 1],
                [m EXCEPT !.frag = @ + 1], [m EXCEPT !.frag = 16], [m EXCEPT !.frag = 36],
                [m EXCEPT !.array = 0], [m EXCEPT !.container = FALSE],
                [m EXCEPT !.per = 0], [m EXCEPT !.per = 2],
                [m EXCEPT !.resume = ~@], [m EXCEPT !.granted = FALSE]}
      BY <1>1, <2>1, FieldChanged
    <2>2. CASE \E i \in DOMAIN m.bufs, n \in Nat :
                 m' = [m EXCEPT !.bufs[i].off = n] \/ m' = [m EXCEPT !.bufs[i].len = n]
      BY <1>1, <2>2, BufferChanged
    <2>3. CASE \E p \in DOMAIN m.cells, n \in Int :
                 m' = [m EXCEPT !.cells[p].next = n] \/ m' = [m EXCEPT !.cells[p].len = n]
      BY <1>1, <2>3, CellChanged
    <2>4. CASE \E i \in DOMAIN m.bufs :
                 \/ \E n \in {0, 63, 64, 65, m.size, m.size + 1} : m' = [m EXCEPT !.bufs[i].off = n]
                 \/ \E n \in {0, 1, m.bufs[i].len + 1, m.size} : m' = [m EXCEPT !.bufs[i].len = n]
      <3>1. PICK i \in DOMAIN m.bufs :
              \/ \E n \in {0, 63, 64, 65, m.size, m.size + 1} : m' = [m EXCEPT !.bufs[i].off = n]
              \/ \E n \in {0, 1, m.bufs[i].len + 1, m.size} : m' = [m EXCEPT !.bufs[i].len = n]
        BY <2>4
      <3>2. {0, 63, 64, 65, m.size, m.size + 1} \subseteq Nat
            /\ {0, 1, m.bufs[i].len + 1, m.size} \subseteq Nat
        BY <1>2, <1>3, SMTT(30)
      <3> QED BY <2>2, <3>1, <3>2, Zenon
    <2>5. CASE \E p \in DOMAIN m.cells :
                 \/ \E n \in {0, 1, 4, 8, m.cells[p].next + 1, m.cells[p].next + 4, m.size} :
                      m' = [m EXCEPT !.cells[p].next = n]
                 \/ \E n \in {0, 1, m.cells[p].len + 1, m.cells[p].len + 2, m.size} :
                      m' = [m EXCEPT !.cells[p].len = n]
      <3>1. PICK p \in DOMAIN m.cells :
              \/ \E n \in {0, 1, 4, 8, m.cells[p].next + 1, m.cells[p].next + 4, m.size} :
                   m' = [m EXCEPT !.cells[p].next = n]
              \/ \E n \in {0, 1, m.cells[p].len + 1, m.cells[p].len + 2, m.size} :
                   m' = [m EXCEPT !.cells[p].len = n]
        BY <2>5
      <3>2. {0, 1, 4, 8, m.cells[p].next + 1, m.cells[p].next + 4, m.size} \subseteq Int
            /\ {0, 1, m.cells[p].len + 1, m.cells[p].len + 2, m.size} \subseteq Int
        BY <1>2
      <3> QED BY <2>3, <3>1, <3>2, Zenon
    <2> QED BY <2>1, <2>4, <2>5 DEF Change
  <1> QED BY <1>1, <1>4, ReplacedKeeps

\* The next exchange begins like the first.
LEMMA ForgetKeeps ==
  ASSUME CodecInv, Forget
  PROVE  CodecInv'
  BY DEF Forget, CodecInv, Unread, Read, Walking

-----------------------------------------------------------------------------
(* The replies of a server.                                                 *)

\* The cells of a list begin one after the other.
LEMMA StartsFacts ==
  ASSUME NEW from \in Nat, NEW k \in Nat, NEW sizes, Len(sizes) = k,
         \A i \in 1..k : sizes[i] \in Nat
  PROVE  /\ DOMAIN Starts(from, sizes) = 1..k
         /\ \A i \in 1..k : Starts(from, sizes)[i] \in Nat /\ Starts(from, sizes)[i] >= from
  <1> DEFINE Value(f, n) == IF n = 1 THEN from ELSE f[n - 1] + sizes[n - 1]
             Upto(f, n) == f = [i \in 1..n |-> Value(f, i)]
             D == {n \in Nat : \E f : Upto(f, n)}
  <1>1. 0 \in D
    <2>1. PICK f : f = [i \in 1..0 |-> 0]
      OBVIOUS
    <2>2. Upto(f, 0)
      BY <2>1
    <2> QED BY <2>2
  <1>2. ASSUME NEW n \in Nat, n \in D PROVE n + 1 \in D
    <2>1. PICK f : Upto(f, n)
      BY <1>2
    <2>2. \A i \in 1..n : f[i] = Value(f, i)
      BY <2>1
    <2>3. PICK g : g = [i \in 1..(n + 1) |-> IF i \in 1..n THEN f[i] ELSE Value(f, n + 1)]
      OBVIOUS
    <2>4. /\ DOMAIN g = 1..(n + 1) /\ \A i \in 1..n : g[i] = f[i]
          /\ g[n + 1] = Value(f, n + 1)
      BY <2>3
    <2>5. ASSUME NEW i \in 1..(n + 1) PROVE g[i] = Value(g, i)
      <3>1. CASE i \in 1..n /\ i = 1
        BY <2>2, <2>4, <3>1
      <3>2. CASE i \in 1..n /\ i # 1
        <4>1. i - 1 \in 1..n
          BY <3>2
        <4>2. g[i] = Value(f, i) /\ g[i - 1] = f[i - 1]
          BY <2>2, <2>4, <3>2, <4>1
        <4> QED BY <3>2, <4>2
      <3>3. CASE i = n + 1 /\ n = 0
        BY <2>4, <3>3
      <3>4. CASE i = n + 1 /\ n # 0
        <4>1. i - 1 \in 1..n
          BY <3>4
        <4>2. g[i - 1] = f[i - 1]
          BY <2>4, <4>1
        <4> QED BY <2>4, <3>4, <4>2
      <3> QED BY <3>1, <3>2, <3>3, <3>4
    <2>6. Upto(g, n + 1)
      <3> HIDE DEF Value
      <3> QED BY <2>3, <2>4, <2>5
    <2>7. n + 1 \in Nat
      OBVIOUS
    <2> HIDE DEF Upto
    <2> QED BY <2>6, <2>7, Zenon
  <1>3. Nat \subseteq D
    <2> HIDE DEF D
    <2> QED BY <1>1, <1>2, SetInduction
  <1>4. PICK u : u = CHOOSE f : f = [i \in 1..k |-> Value(f, i)]
    OBVIOUS
  <1>5. u = [i \in 1..k |-> Value(u, i)]
    <2> HIDE DEF Value
    <2>1. k \in D
      <3> HIDE DEF D
      <3> QED BY <1>3
    <2>2. \E f : f = [i \in 1..k |-> Value(f, i)]
      BY <2>1
    <2> QED BY <1>4, <2>2
  <1>6. Starts(from, sizes) = u
    BY <1>4 DEF Starts
  <1>7. DOMAIN u = 1..k
    <2> HIDE DEF Value
    <2> QED BY <1>5
  <1> DEFINE E == {n \in Nat : n + 1 <= k => u[n + 1] \in Nat /\ u[n + 1] >= from}
  <1>8. 0 \in E
    BY <1>5
  <1>9. ASSUME NEW n \in Nat, n \in E PROVE n + 1 \in E
    <2> SUFFICES ASSUME (n + 1) + 1 <= k
                 PROVE  u[(n + 1) + 1] \in Nat /\ u[(n + 1) + 1] >= from
      OBVIOUS
    <2>1. u[n + 1] \in Nat /\ u[n + 1] >= from /\ sizes[n + 1] \in Nat
      BY <1>9
    <2>2. n + 2 \in 1..k /\ n + 2 # 1 /\ (n + 2) - 1 = n + 1 /\ (n + 1) + 1 = n + 2
      OBVIOUS
    <2>3. u[n + 2] = u[n + 1] + sizes[n + 1]
      BY <1>5, <2>2
    <2> QED BY <2>1, <2>2, <2>3
  <1>10. Nat \subseteq E
    <2> HIDE DEF E
    <2> QED BY <1>8, <1>9, SetInduction
  <1>11. ASSUME NEW i \in 1..k PROVE u[i] \in Nat /\ u[i] >= from
    <2>1. i - 1 \in Nat /\ (i - 1) + 1 = i
      OBVIOUS
    <2>2. i - 1 \in E
      <3> HIDE DEF E
      <3> QED BY <1>10, <2>1
    <2> QED BY <2>1, <2>2
  <1> QED BY <1>6, <1>7, <1>11

\* A reply has only cells that were placed in it.
LEMMA PlacedFacts ==
  ASSUME NEW pairs, NEW p \in DOMAIN Placed(pairs)
  PROVE  \E e \in pairs : Placed(pairs)[p] = e[2]
  <1>1. \E e \in pairs : e[1] = p
    BY DEF Placed
  <1>2. PICK e : e = CHOOSE d \in pairs : d[1] = p
    OBVIOUS
  <1>3. e \in pairs
    BY <1>1, <1>2
  <1>4. Placed(pairs)[p] = e[2]
    BY <1>1, <1>2 DEF Placed
  <1> QED BY <1>3, <1>4

\* And so for the cells of a list.
LEMMA CellsOfFacts ==
  ASSUME NEW starts, NEW cells, NEW p \in DOMAIN CellsOf(starts, cells)
  PROVE  \E i \in DOMAIN starts : CellsOf(starts, cells)[p] = cells[i]
  <1>1. PICK pairs : pairs = {<<starts[i], cells[i]>> : i \in DOMAIN starts}
    OBVIOUS
  <1>2. CellsOf(starts, cells) = Placed(pairs)
    BY <1>1 DEF CellsOf
  <1>3. PICK e \in pairs : Placed(pairs)[p] = e[2]
    BY <1>2, PlacedFacts
  <1>4. PICK i \in DOMAIN starts : e = <<starts[i], cells[i]>>
    BY <1>1, <1>3
  <1> QED BY <1>2, <1>3, <1>4

\* The reply without a buffer.
LEMMA AnswerFacts ==
  ASSUME NEW command \in Commands
  PROVE  /\ IsReply(Answer(command)) /\ Answer(command).cells = <<>>
         /\ Answer(command).size >= Header
  <1>1. Structures[command] \in Nat /\ Structures[command] >= 2
    BY DEF Commands, Structures
  <1>2. PICK s \in Nat : s = Structures[command] /\ s >= 2
    BY <1>1
  <1>3. Header + s - (s % 2) \in Nat /\ Header + s - (s % 2) >= Header
    BY <1>2 DEF Header
  <1>4. PICK a : a = Answer(command)
    OBVIOUS
  <1>5. /\ DOMAIN a = ReplyFields /\ a.size = Header + s - (s % 2) /\ a.count = 0 /\ a.frag = 0
        /\ a.per = 2 /\ a.bufs = <<>> /\ a.cells = <<>>
    BY <1>2, <1>4 DEF Answer, ReplyFields
  <1>6. a.bufs \in Seq([off : Nat, len : Nat]) /\ DOMAIN a.cells = {}
    BY <1>5
  <1> QED BY <1>3, <1>4, <1>5, <1>6 DEF IsReply

\* A reply that has nothing yet, and is given a buffer.
LEMMA WithFacts ==
  ASSUME NEW a, IsReply(a), a.cells = <<>>, NEW kind, NEW n \in Nat
  PROVE  /\ DOMAIN With(a, kind, n) = ReplyFields
         /\ With(a, kind, n).size \in Nat /\ With(a, kind, n).kind = kind
         /\ With(a, kind, n).count \in Nat /\ With(a, kind, n).frag \in Nat
         /\ With(a, kind, n).per \in 0..2
         /\ With(a, kind, n).bufs \in Seq([off : Nat, len : Nat])
         /\ IsReply(With(a, kind, n))
  <1>1. PICK w, b, s : /\ w = With(a, kind, n) /\ b = [off |-> a.size, len |-> n]
                       /\ s = IF a.command = "Ioctl" THEN <<[off |-> 0, len |-> 0], b>> ELSE <<b>>
    OBVIOUS
  <1>2. /\ DOMAIN w = ReplyFields /\ w.size = a.size + n /\ w.kind = kind /\ w.bufs = s
        /\ w.count = a.count /\ w.frag = a.frag /\ w.cells = a.cells
        /\ w.per = a.per
    BY <1>1 DEF With, IsReply, ReplyFields
  <1>3. b \in [off : Nat, len : Nat] /\ [off |-> 0, len |-> 0] \in [off : Nat, len : Nat]
    BY <1>1 DEF IsReply
  <1>4. s \in Seq([off : Nat, len : Nat])
    <2>1. PICK T, z : T = [off : Nat, len : Nat] /\ z = [off |-> 0, len |-> 0]
      OBVIOUS
    <2>2. s \in {<<z, b>>, <<b>>} /\ z \in T /\ b \in T
      BY <1>1, <1>3, <2>1
    <2>3. <<z, b>> \in Seq(T)
      BY <2>2
    <2>4. <<b>> \in Seq(T)
      BY <2>2
    <2> QED BY <2>1, <2>2, <2>3, <2>4
  <1>5. DOMAIN w.cells = {}
    BY <1>2
  <1>6. w.size \in Nat /\ w.count \in Nat /\ w.frag \in Nat /\ w.per \in 0..2
    BY <1>2 DEF IsReply
  <1> QED BY <1>1, <1>2, <1>4, <1>5, <1>6 DEF IsReply

\* Cells, a count and a size of the fragment make it no less a reply.
LEMMA Dressed ==
  ASSUME NEW a, IsReply(a), a.cells = <<>>, NEW kind, NEW n \in Nat, NEW r,
         DOMAIN r = ReplyFields, r.size = With(a, kind, n).size, r.kind = kind,
         r.bufs = With(a, kind, n).bufs, r.count \in Nat, r.frag \in Nat, r.per \in 0..2,
         \A p \in DOMAIN r.cells : SoundCell(kind, r.cells[p])
  PROVE  IsReply(r)
  <1>1. With(a, kind, n).size \in Nat /\ With(a, kind, n).bufs \in Seq([off : Nat, len : Nat])
    BY WithFacts
  <1> QED BY <1>1 DEF IsReply

\* Rounding up keeps a number.
LEMMA AlignedFacts ==
  ASSUME NEW n \in Nat, NEW k \in {4, 8}
  PROVE  Aligned(n, k) \in Nat /\ Aligned(n, k) >= n
  <1>1. CASE k = 4
    BY <1>1 DEF Aligned
  <1>2. CASE k = 8
    BY <1>2 DEF Aligned
  <1> QED BY <1>1, <1>2

\* The texts of a list.
LEMMA ListFacts ==
  ASSUME NEW list \in Lists
  PROVE  /\ Len(list) \in Nat
         /\ \A i \in 1..Len(list) :
              list[i] \in Texts /\ Len(list[i].utf8) \in Nat /\ Len(list[i].utf16) \in Nat
  <1>1. list \in Seq(Texts)
    BY CodecAssumption
  <1>2. Len(list) \in Nat /\ \A i \in 1..Len(list) : list[i] \in Texts
    BY <1>1
  <1>3. \A t \in Texts : t.utf8 \in Seq(Nat) /\ t.utf16 \in Seq(Nat)
    BY CodecAssumption
  <1>4. \A t \in Texts : Len(t.utf8) \in Nat /\ Len(t.utf16) \in Nat
    BY <1>3
  <1> QED BY <1>2, <1>4

\* A cell of three numbers.
LEMMA CellSound ==
  ASSUME NEW kind, NEW next0 \in Int, NEW len \in Int, NEW extra \in Int, NEW units,
         kind \in {"dfs", "token"} => units = None \/ Len(units) \in Nat,
         kind = "token" /\ extra = Ntlmssp => Len(units) \in Nat
  PROVE  SoundCell(kind, Cell(next0, len, extra, units))
  BY DEF SoundCell, Cell, CellFields

\* The size of a list: nothing, or up to the end of the last cell.
LEMMA LastEnds ==
  ASSUME NEW from \in Nat, NEW least \in Nat, from >= least, NEW k \in Nat, NEW sizes,
         Len(sizes) = k, \A i \in 1..k : sizes[i] \in Nat, k # 0
  PROVE  Starts(from, sizes)[k] + sizes[k] - least \in Nat
  <1>1. k \in 1..k
    OBVIOUS
  <1>2. PICK x, y : x = Starts(from, sizes)[k] /\ y = sizes[k]
    OBVIOUS
  <1>3. x \in Nat /\ x >= from /\ y \in Nat
    BY <1>1, <1>2, StartsFacts
  <1> QED BY <1>2, <1>3

\* The lists of a server are replies: entries with names,
LEMMA ChainIsReply ==
  ASSUME NEW a, IsReply(a), a.cells = <<>>, NEW kind \in {"dir", "notify"}, NEW fixed \in Nat,
         NEW align \in {4, 8}, NEW list \in Lists
  PROVE  IsReply(Chain(a, kind, fixed, align, list))
  <1> DEFINE n == Len(list)
             used(i) == fixed + (2 * Len(list[i].utf16))
             sizes == [i \in 1..n |-> IF i = n THEN used(i) ELSE Aligned(used(i), align)]
             starts == Starts(a.size, sizes)
             cells == [i \in 1..n |-> Cell(IF i = n THEN 0 ELSE sizes[i],
                                           2 * Len(list[i].utf16), 0, list[i].utf16)]
             size == IF n = 0 THEN 0 ELSE starts[n] + sizes[n] - a.size
             r == Chain(a, kind, fixed, align, list)
  <1>1. n \in Nat /\ \A i \in 1..n : Len(list[i].utf16) \in Nat
    BY ListFacts
  <1>2. ASSUME NEW i \in 1..n PROVE sizes[i] \in Nat
    <2>1. PICK x \in Nat : x = used(i)
      BY <1>1
    <2>2. Aligned(x, align) \in Nat
      BY <2>1, AlignedFacts
    <2> QED BY <2>1, <2>2
  <1>3. Len(sizes) = n
    BY <1>1
  <1>4. ASSUME NEW i \in 1..n PROVE SoundCell(kind, cells[i])
    <2>1. PICK x, y, z : /\ x = (IF i = n THEN 0 ELSE sizes[i]) /\ y = 2 * Len(list[i].utf16)
                         /\ z = list[i].utf16
      OBVIOUS
    <2>2. x \in Int /\ y \in Int
      BY <1>1, <1>2, <2>1
    <2>3. cells[i] = Cell(x, y, 0, z)
      BY <2>1
    <2>4. SoundCell(kind, Cell(x, y, 0, z))
      BY <2>2, CellSound
    <2> QED BY <2>3, <2>4
  <1>5. a.size \in Nat
    BY DEF IsReply
  <1>6. r = [With(a, kind, size) EXCEPT !.cells = CellsOf(starts, cells),
                                        !.names = [i \in 1..n |-> list[i].utf8]]
    BY DEF Chain
  <1> HIDE DEF r, sizes, cells, n, used
  <1>7. size \in Nat
    BY <1>1, <1>2, <1>3, <1>5, LastEnds, SMTT(30)
  <1>8. DOMAIN starts = 1..n
    BY <1>1, <1>2, <1>3, <1>5, StartsFacts
  <1> HIDE DEF size, starts
  <1>9. /\ DOMAIN r = ReplyFields /\ r.size = With(a, kind, size).size /\ r.kind = kind
        /\ r.bufs = With(a, kind, size).bufs /\ r.count \in Nat /\ r.frag \in Nat
         /\ r.per \in 0..2
        /\ r.cells = CellsOf(starts, cells)
    BY <1>6, <1>7, WithFacts DEF ReplyFields
  <1>10. ASSUME NEW p \in DOMAIN r.cells PROVE SoundCell(kind, r.cells[p])
    <2>1. PICK i \in DOMAIN starts : CellsOf(starts, cells)[p] = cells[i]
      BY <1>9, <1>10, CellsOfFacts
    <2> QED BY <1>4, <1>8, <1>9, <2>1
  <1>11. IsReply(r)
    BY <1>7, <1>9, <1>10, Dressed
  <1> QED BY <1>11 DEF r

\* extended attributes,
LEMMA AttributesIsReply ==
  ASSUME NEW a, IsReply(a), a.cells = <<>>, NEW list \in Lists
  PROVE  IsReply(Attributes(a, list))
  <1> DEFINE n == Len(list)
             used(i) == 8 + Len(list[i].utf8) + 1 + i
             sizes == [i \in 1..n |-> IF i = n THEN used(i) ELSE Aligned(used(i), 4)]
             starts == Starts(a.size, sizes)
             cells == [i \in 1..n |-> Cell(IF i = n THEN 0 ELSE sizes[i],
                                           Len(list[i].utf8), i, list[i])]
             size == IF n = 0 THEN 0 ELSE starts[n] + sizes[n] - a.size
             r == Attributes(a, list)
  <1>1. n \in Nat /\ \A i \in 1..n : Len(list[i].utf8) \in Nat
    BY ListFacts
  <1>2. ASSUME NEW i \in 1..n PROVE sizes[i] \in Nat
    <2>1. PICK x \in Nat : x = used(i)
      BY <1>1
    <2>2. Aligned(x, 4) \in Nat
      BY <2>1, AlignedFacts
    <2> QED BY <2>1, <2>2
  <1>3. Len(sizes) = n
    BY <1>1
  <1>4. ASSUME NEW i \in 1..n PROVE SoundCell("ea", cells[i])
    <2>1. PICK x, y, z : /\ x = (IF i = n THEN 0 ELSE sizes[i]) /\ y = Len(list[i].utf8)
                         /\ z = list[i]
      OBVIOUS
    <2>2. x \in Int /\ y \in Int
      BY <1>1, <1>2, <2>1
    <2>3. cells[i] = Cell(x, y, i, z)
      BY <2>1
    <2>4. SoundCell("ea", Cell(x, y, i, z))
      BY <2>2, CellSound
    <2> QED BY <2>3, <2>4
  <1>5. a.size \in Nat
    BY DEF IsReply
  <1>6. r = [With(a, "ea", size) EXCEPT !.cells = CellsOf(starts, cells),
                                        !.names = [i \in 1..n |-> list[i].utf8]]
    BY DEF Attributes
  <1> HIDE DEF r, sizes, cells, n, used
  <1>7. size \in Nat
    BY <1>1, <1>2, <1>3, <1>5, LastEnds, SMTT(30)
  <1>8. DOMAIN starts = 1..n
    BY <1>1, <1>2, <1>3, <1>5, StartsFacts
  <1> HIDE DEF size, starts
  <1>9. /\ DOMAIN r = ReplyFields /\ r.size = With(a, "ea", size).size /\ r.kind = "ea"
        /\ r.bufs = With(a, "ea", size).bufs /\ r.count \in Nat /\ r.frag \in Nat
         /\ r.per \in 0..2
        /\ r.cells = CellsOf(starts, cells)
    BY <1>6, <1>7, WithFacts DEF ReplyFields
  <1>10. ASSUME NEW p \in DOMAIN r.cells PROVE SoundCell("ea", r.cells[p])
    <2>1. PICK i \in DOMAIN starts : CellsOf(starts, cells)[p] = cells[i]
      BY <1>9, <1>10, CellsOfFacts
    <2> QED BY <1>4, <1>8, <1>9, <2>1
  <1>11. IsReply(r)
    BY <1>7, <1>9, <1>10, Dressed
  <1> QED BY <1>11 DEF r

\* referrals,
LEMMA ReferralsIsReply ==
  ASSUME NEW a, IsReply(a), a.cells = <<>>, NEW list \in Lists
  PROVE  IsReply(Referrals(a, list))
  <1> DEFINE n == Len(list)
             sizes == [i \in 1..n |-> (2 * Len(list[i].utf16)) + 2]
             entries == [i \in 1..n |-> 34]
             first == a.size + 8 + (n * 34)
             starts == Starts(a.size + 8, entries)
             strings == Starts(first, sizes)
             cells == [i \in 1..n |-> Cell(34, strings[i] - starts[i], 34, list[i].utf16)]
             size == IF n = 0 THEN 8 ELSE strings[n] + sizes[n] - a.size
             r == Referrals(a, list)
  <1>1. n \in Nat /\ \A i \in 1..n : Len(list[i].utf16) \in Nat
    BY ListFacts
  <1>2. \A i \in 1..n : sizes[i] \in Nat /\ entries[i] \in Nat
    BY <1>1
  <1>3. Len(sizes) = n /\ Len(entries) = n
    BY <1>1
  <1>4. a.size \in Nat /\ a.size + 8 \in Nat /\ first \in Nat /\ first >= a.size
    BY <1>1 DEF IsReply
  <1>5. \A i \in 1..n : cells[i] = Cell(34, strings[i] - starts[i], 34, list[i].utf16)
    OBVIOUS
  <1>6. r = [With(a, "dfs", size) EXCEPT !.cells = CellsOf(starts, cells), !.count = n,
                                         !.names = [i \in 1..n |-> list[i].utf8]]
    BY DEF Referrals
  <1> HIDE DEF r, sizes, cells, n, entries, first
  <1>7. size \in Nat
    BY <1>1, <1>2, <1>3, <1>4, LastEnds
  <1>8. DOMAIN starts = 1..n /\ \A i \in 1..n : starts[i] \in Nat /\ strings[i] \in Nat
    BY <1>1, <1>2, <1>3, <1>4, StartsFacts
  <1> HIDE DEF size, starts, strings
  <1>9. ASSUME NEW i \in 1..n PROVE SoundCell("dfs", cells[i])
    <2>1. strings[i] - starts[i] \in Int /\ Len(list[i].utf16) \in Nat
      BY <1>1, <1>8
    <2>2. SoundCell("dfs", Cell(34, strings[i] - starts[i], 34, list[i].utf16))
      BY <2>1, CellSound
    <2> QED BY <1>5, <2>2
  <1>10. /\ DOMAIN r = ReplyFields /\ r.size = With(a, "dfs", size).size /\ r.kind = "dfs"
         /\ r.bufs = With(a, "dfs", size).bufs /\ r.count \in Nat /\ r.frag \in Nat
         /\ r.per \in 0..2
         /\ r.cells = CellsOf(starts, cells)
    BY <1>1, <1>6, <1>7, WithFacts DEF ReplyFields
  <1>11. ASSUME NEW p \in DOMAIN r.cells PROVE SoundCell("dfs", r.cells[p])
    <2>1. PICK i \in DOMAIN starts : CellsOf(starts, cells)[p] = cells[i]
      BY <1>10, <1>11, CellsOfFacts
    <2> QED BY <1>8, <1>9, <1>10, <2>1
  <1>12. IsReply(r)
    BY <1>7, <1>10, <1>11, Dressed
  <1> QED BY <1>12 DEF r

\* and shares;
LEMMA SharesIsReply ==
  ASSUME NEW a, IsReply(a), a.cells = <<>>, NEW list \in Lists, NEW per \in 0..2, NEW resume,
         NEW container
  PROVE  IsReply(Shares(a, list, per, resume, container))
  <1> DEFINE n == Len(list)
             k == per * n
             text(i) == list[IF per = 2 THEN (i + 1) \div 2 ELSE i]
             words(i) == Len(text(i).utf16) + 1
             sizes == [i \in 1..k |-> Aligned(12 + (2 * words(i)), 4)]
             head == (IF container THEN 20 ELSE 12) + (IF n = 0 THEN 0 ELSE 4 + (12 * n))
             first == a.size + 24 + head
             starts == Starts(first, sizes)
             cells == [i \in 1..k |-> Cell(0, words(i), words(i), text(i).utf16)]
             strings == IF k = 0 THEN 0 ELSE starts[k] + sizes[k] - first
             frag == 24 + head + strings + (IF resume THEN 16 ELSE 12)
             r == Shares(a, list, per, resume, container)
  <1>1. n \in Nat /\ \A j \in 1..n : Len(list[j].utf16) \in Nat
    BY ListFacts
  <1>2. k \in Nat /\ (k # 0 => per \in {1, 2}) /\ (per = 1 => k = n) /\ (per = 2 => k = 2 * n)
    <2>1. CASE per = 0
      BY <1>1, <2>1
    <2>2. CASE per = 1
      BY <1>1, <2>2
    <2>3. CASE per = 2
      BY <1>1, <2>3
    <2> QED BY <2>1, <2>2, <2>3
  <1>3. ASSUME NEW i \in 1..k PROVE words(i) \in Nat
    <2>1. PICK j : j = IF per = 2 THEN (i + 1) \div 2 ELSE i
      OBVIOUS
    <2> HIDE DEF k
    <2>2. per \in {1, 2}
      BY <1>2, <1>3
    <2>3. CASE per = 1
      BY <1>1, <1>2, <1>3, <2>1, <2>3
    <2>4. CASE per = 2
      <3>1. k = 2 * n /\ j = (i + 1) \div 2
        BY <1>2, <2>1, <2>4
      <3>2. j \in 1..n
        BY <1>1, <1>3, <3>1
      <3> QED BY <1>1, <2>1, <3>2
    <2> QED BY <2>2, <2>3, <2>4
  <1>4. ASSUME NEW i \in 1..k PROVE sizes[i] \in Nat
    <2>1. PICK x \in Nat : x = 12 + (2 * words(i))
      BY <1>3
    <2>2. Aligned(x, 4) \in Nat
      BY <2>1, AlignedFacts
    <2> QED BY <2>1, <2>2
  <1>5. ASSUME NEW i \in 1..k PROVE SoundCell("shares", cells[i])
    <2>1. PICK w, u : w = words(i) /\ u = text(i).utf16
      OBVIOUS
    <2>2. w \in Int
      BY <1>3, <2>1
    <2>3. cells[i] = Cell(0, w, w, u)
      BY <2>1
    <2> HIDE DEF cells, words, text
    <2>4. SoundCell("shares", Cell(0, w, w, u))
      BY <2>2, CellSound
    <2> QED BY <2>3, <2>4
  <1>6. r = [With(a, "shares", frag) EXCEPT
               !.cells = CellsOf(starts, cells), !.count = n, !.frag = frag,
               !.array = IF n = 0 THEN None ELSE n, !.container = container, !.per = per,
               !.resume = resume, !.names = [i \in 1..k |-> text(i).utf8]]
    BY DEF Shares
  <1> HIDE DEF r, words, text, k
  <1>7. Len(sizes) = k
    BY <1>2
  <1> HIDE DEF sizes, cells
  <1>8. head \in Nat /\ a.size \in Nat
    <2>1. a.size \in Nat
      BY DEF IsReply
    <2> HIDE DEF n
    <2>2. (IF n = 0 THEN 0 ELSE 4 + (12 * n)) \in Nat
      BY <1>1
    <2>3. (IF container THEN 20 ELSE 12) \in Nat
      OBVIOUS
    <2> QED BY <2>1, <2>2, <2>3
  <1> HIDE DEF n, head
  <1>9. first \in Nat
    BY <1>8
  <1> HIDE DEF first
  <1>10. strings \in Nat
    <2>1. CASE k = 0
      BY <2>1
    <2>2. CASE k # 0
      <3>1. Starts(first, sizes)[k] + sizes[k] - first \in Nat
        BY <1>2, <1>4, <1>7, <1>9, <2>2, LastEnds
      <3> QED BY <2>2, <3>1
    <2> QED BY <2>1, <2>2
  <1>11. DOMAIN starts = 1..k
    BY <1>2, <1>4, <1>7, <1>9, StartsFacts
  <1> HIDE DEF strings, starts
  <1>12. frag \in Nat
    BY <1>8, <1>10
  <1> HIDE DEF frag
  <1>13. /\ DOMAIN r = ReplyFields /\ r.size = With(a, "shares", frag).size /\ r.kind = "shares"
         /\ r.bufs = With(a, "shares", frag).bufs /\ r.count \in Nat /\ r.frag \in Nat
         /\ r.per \in 0..2 /\ r.cells = CellsOf(starts, cells)
    BY <1>1, <1>6, <1>12, WithFacts DEF ReplyFields
  <1>14. ASSUME NEW p \in DOMAIN r.cells PROVE SoundCell("shares", r.cells[p])
    <2>1. PICK i \in DOMAIN starts : CellsOf(starts, cells)[p] = cells[i]
      BY <1>13, <1>14, CellsOfFacts
    <2> QED BY <1>5, <1>11, <1>13, <2>1
  <1>15. IsReply(r)
    BY <1>12, <1>13, <1>14, Dressed
  <1> QED BY <1>15 DEF r

\* so is its answer to a bind.
LEMMA BindAckIsReply ==
  ASSUME NEW a, IsReply(a), a.cells = <<>>, NEW n \in Nat
  PROVE  IsReply(BindAck(a, n))
  <1>1. PICK frag : frag = Aligned(26 + n, 4) + 4 + 24
    OBVIOUS
  <1>2. frag \in Nat
    <2>1. 26 + n \in Nat
      OBVIOUS
    <2>2. Aligned(26 + n, 4) \in Nat
      BY <2>1, AlignedFacts
    <2> QED BY <1>1, <2>2
  <1>3. PICK r : r = BindAck(a, n)
    OBVIOUS
  <1>4. r = [With(a, "bind", frag) EXCEPT !.count = n, !.array = 1, !.frag = frag]
    BY <1>1, <1>3 DEF BindAck
  <1>5. With(a, "bind", frag).cells = <<>>
    BY DEF With, IsReply, ReplyFields
  <1>6. /\ DOMAIN r = ReplyFields /\ r.size = With(a, "bind", frag).size /\ r.kind = "bind"
        /\ r.bufs = With(a, "bind", frag).bufs /\ r.count \in Nat /\ r.frag \in Nat
         /\ r.per \in 0..2
        /\ r.cells = <<>>
    BY <1>2, <1>4, <1>5, WithFacts DEF ReplyFields
  <1>7. DOMAIN r.cells = {}
    BY <1>6
  <1> QED BY <1>2, <1>3, <1>6, <1>7, Dressed

\* The cells of a token: values, the challenge and the pairs of its target information.
LEMMA ChallengeIsReply ==
  ASSUME NEW a, IsReply(a), a.cells = <<>>, NEW name \in Texts, NEW long \in BOOLEAN, NEW raw
  PROVE  IsReply(Challenge(a, name, long, raw))
  <1> DEFINE wide == 2 * Len(name.utf16)
             info == 4 + 8 + 4 + (IF long THEN 100 ELSE 0)
             ntlm == 56 + wide + info
             first == ValueSize(ValueSize(1)) + ValueSize(ValueSize(10))
             inner == first + ValueSize(ValueSize(ntlm))
             p1 == a.size
             p2 == p1 + 2 + LengthSize(ValueSize(inner))
             p3 == p2 + 2 + LengthSize(inner)
             p4 == p3 + ValueSize(ValueSize(1))
             p5 == p4 + ValueSize(ValueSize(10))
             p6 == p5 + 2 + LengthSize(ValueSize(ntlm))
             p7 == IF raw THEN p1 ELSE p6 + 2 + LengthSize(ntlm)
             p8 == p7 + 56 + wide
             p9 == p8 + (IF long THEN 100 ELSE 0)
             value(p, n, type) == <<p, Cell(n, LengthSize(n), type, None)>>
             values == {value(p1, ValueSize(inner), Constructed), value(p2, inner, Constructed),
                        value(p3, ValueSize(1), Constructed), value(p3 + 2, 1, Primitive),
                        value(p4, ValueSize(10), Constructed), value(p4 + 2, 10, Primitive),
                        value(p5, ValueSize(ntlm), Constructed), value(p6, ntlm, OctetString)}
             pairs == (IF raw THEN {} ELSE values)
                      \cup {<<p7, Cell(info, wide, Ntlmssp, name.utf16)>>,
                            <<p9, Cell(8, 7, 0, None)>>, <<p9 + 12, Cell(0, 0, 0, None)>>}
                      \cup (IF long THEN {<<p8, Cell(96, 1, 0, None)>>} ELSE {})
             size == IF raw THEN ntlm ELSE ValueSize(ValueSize(inner))
             r == Challenge(a, name, long, raw)
  <1>1. r = [With(a, "token", size) EXCEPT
               !.status = "MORE_PROCESSING", !.names = <<name.utf8>>, !.cells = Placed(pairs)]
    BY DEF Challenge
  <1>2. Len(name.utf16) \in Nat
    <2>1. name.utf16 \in Seq(Nat)
      BY CodecAssumption
    <2> QED BY <2>1
  <1>3. wide \in Nat /\ info \in Nat /\ ntlm \in Nat
    <2>1. wide \in Nat
      BY <1>2
    <2>2. info \in Nat
      <3>1. CASE long
        BY <3>1
      <3>2. CASE ~long
        BY <3>2
      <3> QED BY <3>1, <3>2
    <2> HIDE DEF wide, info
    <2> QED BY <2>1, <2>2
  <1>4. \A n \in Nat : LengthSize(n) \in Nat /\ ValueSize(n) \in Nat
    BY DEF LengthSize, ValueSize
  <1> HIDE DEF r, wide, info, ntlm
  <1>5. ValueSize(1) \in Nat /\ ValueSize(10) \in Nat /\ ValueSize(ntlm) \in Nat
    BY <1>3, <1>4
  <1>6. first \in Nat /\ ValueSize(ValueSize(ntlm)) \in Nat
    <2>1. ValueSize(ValueSize(1)) \in Nat /\ ValueSize(ValueSize(10)) \in Nat /\ ValueSize(ValueSize(ntlm)) \in Nat
      BY <1>4, <1>5
    <2> QED BY <2>1
  <1> HIDE DEF first
  <1>7. inner \in Nat
    BY <1>6
  <1> HIDE DEF inner
  <1>8. ValueSize(inner) \in Nat /\ size \in Nat
    BY <1>3, <1>4, <1>7
  <1>9. ASSUME NEW n \in Nat, NEW type \in {Primitive, Constructed, OctetString}
        PROVE  SoundCell("token", Cell(n, LengthSize(n), type, None))
    <2>1. n \in Int /\ LengthSize(n) \in Int /\ type \in Int /\ type # Ntlmssp
      BY <1>4 DEF Primitive, Constructed, OctetString, Ntlmssp
    <2> QED BY <2>1, CellSound
  <1>10. /\ SoundCell("token", Cell(info, wide, Ntlmssp, name.utf16))
         /\ SoundCell("token", Cell(8, 7, 0, None)) /\ SoundCell("token", Cell(0, 0, 0, None))
         /\ SoundCell("token", Cell(96, 1, 0, None))
    BY <1>2, <1>3, CellSound DEF Ntlmssp
  <1>11. ASSUME NEW e \in pairs PROVE SoundCell("token", e[2])
    <2> HIDE DEF p1, p2, p3, p4, p5, p6, p7, p8, p9
    <2>1. \/ \E p : \E n \in Nat, type \in {Primitive, Constructed, OctetString} :
                e = value(p, n, type)
          \/ \E p : e \in {<<p, Cell(info, wide, Ntlmssp, name.utf16)>>, <<p, Cell(8, 7, 0, None)>>,
                           <<p, Cell(0, 0, 0, None)>>, <<p, Cell(96, 1, 0, None)>>}
      <3> HIDE DEF value
      <3>1. 1 \in Nat /\ 10 \in Nat
        OBVIOUS
      <3> QED BY <1>3, <1>5, <1>7, <1>8, <1>11, <3>1, Zenon
    <2>2. CASE \E p : \E n \in Nat, type \in {Primitive, Constructed, OctetString} :
                 e = value(p, n, type)
      <3>1. PICK p : \E n \in Nat, type \in {Primitive, Constructed, OctetString} :
                       e = value(p, n, type)
        BY <2>2
      <3>2. PICK n \in Nat, type \in {Primitive, Constructed, OctetString} :
              e = value(p, n, type)
        BY <3>1
      <3>3. e[2] = Cell(n, LengthSize(n), type, None)
        BY <3>2
      <3> QED BY <1>9, <3>3
    <2>3. CASE \E p : e \in {<<p, Cell(info, wide, Ntlmssp, name.utf16)>>, <<p, Cell(8, 7, 0, None)>>,
                             <<p, Cell(0, 0, 0, None)>>, <<p, Cell(96, 1, 0, None)>>}
      <3>1. e[2] \in {Cell(info, wide, Ntlmssp, name.utf16), Cell(8, 7, 0, None),
                      Cell(0, 0, 0, None), Cell(96, 1, 0, None)}
        BY <2>3
      <3> QED BY <1>10, <3>1
    <2> QED BY <2>1, <2>2, <2>3
  <1> HIDE DEF pairs, size
  <1>12. /\ DOMAIN r = ReplyFields /\ r.size = With(a, "token", size).size /\ r.kind = "token"
         /\ r.bufs = With(a, "token", size).bufs /\ r.count \in Nat /\ r.frag \in Nat
         /\ r.per \in 0..2
         /\ r.cells = Placed(pairs)
    BY <1>1, <1>8, WithFacts DEF ReplyFields
  <1>13. ASSUME NEW p \in DOMAIN r.cells PROVE SoundCell("token", r.cells[p])
    <2>1. PICK e \in pairs : Placed(pairs)[p] = e[2]
      BY <1>12, <1>13, PlacedFacts
    <2> QED BY <1>11, <1>12, <2>1
  <1>14. IsReply(r)
    BY <1>8, <1>12, <1>13, Dressed
  <1> QED BY <1>14 DEF r

\* Another status.
LEMMA StatusIsReply ==
  ASSUME NEW a, IsReply(a), NEW s
  PROVE  IsReply([a EXCEPT !.status = s])
  BY DEF IsReply, ReplyFields

\* Whatever a server answers is a reply.
LEMMA AnswersAreReplies ==
  ASSUME NEW command \in Commands, NEW r \in AnswersTo(command)
  PROVE  IsReply(r)
  <1>1. PICK a : a = Answer(command)
    OBVIOUS
  <1>2. IsReply(a) /\ a.cells = <<>>
    BY <1>1, AnswerFacts
  <1>3. \A kind : \A n \in Nat : IsReply(With(a, kind, n))
    BY <1>2, WithFacts
  <1>4. \A s : IsReply([a EXCEPT !.status = s])
    BY <1>2, StatusIsReply
  <1>5. CASE command = "QueryDirectory"
    <2>1. \A list \in Lists : IsReply(Chain(a, "dir", 104, 8, list))
      BY <1>2, ChainIsReply
    <2> QED BY <1>1, <1>4, <1>5, <2>1 DEF AnswersTo
  <1>6. CASE command = "ChangeNotify"
    <2>1. \A list \in Lists : IsReply(Chain(a, "notify", 12, 4, list))
      BY <1>2, ChainIsReply
    <2> QED BY <1>1, <1>4, <1>6, <2>1 DEF AnswersTo
  <1>7. CASE command = "QueryInfo"
    <2>1. \A list \in Lists : IsReply(Attributes(a, list))
      BY <1>2, AttributesIsReply
    <2> QED BY <1>1, <1>3, <1>7, <2>1 DEF AnswersTo
  <1>8. CASE command = "Ioctl"
    <2>1. \A list \in Lists : IsReply(Referrals(a, list))
      BY <1>2, ReferralsIsReply
    <2> QED BY <1>1, <1>3, <1>8, <2>1 DEF AnswersTo
  <1>9. CASE command = "Read"
    <2>1. \A list \in Lists, per \in 0..2, resume, c \in BOOLEAN :
            IsReply(Shares(a, list, per, resume, c \/ list # <<>>))
      BY <1>2, SharesIsReply
    <2>2. \A n \in 0..3 : IsReply(BindAck(a, n))
      BY <1>2, BindAckIsReply
    <2> QED BY <1>1, <1>3, <1>9, <2>1, <2>2 DEF AnswersTo
  <1>10. CASE command = "SessionSetup"
    <2>1. ASSUME NEW list \in {l \in Lists : Len(l) > 1}, NEW long \in BOOLEAN,
                 NEW raw \in BOOLEAN
          PROVE  IsReply(Challenge(a, list[1], long, raw))
      <3>1. list \in Lists /\ Len(list) \in Nat /\ Len(list) > 1
        BY <2>1, ListFacts
      <3>2. 1 \in 1..Len(list)
        BY <3>1
      <3>3. list[1] \in Texts
        BY <3>1, <3>2, ListFacts
      <3> QED BY <1>2, <3>3, ChallengeIsReply
    <2> QED BY <1>1, <1>3, <1>10, <2>1 DEF AnswersTo
  <1>11. CASE command = "Negotiate"
    BY <1>1, <1>3, <1>11 DEF AnswersTo
  <1>12. CASE command \notin {"QueryDirectory", "ChangeNotify", "QueryInfo", "Ioctl", "Read",
                              "SessionSetup", "Negotiate"}
    BY <1>1, <1>2, <1>12 DEF AnswersTo
  <1> QED BY <1>5, <1>6, <1>7, <1>8, <1>9, <1>10, <1>11, <1>12

\* What the server sends is a reply.
LEMMA ServeReplyKeeps ==
  ASSUME CodecInv, ServeReply
  PROVE  CodecInv'
  <1>1. /\ pc = "sent" /\ pc' = "reply" /\ m' \in AnswersTo(asked) /\ asked \in Commands
        /\ UNCHANGED <<asked, pos, end, left, outer, reach>>
    BY DEF ServeReply, CodecInv, Unread
  <1>2. IsReply(m')
    BY <1>1, AnswersAreReplies
  <1>3. Given' \in Nat
    BY <1>1, <1>2, SizedNext DEF Sized
  <1> QED BY <1>1, <1>2, <1>3 DEF CodecInv, Unread, Read, Walking

-----------------------------------------------------------------------------
(* Requests.                                                                *)

\* A request that was built carries one of the commands.
Sendable(r) == r # None => "command" \in DOMAIN r /\ r.command \in Commands

\* Messages carry the command they are made with,
LEMMA MessageSendable ==
  ASSUME NEW command \in Commands, NEW structure, NEW widths, NEW part, NEW tail
  PROVE  Sendable(Message(command, structure, widths, part, tail))
  BY DEF Sendable, Message

\* also those without a part.
LEMMA BareSendable ==
  ASSUME NEW command \in Commands, NEW structure, NEW widths
  PROVE  Sendable(Bare(command, structure, widths))
  BY MessageSendable DEF Bare

\* Fields other than the command do not matter.
LEMMA ChangedSendable ==
  ASSUME NEW r, "command" \in DOMAIN r, r.command \in Commands, NEW s,
         DOMAIN s = DOMAIN r, s.command = r.command
  PROVE  Sendable(s)
  BY DEF Sendable

\* The credits of a request.
LEMMA ChargedSendable ==
  ASSUME NEW command \in Commands, NEW structure, NEW widths, NEW part, NEW tail, NEW n
  PROVE  Sendable(Charged(Message(command, structure, widths, part, tail), n))
  <1>1. PICK r : r = Message(command, structure, widths, part, tail)
    OBVIOUS
  <1>2. "command" \in DOMAIN r /\ r.command \in Commands
    BY <1>1 DEF Message
  <1>3. DOMAIN Charged(r, n) = DOMAIN r /\ Charged(r, n).command = r.command
    BY <1>2 DEF Charged
  <1> QED BY <1>1, <1>2, <1>3, ChangedSendable

\* The payload of a request.
LEMMA CarryingSendable ==
  ASSUME NEW r, Sendable(r), NEW p
  PROVE  Sendable(Carrying(r, p))
  <1>1. CASE r = None
    BY <1>1 DEF Carrying, Sendable
  <1>2. CASE r # None
    <2>1. "command" \in DOMAIN r /\ r.command \in Commands
      BY <1>2 DEF Sendable
    <2>2. DOMAIN Carrying(r, p) = DOMAIN r /\ Carrying(r, p).command = r.command
      BY <1>2, <2>1 DEF Carrying
    <2> QED BY <2>1, <2>2, ChangedSendable
  <1> QED BY <1>1, <1>2

\* All the builders do, or refuse.
LEMMA BuildersSendable ==
  /\ \A n, d, e : Sendable(buildNegotiateRequest(n, d, e))
  /\ \A t : /\ Sendable(buildTreeConnectRequest(t)) /\ Sendable(buildCreateRequest(t))
            /\ Sendable(buildQueryDirectoryRequest(t))
  /\ Sendable(buildTreeDisconnectRequest) /\ Sendable(buildLogoffRequest)
  /\ Sendable(buildCloseRequest)
  /\ \A n : /\ Sendable(buildSessionSetupRequest(n)) /\ Sendable(buildReadRequest(n))
            /\ Sendable(buildWriteRequest(n)) /\ Sendable(buildQueryInfoRequest(n))
            /\ Sendable(buildChangeNotifyRequest(n)) /\ Sendable(buildIoctlRequest(n))
            /\ Sendable(buildSetInfoRequest(n))
  <1>1. {"Negotiate", "SessionSetup", "TreeConnect", "TreeDisconnect", "Logoff", "Create", "Close",
         "Read", "Write", "Ioctl", "SetInfo", "QueryInfo", "QueryDirectory", "ChangeNotify"}
        \subseteq Commands
    BY DEF Commands, Structures
  <1>2. ASSUME NEW n, NEW d, NEW e PROVE Sendable(buildNegotiateRequest(n, d, e))
    <2>1. PICK r : r = Bare("Negotiate", 36, <<2, 2, 2, 2, 4, 16, 4, 2, 2>>)
      OBVIOUS
    <2>2. "command" \in DOMAIN r /\ r.command \in Commands
      BY <1>1, <2>1 DEF Bare, Message
    <2>3. PICK parts, size : buildNegotiateRequest(n, d, e) = [r EXCEPT !.parts = parts, !.size = size]
      BY <2>1, Zenon DEF buildNegotiateRequest
    <2>4. PICK s : s = [r EXCEPT !.parts = parts, !.size = size]
      OBVIOUS
    <2>5. DOMAIN s = DOMAIN r /\ s.command = r.command
      BY <2>2, <2>4
    <2> QED BY <2>2, <2>3, <2>4, <2>5, ChangedSendable
  <1>3. ASSUME NEW t
        PROVE  /\ Sendable(buildTreeConnectRequest(t)) /\ Sendable(buildCreateRequest(t))
               /\ Sendable(buildQueryDirectoryRequest(t))
    BY <1>1, MessageSendable, Zenon
       DEF buildTreeConnectRequest, buildCreateRequest, buildQueryDirectoryRequest
  <1>4. /\ Sendable(buildTreeDisconnectRequest) /\ Sendable(buildLogoffRequest)
        /\ Sendable(buildCloseRequest)
    BY <1>1, BareSendable, Zenon
       DEF buildTreeDisconnectRequest, buildLogoffRequest, buildCloseRequest
  <1>5. ASSUME NEW n
        PROVE  /\ Sendable(buildReadRequest(n)) /\ Sendable(buildWriteRequest(n))
               /\ Sendable(buildQueryInfoRequest(n)) /\ Sendable(buildIoctlRequest(n))
               /\ Sendable(buildSetInfoRequest(n)) /\ Sendable(buildChangeNotifyRequest(n))
    BY <1>1, MessageSendable, ChargedSendable, Zenon
       DEF buildReadRequest, buildWriteRequest, buildQueryInfoRequest, buildIoctlRequest,
           buildSetInfoRequest, buildChangeNotifyRequest, Bare
  <1>6. ASSUME NEW n PROVE Sendable(buildSessionSetupRequest(n))
    <2>1. PICK part, widths : \/ buildSessionSetupRequest(n) = None
                              \/ buildSessionSetupRequest(n) =
                                   Message("SessionSetup", 25, widths, part, 0)
      BY SMT DEF buildSessionSetupRequest
    <2>2. Sendable(None) /\ Sendable(Message("SessionSetup", 25, widths, part, 0))
      BY <1>1, MessageSendable DEF Sendable
    <2> QED BY <2>1, <2>2
  <1> QED BY <1>2, <1>3, <1>4, <1>5, <1>6

\* Every request carries one of the commands.
LEMMA BuildableSendable ==
  ASSUME NEW r \in Buildable
  PROVE  Sendable(r)
  <1> DEFINE
        named == {t \in Texts : t.utf8 # <<>>}
        links == {buildSymbolicLinkReparseBuffer(s, p) : s, p \in named}
        stubs == {buildDcerpcRequestPdu(buildNetrShareEnumRequestStub(t)) : t \in Texts}
        infos == {buildFileRenameInformation(t) : t \in named}
                   \cup {buildFileFullEaInformation(t, n) : t \in named, n \in 0..4}
        copies == {buildSrvCopyChunkRequest(k) : k \in 1..2}
        paths == {buildDfsGetReferralRequest(t) : t \in Texts}
        initial == {buildSpnegoNegTokenInit(buildNtlmNegotiateMessage(s, t)) : s, t \in Texts}
        answers == {buildSpnegoNegTokenResp(
                      buildNtlmAuthenticateMessage(t, t, version, lm, nt)) :
                        t \in Texts, version \in BOOLEAN, lm \in {1, 24}, nt \in Responses}
        tokens == initial \cup answers
        controls == links \cup copies \cup paths
        pdus == stubs \cup {buildDcerpcBindPdu}
        negotiate == {buildNegotiateRequest(n, d, e) : n \in Dialects, d, e \in BOOLEAN}
        connect == {buildTreeConnectRequest(t) : t \in named}
        create == {buildCreateRequest(t) : t \in Texts}
        query == {buildQueryDirectoryRequest(t) : t \in Texts}
        plain == {buildTreeDisconnectRequest, buildLogoffRequest, buildCloseRequest}
        sized == UNION {{buildSessionSetupRequest(n), buildReadRequest(n), buildWriteRequest(n),
                         buildQueryInfoRequest(n), buildChangeNotifyRequest(n)} : n \in Sizes}
        setup == {Carrying(buildSessionSetupRequest(p.size), p) : p \in tokens}
        ioctl == {Carrying(buildIoctlRequest(p.size), p) : p \in controls}
        info == {Carrying(buildSetInfoRequest(p.size), p) : p \in infos}
        write == {Carrying(buildWriteRequest(p.size), p) : p \in pdus}
  <1>1. r \in UNION {negotiate, connect, create, query, plain, sized, setup, ioctl, info, write}
    BY DEF Buildable
  <1> HIDE DEF named, tokens, controls, infos, pdus
  <1>2. ASSUME r \in negotiate PROVE Sendable(r)
    <2>1. PICK n, d, e : r = buildNegotiateRequest(n, d, e)
      BY <1>2
    <2> QED BY <2>1, BuildersSendable
  <1>3. ASSUME r \in connect \cup create \cup query PROVE Sendable(r)
    BY <1>3, BuildersSendable
  <1>4. ASSUME r \in plain PROVE Sendable(r)
    BY <1>4, BuildersSendable
  <1>5. ASSUME r \in sized PROVE Sendable(r)
    BY <1>5, BuildersSendable
  <1>6. ASSUME r \in setup \cup ioctl \cup info \cup write PROVE Sendable(r)
    <2>1. PICK q, p : r = Carrying(q, p) /\ Sendable(q)
      BY <1>6, BuildersSendable
    <2> QED BY <2>1, CarryingSendable
  <1> HIDE DEF negotiate, connect, create, query, plain, sized, setup, ioctl, info, write
  <1> QED BY <1>1, <1>2, <1>3, <1>4, <1>5, <1>6

\* A request is sent with its command.
LEMMA SendRequestKeeps ==
  ASSUME CodecInv, SendRequest
  PROVE  CodecInv'
  <1>1. asked' \in Commands
    BY BuildableSendable DEF SendRequest, Sendable
  <1>2. /\ pc = "idle" /\ pc' = "sent" /\ UNCHANGED <<m, pos, end, left, outer, reach>>
    BY DEF SendRequest
  <1> QED BY <1>1, <1>2 DEF CodecInv, Unread, Read, Walking

-----------------------------------------------------------------------------
(* Theorems.                                                                *)

\* The invariant holds at the beginning.
LEMMA CodecInitial == CodecInit => CodecInv
  BY DEF CodecInit, CodecInv, Unread, Read, Walking

\* Every step keeps it, one that replaces the reply as well.
LEMMA CodecInductive ==
  ASSUME CodecInv, [CodecNext \/ Replaced]_codecVars
  PROVE  CodecInv'
  <1>1. CASE Replaced
    BY <1>1, ReplacedKeeps DEF Replaced
  <1>2. CASE UNCHANGED codecVars
    BY <1>2, GivenStays DEF codecVars, CodecInv, Unread, Read, Walking
  <1>3. CASE CodecNext
    BY <1>3, SendRequestKeeps, ServeReplyKeeps, CutKeeps, ChangeKeeps, RefuseKeeps,
       NoMoreFilesKeeps, DecodeFixedKeeps, StartChainKeeps, ReferralResponseKeeps, BindAckKeeps,
       StartSharesKeeps, TruncatedKeeps, NextNameKeeps, NextAttributeKeeps, ChainEndsKeeps,
       NextReferralKeeps, ReferralsEndKeeps, NextStringKeeps, SharesEndKeeps, StartTokenKeeps,
       NextValueKeeps, ChallengeKeeps, NextPairKeeps, ForgetKeeps
       DEF CodecNext
  <1> QED BY <1>1, <1>2, <1>3

\* The invariant says that nothing is read past what the decoder was given, and an
\* accepted reply has all that is copied.
LEMMA CodecInvImplies == CodecInv => ReadsInBounds
  <1>1. SUFFICES ASSUME CodecInv, m # None
                 PROVE  reach <= Given /\ (Accepted => Copied <= m.size)
    BY DEF ReadsInBounds
  <1>2. pc \in {"reply", "walk", "done"}
    BY <1>1 DEF CodecInv, Unread
  <1> QED BY <1>1, <1>2, Decoding, CopiedFacts DEF CodecInv, Read

\* No decoder reads past the end of a reply, for any texts and any lists of a
\* server's answers, cut anywhere or changed in one field.
THEOREM Reading == CodecSpec => []ReadsInBounds
  <1>1. CodecInv /\ [CodecNext]_codecVars => CodecInv'
    BY CodecInductive
  <1> QED BY <1>1, CodecInitial, CodecInvImplies, PTL DEF CodecSpec

\* Nor of any reply at all, whatever its fields, its buffers and its cells say:
\* between the server and the decoder it may be replaced by any other.
THEOREM ReadingAnything ==
  CodecInit /\ [][CodecNext \/ Replaced]_codecVars => []ReadsInBounds
  <1>1. CodecInv /\ [CodecNext \/ Replaced]_codecVars => CodecInv'
    BY CodecInductive
  <1> QED BY <1>1, CodecInitial, CodecInvImplies, PTL
=============================================================================
