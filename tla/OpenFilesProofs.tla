-------------------------- MODULE OpenFilesProofs --------------------------
(***************************************************************************)
(* Proofs about OpenFiles, for any number of threads, saves and downloads  *)
(* and a file of any size: a save is noticed, and it reaches the server.   *)
(*                                                                         *)
(* The first needs to know that a registered file is there and followed,   *)
(* and that no save comes before the session.  The second needs, for every *)
(* chunk, what the file and the server hold in the middle of a transfer,   *)
(* and that without mishaps only one operation is under way.               *)
(***************************************************************************)
EXTENDS OpenFiles, SequenceTheorems, TLAPS

\* The types of the state.
Typed ==
  /\ remote \in Contents \cup {None} /\ local \in Contents \cup {None}
  /\ protected \in BOOLEAN /\ session \in BOOLEAN /\ watched \in BOOLEAN
  /\ changed \in BOOLEAN /\ pending \in BOOLEAN
  /\ posted \in Nat /\ queue \in Seq(Kinds)
  /\ ops \in [Workers -> Operations \cup {None}]
  /\ editor \in {"none", "open", "between"}
  /\ saved \in Nat /\ fetches \in Nat /\ picked \in Nat
  /\ mishaps \subseteq {"missed", "failed", "mixed"}

\* What an operation has open is there.
HasFile ==
  \A w \in Workers :
    ops[w] # None /\ ops[w].at \in {"write", "delete", "read", "send"} /\ ops[w].live
      => local # None

\* The file of a session is there and followed, except between two steps of a save.
FileFollowed ==
  session /\ editor # "between" => local # None /\ (watched \/ changed)

\* Saves before the session is registered are missed.
NoEarlySave == ~session => saved = 0

\* Every save has been noticed or will be, with what that rests on; a sync
\* never looks at more saves than there were.
Noticed ==
  /\ picked <= saved
  /\ Excused \/ (FileFollowed /\ NoEarlySave /\ SavesAreNoticed)

\* The inductive invariant behind SavesAreNoticed.
NoticeInv == Typed /\ HasFile /\ Noticed

\* The first n chunks of version v.
Prefix(n, v) == [i \in 1..n |-> v]

\* One operation at a time.
Alone == \A v, w \in Workers : ops[v] # None /\ ops[w] # None => v = w

\* Until the session is registered, the server has what was there and nothing
\* is sent to it.
BeforeSession ==
  ~session =>
    /\ remote = Whole(0) /\ ~pending
    /\ \A i \in 1..Len(queue) : queue[i] # "sync"
    /\ \A w \in Workers : ops[w] # None => ops[w].kind # "sync"
    /\ editor = "open" => posted > 0

\* A download has fetched the chunks before o.next, all of the version that was
\* there, while nobody else touches the copy.
Fetching(o) ==
  /\ ~session /\ posted = 0
  /\ o.live
  /\ o.at \in {"start", "truncate", "write"}
  /\ o.at # "write" => o.next = 1
  /\ o.at # "start" => o.seen = Whole(0)
  /\ o.at = "write" => o.next <= Size + 1 /\ local = Prefix(o.next - 1, 0)

\* Once the download is reported, the copy is the last save, unless the editor
\* is between the two steps of one.
Registered ==
  session \/ posted > 0 => \/ local = Whole(saved)
                           \/ local = None /\ editor = "between"

\* An upload that has seen the last save has sent the chunks before o.next, all
\* of that save.
Sending(o) ==
  /\ o.at \in {"start", "delete", "read", "send"}
  /\ o.at \in {"start", "delete"} => o.next = 1
  /\ o.at = "start" => o.live
  /\ o.at # "start" /\ saved = picked =>
       /\ Source(o) = Whole(saved)
       /\ o.at = "read" => o.next <= Size + 1
       /\ o.at = "send" => o.next <= Size /\ o.buffer = saved
       /\ o.at \in {"read", "send"} =>
            remote = IF o.next = 1 THEN None ELSE Prefix(o.next - 1, saved)

\* When no upload is between its steps and no save is newer than the last one
\* an upload has seen, the server has the last save.
Arrived ==
  /\ session /\ saved = picked
  /\ \A w \in Workers : ops[w] # None => ops[w].at = "start"
  => remote = Whole(saved)

\* What holds of an operation under way, by its kind.
Working(o) == IF o.kind = "sync" THEN Sending(o) ELSE Fetching(o)

\* That, of every operation under way.
AllWorking == \A w \in Workers : ops[w] # None => Working(ops[w])

\* What holds in addition as long as there was no mishap.
Calm ==
  Alone /\ BeforeSession /\ Registered /\ Arrived /\ AllWorking

\* The inductive invariant behind SavesReachTheServer.
ArrivalInv == NoticeInv /\ (mishaps = {} => Calm)

-----------------------------------------------------------------------------
(* Contents and operations. *)

\* No content and no operation is taken for None.
LEMMA NoneLemma == None \notin Contents /\ None \notin Operations
  BY NoneAssumption

\* A file of equal chunks, as the editor and a whole transfer leave it.
LEMMA WholeLemma ==
  ASSUME NEW v \in Nat
  PROVE  Whole(v) \in Contents /\ Whole(v) # None /\ Len(Whole(v)) = Size
  <1>1. Whole(v) \in Seq(Nat \cup {None}) /\ Len(Whole(v)) = Size
    BY SizesAssumption DEF Whole
  <1> QED BY <1>1, NoneLemma DEF Contents

\* Writing a chunk leaves a content.
LEMMA PutLemma ==
  ASSUME NEW file \in Contents \cup {None}, NEW i \in Nat \ {0},
         NEW chunk \in Nat \cup {None}
  PROVE  Put(file, i, chunk) \in Contents /\ Put(file, i, chunk) # None
  <1> DEFINE old == IF file = None THEN <<>> ELSE file
  <1> DEFINE len == IF i > Len(old) THEN i ELSE Len(old)
  <1>1. old \in Seq(Nat \cup {None})
    BY DEF Contents
  <1>2. len \in Nat /\ \A k \in 1..Len(old) : old[k] \in Nat \cup {None}
    BY <1>1
  <1> DEFINE put == [k \in 1..len |-> IF k = i THEN chunk
                                      ELSE IF k <= Len(old) THEN old[k] ELSE None]
  <1>3. put \in [1..len -> Nat \cup {None}]
    BY <1>2, <1>1
  <1>4. put \in Seq(Nat \cup {None})
    BY <1>2, <1>3
  <1>5. Put(file, i, chunk) = put
    BY DEF Put
  <1> QED BY <1>4, <1>5, NoneLemma DEF Contents

\* An operation that loses the name of its file keeps all but the file's content.
LEMMA OrphanedLemma ==
  ASSUME NEW o \in Operations \cup {None}, local \in Contents
  PROVE  /\ Orphaned(o) \in Operations \cup {None}
         /\ Orphaned(o) = None <=> o = None
         /\ o # None =>
              /\ Orphaned(o).kind = o.kind /\ Orphaned(o).at = o.at
              /\ Orphaned(o).next = o.next /\ Orphaned(o).buffer = o.buffer
              /\ o.at \in {"write", "read", "send", "delete"} => ~Orphaned(o).live
              /\ o.at \notin {"write", "read", "send", "delete"} => Orphaned(o) = o
              /\ o.kind = "sync" /\ o.at \in {"read", "send", "delete"} =>
                   Orphaned(o).seen = Source(o)
  <1>1. CASE o = None
    BY <1>1, NoneLemma DEF Orphaned
  <1>2. CASE o # None
    <2>1. o \in Operations
      BY <1>2
    <2>2. CASE o.at \in {"write", "read", "send", "delete"} /\ o.live
      <3>1. CASE o.kind = "sync"
        <4>1. Orphaned(o) = [o EXCEPT !.live = FALSE, !.seen = local]
          BY <1>2, <2>2, <3>1 DEF Orphaned
        <4>2. Source(o) = local
          BY <2>2 DEF Source
        <4>3. Orphaned(o) \in Operations
          BY <4>1, <2>1 DEF Operations
        <4>4. /\ Orphaned(o).kind = o.kind /\ Orphaned(o).at = o.at
              /\ Orphaned(o).next = o.next /\ Orphaned(o).buffer = o.buffer
              /\ ~Orphaned(o).live /\ Orphaned(o).seen = local
          BY <4>1, <2>1 DEF Operations
        <4> QED BY <4>2, <4>3, <4>4, <2>1, <2>2, <1>2, NoneLemma
      <3>2. CASE o.kind # "sync"
        <4>1. Orphaned(o) = [o EXCEPT !.live = FALSE]
          BY <1>2, <2>2, <3>2 DEF Orphaned
        <4>2. Orphaned(o) \in Operations
          BY <4>1, <2>1 DEF Operations
        <4>3. /\ Orphaned(o).kind = o.kind /\ Orphaned(o).at = o.at
              /\ Orphaned(o).next = o.next /\ Orphaned(o).buffer = o.buffer
              /\ ~Orphaned(o).live
          BY <4>1, <2>1 DEF Operations
        <4> QED BY <4>2, <4>3, <2>1, <2>2, <3>2, <1>2, NoneLemma
      <3> QED BY <3>1, <3>2
    <2>3. CASE ~(o.at \in {"write", "read", "send", "delete"} /\ o.live)
      <3>1. Orphaned(o) = o
        BY <2>3 DEF Orphaned
      <3>2. o.at \in {"write", "read", "send", "delete"} => ~o.live
        BY <2>3
      <3>3. ~o.live => Source(o) = o.seen
        BY DEF Source
      <3> QED BY <3>1, <3>2, <3>3, <2>1, <1>2
    <2> QED BY <2>2, <2>3
  <1> QED BY <1>1, <1>2

\* An operation that starts.
LEMMA OpLemma ==
  ASSUME NEW kind \in Kinds
  PROVE  /\ Op(kind) \in Operations /\ Op(kind) # None
         /\ Op(kind).kind = kind /\ Op(kind).at = "start"
         /\ Op(kind).next = 1 /\ Op(kind).live
  <1>1. <<>> \in Contents
    BY DEF Contents
  <1>2. Op(kind) \in Operations
    BY <1>1 DEF Op, Operations
  <1> QED BY <1>2, NoneLemma DEF Op

\* A step of thread w leaves the other threads alone.
LEMMA GoesLemma ==
  ASSUME NEW w \in Workers, NEW o \in Operations \cup {None},
         ops \in [Workers -> Operations \cup {None}], Goes(w, o)
  PROVE  /\ ops' \in [Workers -> Operations \cup {None}]
         /\ ops'[w] = o
         /\ \A v \in Workers : v # w => ops'[v] = ops[v]
  BY DEF Goes

\* When a file is replaced, the operations on it go on.
LEMMA OrphansLemma ==
  ASSUME ops \in [Workers -> Operations \cup {None}], local \in Contents,
         ops' = [w \in Workers |-> Orphaned(ops[w])]
  PROVE  /\ ops' \in [Workers -> Operations \cup {None}]
         /\ \A w \in Workers :
              /\ ops'[w] = Orphaned(ops[w])
              /\ ops'[w] # None => ops[w] # None
  BY OrphanedLemma

-----------------------------------------------------------------------------
(* Types. *)

\* The state has its types at the start.
LEMMA TypedInit == Init => Typed /\ HasFile
  <1> SUFFICES ASSUME Init PROVE Typed /\ HasFile
    OBVIOUS
  <1>1. remote \in Contents
    BY WholeLemma DEF Init
  <1>2. HasFile
    BY DEF Init, HasFile
  <1>3. queue \in Seq(Kinds) /\ ops \in [Workers -> Operations \cup {None}]
    BY DEF Init
  <1> QED BY <1>1, <1>2, <1>3 DEF Init, Typed

\* A step of the user, the editor or the GUI thread keeps the types.
LEMMA TypedOutside ==
  ASSUME Typed, HasFile
  PROVE  /\ \A kind \in Kinds : Activate(kind) => Typed' /\ HasFile'
         /\ SaveInPlace => Typed' /\ HasFile'
         /\ SaveByRename => Typed' /\ HasFile'
         /\ SaveRemoves => Typed' /\ HasFile'
         /\ SaveCreates => Typed' /\ HasFile'
         /\ Clear => Typed' /\ HasFile'
         /\ Register => Typed' /\ HasFile'
         /\ Schedule => Typed' /\ HasFile'
         /\ Flush => Typed' /\ HasFile'
  <1> USE DEF Typed
  <1>0. \A v \in Nat : Whole(v) \in Contents /\ Whole(v) # None
    BY WholeLemma
  <1>1. ASSUME NEW kind \in Kinds, Activate(kind) PROVE Typed' /\ HasFile'
    BY <1>1 DEF Activate, HasFile
  <1>2. ASSUME SaveInPlace PROVE Typed' /\ HasFile'
    BY <1>2, <1>0 DEF SaveInPlace, HasFile, Touched, Early
  <1>3. ASSUME SaveByRename PROVE Typed' /\ HasFile'
    <2>1. local \in Contents /\ ops' = [w \in Workers |-> Orphaned(ops[w])]
      BY <1>3 DEF SaveByRename
    <2>2. HasFile'
      BY <1>3, <1>0 DEF SaveByRename, HasFile
    <2>3. ops' \in [Workers -> Operations \cup {None}]
      BY <2>1, OrphansLemma
    <2>4. mishaps' \subseteq {"missed", "failed", "mixed"}
      BY <1>3 DEF SaveByRename, Early
    <2>5. local' \in Contents /\ saved' \in Nat
      BY <1>3, <1>0 DEF SaveByRename
    <2> QED BY <1>3, <2>2, <2>3, <2>4, <2>5 DEF SaveByRename, Gone
  <1>4. ASSUME SaveRemoves PROVE Typed' /\ HasFile'
    <2>1. local \in Contents /\ ops' = [w \in Workers |-> Orphaned(ops[w])]
      BY <1>4 DEF SaveRemoves
    <2>2. HasFile'
      BY <2>1, OrphansLemma, OrphanedLemma DEF HasFile
    <2>3. ops' \in [Workers -> Operations \cup {None}]
      BY <2>1, OrphansLemma
    <2> QED BY <1>4, <2>2, <2>3 DEF SaveRemoves, Gone
  <1>5. ASSUME SaveCreates PROVE Typed' /\ HasFile'
    BY <1>5, <1>0 DEF SaveCreates, HasFile, Touched, Early
  <1>6. ASSUME Clear PROVE Typed' /\ HasFile'
    <2>1. local \in Contents /\ ops' = [w \in Workers |-> Orphaned(ops[w])]
      BY <1>6 DEF Clear
    <2>2. HasFile'
      BY <2>1, OrphansLemma, OrphanedLemma DEF HasFile
    <2>3. ops' \in [Workers -> Operations \cup {None}]
      BY <2>1, OrphansLemma
    <2> QED BY <1>6, <2>2, <2>3 DEF Clear, Gone
  <1>7. ASSUME Register PROVE Typed' /\ HasFile'
    <2>1. HasFile'
      BY <1>7 DEF Register, HasFile
    <2>2. posted' \in Nat /\ session' \in BOOLEAN /\ watched' \in BOOLEAN
      <3>1. posted' \in Nat
        BY <1>7 DEF Register
      <3>2. CASE local = None
        BY <1>7, <3>1, <3>2, Zenon DEF Register
      <3>3. CASE local # None
        BY <1>7, <3>1, <3>3, Zenon DEF Register
      <3> QED BY <3>2, <3>3
    <2> QED BY <1>7, <2>1, <2>2 DEF Register
  <1>8. ASSUME Schedule PROVE Typed' /\ HasFile'
    BY <1>8 DEF Schedule, HasFile, Rewatched
  <1>9. ASSUME Flush PROVE Typed' /\ HasFile'
    <2>1. HasFile'
      BY <1>9 DEF Flush, HasFile
    <2>2. "sync" \in Kinds
      BY DEF Kinds
    <2>3. queue' \in Seq(Kinds)
      BY <1>9, <2>2 DEF Flush
    <2> QED BY <1>9, <2>1, <2>3 DEF Flush
  <1> QED BY <1>1, <1>2, <1>3, <1>4, <1>5, <1>6, <1>7, <1>8, <1>9

\* A step of a thread of the pool keeps the types.
LEMMA TypedInside ==
  ASSUME Typed, HasFile, NEW w \in Workers
  PROVE  /\ Take(w) => Typed' /\ HasFile'
         /\ Fail(w) => Typed' /\ HasFile'
         /\ Step(w) => Typed' /\ HasFile'
  <1> USE DEF Typed
  <1>0. None \in Operations \cup {None}
    OBVIOUS
  <1>1. ASSUME Take(w) PROVE Typed' /\ HasFile'
    <2>1. Head(queue) \in Kinds /\ Tail(queue) \in Seq(Kinds)
      BY <1>1 DEF Take
    <2>2. Goes(w, Op(Head(queue)))
      BY <1>1 DEF Take, Goes
    <2>3. HasFile'
      BY <1>1, <2>1, <2>2, OpLemma, GoesLemma DEF Take, HasFile
    <2> QED BY <1>1, <2>1, <2>2, <2>3, OpLemma, GoesLemma DEF Take
  <1>2. ASSUME Fail(w) PROVE Typed' /\ HasFile'
    <2>1. HasFile'
      BY <1>2, <1>0, GoesLemma DEF Fail, Ends, HasFile
    <2> QED BY <1>2, <1>0, <2>1, GoesLemma DEF Fail, Ends, Failure
  <1>3. ASSUME Step(w) PROVE Typed' /\ HasFile'
    <2> DEFINE o == ops[w]
    <2>1. o \in Operations /\ o # None
      BY <1>3 DEF Step
    <2>2. CASE OpenRemote(w)
      <3> DEFINE n == [o EXCEPT !.at = "truncate", !.seen = remote]
      <3>1. CASE remote = None
        BY <2>2, <3>1, <1>0, GoesLemma DEF OpenRemote, Ends, Failure, HasFile
      <3>2. CASE remote # None
        <4>1. n \in Operations /\ n.at = "truncate"
          BY <2>1, <3>2 DEF Operations
        <4>2. Goes(w, n)
          BY <2>2, <3>2 DEF OpenRemote
        <4> HIDE DEF n
        <4>3. HasFile'
          BY <4>1, <4>2, <2>2, GoesLemma DEF OpenRemote, HasFile
        <4> QED BY <2>2, <3>2, <4>1, <4>2, <4>3, GoesLemma DEF OpenRemote
      <3> QED BY <3>1, <3>2
    <2>3. CASE Truncate(w)
      <3> DEFINE n == [o EXCEPT !.at = "write"]
      <3>1. n \in Operations /\ Goes(w, n)
        BY <2>1, <2>3 DEF Operations, Truncate
      <3>2. <<>> \in Contents /\ <<>> # None
        <4>1. <<>> \in Contents
          BY DEF Contents
        <4> QED BY <4>1, NoneLemma
      <3> HIDE DEF n
      <3>3. HasFile'
        BY <3>2, <2>3 DEF Truncate, HasFile
      <3> QED BY <2>3, <3>1, <3>2, <3>3, GoesLemma DEF Truncate, Touched
    <2>4. CASE WriteLocal(w)
      <3> DEFINE n == [o EXCEPT !.next = @ + 1]
      <3>1. n \in Operations /\ n.live = o.live /\ n.at = o.at /\ Goes(w, n)
        BY <2>1, <2>4, SMTT(30) DEF Operations, WriteLocal
      <3>2. o.next \in 1..Len(o.seen) /\ o.seen \in Seq(Nat \cup {None}) /\ o.next \in Nat \ {0}
        BY <2>1, <2>4 DEF Operations, WriteLocal, Contents
      <3>3. o.seen[o.next] \in Nat \cup {None}
        BY <3>2
      <3> HIDE DEF n
      <3>4. local' \in Contents \cup {None} /\ (local # None => local' # None)
        <4>1. CASE o.live
          <5>1. local' = Put(local, o.next, o.seen[o.next])
            BY <2>4, <4>1 DEF WriteLocal
          <5> QED BY <5>1, <3>2, <3>3, PutLemma
        <4>2. CASE ~o.live
          BY <2>4, <4>2 DEF WriteLocal
        <4> QED BY <4>1, <4>2
      <3>5. HasFile'
        BY <2>4, <3>1, <3>4, <2>1, GoesLemma DEF WriteLocal, HasFile
      <3> QED BY <2>4, <3>1, <3>4, <3>5, GoesLemma DEF WriteLocal, Touched
    <2>5. CASE Downloaded(w)
      <3>1. HasFile'
        BY <2>5, <1>0, GoesLemma DEF Downloaded, Ends, HasFile
      <3>2. ops' \in [Workers -> Operations \cup {None}]
        BY <2>5, <1>0, GoesLemma DEF Downloaded, Ends
      <3>3. /\ editor' \in {"none", "open", "between"} /\ posted' \in Nat
            /\ mishaps' \subseteq {"missed", "failed", "mixed"}
        <4>1. Failure(o) \in {"failed", "mixed"}
          BY DEF Failure
        <4>2. /\ \/ editor' = (IF editor = "none" THEN "open" ELSE editor)
                 \/ editor' = editor
              /\ posted' = posted + 1 \/ posted' = posted
              /\ mishaps' = mishaps \/ mishaps' = mishaps \cup {Failure(o)}
          BY <2>5 DEF Downloaded
        <4>3. mishaps' \subseteq {"missed", "failed", "mixed"}
          BY <4>1, <4>2
        <4>4. editor' \in {"none", "open", "between"}
          BY <4>2
        <4>5. posted' \in Nat
          BY <4>2
        <4> QED BY <4>3, <4>4, <4>5
      <3> QED BY <2>5, <3>1, <3>2, <3>3 DEF Downloaded
    <2>6. CASE Fetched(w)
      BY <2>6, <1>0, GoesLemma DEF Fetched, Ends, HasFile
    <2>7. CASE OpenLocal(w)
      <3> DEFINE n == [o EXCEPT !.at = "delete"]
                 m == [o EXCEPT !.tries = @ + 1]
      <3>1. n \in Operations /\ m \in Operations /\ m.at = "start"
        BY <2>1, <2>7, SMTT(30) DEF Operations, OpenLocal
      <3>2. CASE local # None
        <4>1. Goes(w, n)
          BY <2>7, <3>2 DEF OpenLocal
        <4> QED BY <2>7, <3>1, <3>2, <4>1, GoesLemma DEF OpenLocal, HasFile
      <3>3. CASE local = None
        <4>1. Goes(w, m) \/ Goes(w, None)
          BY <2>7, <3>3 DEF OpenLocal, Ends
        <4> HIDE DEF n, m
        <4>2. HasFile' /\ ops' \in [Workers -> Operations \cup {None}]
          BY <2>7, <3>1, <4>1, <1>0, GoesLemma DEF OpenLocal, HasFile
        <4> QED BY <2>7, <3>3, <4>2 DEF OpenLocal, Failure
      <3> QED BY <3>2, <3>3
    <2>8. CASE DeleteRemote(w)
      <3> DEFINE n == [o EXCEPT !.at = "read"]
      <3>1. n \in Operations /\ n.live = o.live /\ Goes(w, n) /\ o.at = "delete"
        BY <2>1, <2>8 DEF Operations, DeleteRemote
      <3> HIDE DEF n
      <3>2. HasFile'
        BY <2>8, <2>1, <3>1, GoesLemma DEF DeleteRemote, HasFile
      <3> QED BY <2>8, <3>1, <3>2, GoesLemma DEF DeleteRemote
    <2>9. CASE ReadLocal(w)
      <3> DEFINE n == [o EXCEPT !.at = "send", !.buffer = Source(o)[o.next]]
      <3>1. o.at = "read" /\ (o.live => local # None)
        BY <2>1, <2>9 DEF ReadLocal, HasFile
      <3>2. Source(o) \in Seq(Nat \cup {None})
        BY <2>1, <3>1 DEF Source, Operations, Contents
      <3>3. CASE o.next <= Len(Source(o))
        <4>1. Source(o)[o.next] \in Nat \cup {None}
          BY <2>1, <3>2, <3>3 DEF Operations
        <4>2. n \in Operations /\ n.live = o.live
          BY <2>1, <4>1 DEF Operations
        <4>3. Goes(w, n)
          BY <2>9, <3>3 DEF ReadLocal
        <4> HIDE DEF n
        <4>4. HasFile'
          BY <2>9, <2>1, <3>1, <4>2, <4>3, GoesLemma DEF ReadLocal, HasFile
        <4> QED BY <2>9, <4>2, <4>3, <4>4, GoesLemma DEF ReadLocal
      <3>4. CASE ~(o.next <= Len(Source(o)))
        <4>1. Goes(w, None)
          BY <2>9, <3>4 DEF ReadLocal, Ends
        <4>2. HasFile'
          BY <2>9, <4>1, <1>0, GoesLemma DEF ReadLocal, HasFile
        <4> QED BY <2>9, <4>1, <4>2, <1>0, GoesLemma DEF ReadLocal
      <3> QED BY <3>3, <3>4
    <2>10. CASE SendChunk(w)
      <3> DEFINE n == [o EXCEPT !.at = "read", !.next = @ + 1, !.buffer = None]
      <3>0. o.next \in Nat \ {0} /\ o.buffer \in Nat \cup {None}
        BY <2>1 DEF Operations
      <3>1. n \in Operations /\ n.live = o.live /\ Goes(w, n) /\ o.at = "send"
        <4>1. o.next + 1 \in Nat \ {0} /\ None \in Nat \cup {None}
          BY <3>0
        <4>2. n \in Operations /\ n.live = o.live
          BY <2>1, <4>1 DEF Operations
        <4> QED BY <4>2, <2>10 DEF SendChunk
      <3> HIDE DEF n
      <3>2. HasFile'
        BY <2>10, <2>1, <3>1, GoesLemma DEF SendChunk, HasFile
      <3>3. remote' \in Contents
        BY <2>10, <3>0, PutLemma DEF SendChunk
      <3> QED BY <2>10, <3>1, <3>2, <3>3, GoesLemma DEF SendChunk
    <2> QED BY <1>3, <2>2, <2>3, <2>4, <2>5, <2>6, <2>7, <2>8, <2>9, <2>10 DEF Step
  <1> QED BY <1>1, <1>2, <1>3

-----------------------------------------------------------------------------
(* Saves are noticed. *)

\* Nothing has been saved at the start.
LEMMA NoticedInit == Init => Noticed
  <1> SUFFICES ASSUME Init PROVE Noticed
    OBVIOUS
  <1>1. saved = 0 /\ picked = 0 /\ ~session
    BY DEF Init
  <1> QED BY <1>1 DEF Noticed, FileFollowed, NoEarlySave, SavesAreNoticed

\* A mishap is not forgotten.
LEMMA ExcusedLemma ==
  ASSUME NEW what, mishaps' = mishaps \cup what
  PROVE  Excused => Excused'
  BY DEF Excused

\* A sync is in the queue.
SyncWaits == \E i \in 1..Len(queue) : queue[i] = "sync"

\* A sync has a thread and has not looked at the file yet.
SyncStarts == \E w \in Workers : ops[w] # None /\ ops[w].kind = "sync" /\ ops[w].at = "start"

\* The four ways in which a sync is to come.
LEMMA ComingLemma == Coming <=> changed \/ pending \/ SyncWaits \/ SyncStarts
  BY DEF Coming, SyncWaits, SyncStarts

\* What a thread does with an operation other than a sync about to start leaves
\* those syncs alone.
LEMMA StartsLemma ==
  ASSUME Typed, NEW w \in Workers, NEW o \in Operations \cup {None}, Goes(w, o),
         \/ ops[w] = None \/ ops[w].kind # "sync" \/ ops[w].at # "start"
         \/ o # None /\ o.kind = "sync" /\ o.at = "start"
  PROVE  SyncStarts => SyncStarts'
  <1> SUFFICES ASSUME SyncStarts PROVE SyncStarts'
    OBVIOUS
  <1>1. PICK v \in Workers : ops[v] # None /\ ops[v].kind = "sync" /\ ops[v].at = "start"
    BY DEF SyncStarts
  <1>2. /\ ops'[w] = o
        /\ \A u \in Workers : u # w => ops'[u] = ops[u]
    BY GoesLemma DEF Typed
  <1>3. CASE v # w
    BY <1>1, <1>2, <1>3 DEF SyncStarts
  <1>4. CASE v = w
    BY <1>1, <1>2, <1>4 DEF SyncStarts
  <1> QED BY <1>3, <1>4

\* Replacing the file leaves the syncs about to start alone.
LEMMA OrphansStartLemma ==
  ASSUME Typed, local \in Contents, ops' = [w \in Workers |-> Orphaned(ops[w])]
  PROVE  SyncStarts => SyncStarts'
  BY OrphansLemma, OrphanedLemma DEF SyncStarts, Typed

\* A step of the user, the editor or the GUI thread.
LEMMA NoticedOutside ==
  ASSUME Typed, HasFile, Noticed
  PROVE  /\ \A kind \in Kinds : Activate(kind) => Noticed'
         /\ SaveInPlace => Noticed'
         /\ SaveByRename => Noticed'
         /\ SaveRemoves => Noticed'
         /\ SaveCreates => Noticed'
         /\ Clear => Noticed'
         /\ Register => Noticed'
         /\ Schedule => Noticed'
         /\ Flush => Noticed'
  <1> USE ComingLemma DEF Typed
  <1>0. \A v \in Nat : Whole(v) # None
    BY WholeLemma
  <1>1. ASSUME NEW kind \in Kinds, Activate(kind) PROVE Noticed'
    <2>1. SyncWaits => SyncWaits'
      BY <1>1 DEF SyncWaits, Activate
    <2>2. SyncStarts => SyncStarts'
      BY <1>1 DEF SyncStarts, Activate
    <2>3. Coming => Coming'
      BY <2>1, <2>2, <1>1 DEF Activate, Coming, SyncWaits, SyncStarts
    <2> QED BY <1>1, <2>3 DEF Activate, Noticed, Excused, FileFollowed, NoEarlySave, SavesAreNoticed
  <1>2. ASSUME SaveInPlace PROVE Noticed'
    <2>1. Excused' \/ (session /\ ~Excused)
      BY <1>2 DEF SaveInPlace, Early, Excused
    <2>2. CASE session /\ ~Excused
      <3>1. changed'
        BY <1>2, <2>2 DEF SaveInPlace, Touched, Noticed, FileFollowed
      <3> QED BY <1>2, <2>2, <3>1, <1>0 DEF SaveInPlace, Noticed, FileFollowed, NoEarlySave, SavesAreNoticed, Coming
    <2> QED BY <1>2, <2>1, <2>2 DEF SaveInPlace, Noticed
  <1>3. ASSUME SaveByRename PROVE Noticed'
    <2>1. Excused' \/ (session /\ ~Excused)
      BY <1>3 DEF SaveByRename, Early, Excused
    <2>2. CASE session /\ ~Excused
      <3>1. changed'
        BY <1>3, <2>2 DEF SaveByRename, Gone, Noticed, FileFollowed
      <3> QED BY <1>3, <2>2, <3>1, <1>0 DEF SaveByRename, Noticed, FileFollowed, NoEarlySave, SavesAreNoticed, Coming
    <2> QED BY <1>3, <2>1, <2>2 DEF SaveByRename, Noticed
  <1>4. ASSUME SaveRemoves PROVE Noticed'
    BY <1>4 DEF SaveRemoves, Noticed, Excused, FileFollowed, NoEarlySave, SavesAreNoticed
  <1>5. ASSUME SaveCreates PROVE Noticed'
    <2>1. Excused' \/ (session /\ changed /\ ~Excused)
      BY <1>5 DEF SaveCreates, Early, Excused
    <2>2. CASE session /\ changed /\ ~Excused
      <3>1. changed'
        BY <1>5, <2>2 DEF SaveCreates, Touched
      <3> QED BY <1>5, <2>2, <3>1, <1>0 DEF SaveCreates, Noticed, FileFollowed, NoEarlySave, SavesAreNoticed, Coming
    <2> QED BY <1>5, <2>1, <2>2 DEF SaveCreates, Noticed
  <1>6. ASSUME Clear PROVE Noticed'
    BY <1>6 DEF Clear, Noticed, Excused
  <1>7. ASSUME Register PROVE Noticed'
    <2>1. Coming => Coming'
      BY <1>7 DEF Register, Coming
    <2> QED BY <1>7, <2>1 DEF Register, Noticed, Excused, FileFollowed, NoEarlySave, SavesAreNoticed
  <1>8. ASSUME Schedule PROVE Noticed'
    <2> SUFFICES ASSUME ~Excused PROVE Noticed'
      BY <1>8 DEF Schedule, Noticed, Excused
    <2>1. CASE session
      <3>1. pending' /\ (local # None => watched')
        BY <1>8, <2>1 DEF Schedule, Rewatched
      <3>2. Coming'
        BY <3>1 DEF Coming
      <3> QED BY <1>8, <2>1, <3>1, <3>2 DEF Schedule, Noticed, FileFollowed, NoEarlySave, SavesAreNoticed
    <2>2. CASE ~session
      <3>1. saved = 0
        BY <2>2 DEF Noticed, NoEarlySave
      <3> QED BY <1>8, <2>2, <3>1 DEF Schedule, Noticed, FileFollowed, NoEarlySave, SavesAreNoticed
    <2> QED BY <2>1, <2>2
  <1>9. ASSUME Flush PROVE Noticed'
    <2> SUFFICES ASSUME ~Excused PROVE Noticed'
      BY <1>9 DEF Flush, Noticed, Excused
    <2>1. FileFollowed' /\ NoEarlySave' /\ picked' <= saved'
      BY <1>9 DEF Flush, Noticed, FileFollowed, NoEarlySave
    <2>2. SavesAreNoticed'
      <3> SUFFICES ASSUME saved > picked, editor # "between" PROVE Coming'
        BY <1>9 DEF Flush, SavesAreNoticed
      <3>1. session
        BY DEF Noticed, NoEarlySave
      <3>2. local # None
        BY <3>1 DEF Noticed, FileFollowed
      <3>3. queue' = Append(queue, "sync")
        BY <1>9, <3>2 DEF Flush
      <3>4. Len(queue) + 1 \in 1..Len(queue') /\ queue'[Len(queue) + 1] = "sync"
        BY <3>3
      <3> QED BY <3>4 DEF Coming
    <2> QED BY <2>1, <2>2 DEF Noticed
  <1> QED BY <1>1, <1>2, <1>3, <1>4, <1>5, <1>6, <1>7, <1>8, <1>9

\* A step of a thread that changes neither the session nor the editor, keeps the file
\* and its watch, and leaves the syncs to come.
LEMMA NoticedKept ==
  ASSUME Typed, Noticed,
         UNCHANGED <<session, editor, saved, picked, watched>>,
         local # None => local' # None, changed => changed',
         NEW what, mishaps' = mishaps \cup what,
         (Coming => Coming') \/ Excused'
  PROVE  Noticed'
  <1>1. Excused => Excused'
    BY DEF Excused
  <1> QED BY <1>1 DEF Noticed, FileFollowed, NoEarlySave, SavesAreNoticed

\* A step of a thread of the pool.
LEMMA NoticedInside ==
  ASSUME Typed, HasFile, Noticed, NEW w \in Workers
  PROVE  /\ Take(w) => Noticed'
         /\ Fail(w) => Noticed'
         /\ Step(w) => Noticed'
  <1> DEFINE o == ops[w]
  <1>0. None \in Operations \cup {None} /\ mishaps = mishaps \cup {}
    OBVIOUS
  <1>1. ASSUME Take(w) PROVE Noticed'
    <2>1. Head(queue) \in Kinds /\ Goes(w, Op(Head(queue))) /\ ops[w] = None
      BY <1>1 DEF Take, Goes, Typed
    <2>2. SyncStarts => SyncStarts'
      BY <2>1, OpLemma, StartsLemma
    <2>3. SyncWaits => SyncWaits' \/ SyncStarts'
      <3> SUFFICES ASSUME NEW i \in 1..Len(queue), queue[i] = "sync"
                   PROVE  SyncWaits' \/ SyncStarts'
        BY DEF SyncWaits
      <3>1. CASE i = 1
        <4>1. Head(queue) = "sync"
          BY <3>1 DEF Typed
        <4>2. ops'[w] = Op("sync")
          BY <2>1, <4>1, OpLemma, GoesLemma DEF Typed
        <4> QED BY <4>2, OpLemma DEF SyncStarts, Kinds
      <3>2. CASE i # 1
        <4>1. queue' = Tail(queue)
          BY <1>1 DEF Take
        <4>2. i - 1 \in 1..Len(queue') /\ queue'[i - 1] = "sync"
          BY <3>2, <4>1 DEF Typed
        <4> QED BY <4>2 DEF SyncWaits
      <3> QED BY <3>1, <3>2
    <2>4. Coming => Coming'
      BY <2>2, <2>3, <1>1 DEF Take, Coming, SyncWaits, SyncStarts
    <2> DEFINE what == IF \/ \E v \in Workers : ops[v] # None
                          \/ Head(queue) # "sync" /\ (session \/ posted > 0)
                       THEN {"mixed"} ELSE {}
    <2>5. mishaps' = mishaps \cup what
      BY <1>1 DEF Take
    <2> HIDE DEF what
    <2> QED BY <1>1, <2>4, <2>5, NoticedKept DEF Take
  <1>2. ASSUME Fail(w) PROVE Noticed'
    <2>1. Goes(w, None) /\ mishaps' = mishaps \cup {Failure(o)}
      BY <1>2 DEF Fail, Ends
    <2>2. CASE o.kind = "sync"
      <3>1. Excused'
        BY <2>1, <2>2 DEF Failure, Excused
      <3> QED BY <1>2, <2>1, <3>1, NoticedKept DEF Fail
    <2>3. CASE o.kind # "sync"
      <3>1. SyncStarts => SyncStarts'
        BY <2>1, <2>3, StartsLemma, <1>0
      <3>2. Coming => Coming'
        BY <3>1, <1>2 DEF Fail, Coming, SyncStarts
      <3> QED BY <1>2, <2>1, <3>2, NoticedKept DEF Fail
    <2> QED BY <2>2, <2>3
  <1>3. ASSUME Step(w) PROVE Noticed'
    <2>1. o \in Operations /\ o # None
      BY <1>3 DEF Step, Typed
    <2>2. CASE OpenRemote(w)
      <3>1. PICK n \in Operations \cup {None} : Goes(w, n)
        <4> DEFINE n == [o EXCEPT !.at = "truncate", !.seen = remote]
        <4>1. CASE remote = None
          BY <2>2, <4>1 DEF OpenRemote, Ends
        <4>2. CASE remote # None
          <5>1. n \in Operations
            BY <2>1, <4>2 DEF Operations, Typed
          <5> QED BY <2>2, <4>2, <5>1 DEF OpenRemote
        <4> QED BY <4>1, <4>2
      <3>2. SyncStarts => SyncStarts'
        BY <2>2, <3>1, StartsLemma DEF OpenRemote
      <3>3. Coming => Coming'
        BY <2>2, <3>2 DEF OpenRemote, Coming, SyncStarts
      <3>4. mishaps' = mishaps \cup {} \/ mishaps' = mishaps \cup {Failure(o)}
        BY <2>2 DEF OpenRemote
      <3> QED BY <2>2, <3>3, <3>4, NoticedKept DEF OpenRemote
    <2>3. CASE Truncate(w)
      <3> DEFINE n == [o EXCEPT !.at = "write"]
      <3>1. n \in Operations /\ Goes(w, n) /\ o.at = "truncate"
        BY <2>1, <2>3 DEF Operations, Truncate
      <3> HIDE DEF n
      <3>2. SyncStarts => SyncStarts'
        BY <3>1, StartsLemma
      <3>3. changed => changed'
        BY <2>3 DEF Truncate, Touched
      <3>4. Coming => Coming'
        BY <2>3, <3>2, <3>3 DEF Truncate, Coming, SyncStarts
      <3>5. local' # None
        <4>1. <<>> \in Contents
          BY DEF Contents
        <4> QED BY <2>3, <4>1, NoneLemma DEF Truncate
      <3>6. UNCHANGED <<session, editor, saved, picked, watched, mishaps>>
        BY <2>3 DEF Truncate, Touched
      <3> QED BY <3>3, <3>4, <3>5, <3>6, <1>0, NoticedKept
    <2>4. CASE WriteLocal(w)
      <3> DEFINE n == [o EXCEPT !.next = @ + 1]
      <3>1. n \in Operations /\ Goes(w, n) /\ o.at = "write"
        BY <2>1, <2>4 DEF Operations, WriteLocal
      <3> HIDE DEF n
      <3>2. SyncStarts => SyncStarts'
        BY <3>1, StartsLemma
      <3>3. changed => changed'
        BY <2>4 DEF WriteLocal, Touched
      <3>4. Coming => Coming'
        BY <2>4, <3>2, <3>3 DEF WriteLocal, Coming, SyncStarts
      <3>5. local # None => local' # None
        <4>1. /\ o.next \in 1..Len(o.seen) /\ o.seen \in Seq(Nat \cup {None})
              /\ o.next \in Nat \ {0}
          BY <2>1, <2>4 DEF Operations, WriteLocal, Contents
        <4>2. o.seen[o.next] \in Nat \cup {None}
          BY <4>1
        <4>3. CASE o.live
          <5>1. local' = Put(local, o.next, o.seen[o.next])
            BY <2>4, <4>3 DEF WriteLocal
          <5> QED BY <5>1, <4>1, <4>2, PutLemma DEF Typed
        <4>4. CASE ~o.live
          BY <2>4, <4>4 DEF WriteLocal
        <4> QED BY <4>3, <4>4
      <3>6. UNCHANGED <<session, editor, saved, picked, watched, mishaps>>
        BY <2>4 DEF WriteLocal, Touched
      <3> QED BY <3>3, <3>4, <3>5, <3>6, <1>0, NoticedKept
    <2>5. CASE Downloaded(w)
      <3>1. SyncStarts => SyncStarts'
        BY <2>5, <1>0, StartsLemma DEF Downloaded, Ends
      <3>2. Coming => Coming'
        BY <2>5, <3>1 DEF Downloaded, Coming, SyncStarts
      <3>3. editor' = "between" <=> editor = "between"
        BY <2>5 DEF Downloaded
      <3>4. Excused => Excused'
        BY <2>5 DEF Downloaded, Excused
      <3> QED BY <2>5, <3>2, <3>3, <3>4
          DEF Downloaded, Noticed, FileFollowed, NoEarlySave, SavesAreNoticed
    <2>6. CASE Fetched(w)
      <3>1. SyncStarts => SyncStarts'
        BY <2>6, <1>0, StartsLemma DEF Fetched, Ends
      <3>2. Coming => Coming'
        BY <2>6, <3>1 DEF Fetched, Coming, SyncStarts
      <3> QED BY <2>6, <3>2, <1>0, NoticedKept DEF Fetched
    <2>7. CASE OpenLocal(w)
      <3>1. CASE local # None
        <4>1. UNCHANGED <<local, session, watched, changed, editor, saved, mishaps>> /\ picked' = saved
          BY <2>7, <3>1 DEF OpenLocal
        <4> QED BY <4>1 DEF Typed, Noticed, Excused, FileFollowed, NoEarlySave, SavesAreNoticed
      <3>2. CASE local = None /\ o.tries + 1 < MaxTries
        <4> DEFINE m == [o EXCEPT !.tries = @ + 1]
        <4>1. m \in Operations /\ m.kind = "sync" /\ m.at = "start"
          BY <2>1, <2>7 DEF Operations, OpenLocal
        <4>2. Goes(w, m) /\ UNCHANGED mishaps
          BY <2>7, <3>2 DEF OpenLocal
        <4> HIDE DEF m
        <4>3. SyncStarts => SyncStarts'
          BY <4>1, <4>2, StartsLemma, NoneLemma
        <4>4. Coming => Coming'
          BY <2>7, <4>3 DEF OpenLocal, Coming, SyncStarts
        <4> QED BY <2>7, <3>2, <4>2, <4>4, <1>0, NoticedKept DEF OpenLocal
      <3>3. CASE local = None /\ ~(o.tries + 1 < MaxTries)
        <4>1. mishaps' = mishaps \cup {"failed"}
          BY <2>7, <3>3 DEF OpenLocal, Failure
        <4>2. Excused'
          BY <4>1 DEF Excused
        <4> QED BY <2>7, <3>3, <4>1, <4>2, NoticedKept DEF OpenLocal
      <3> QED BY <3>1, <3>2, <3>3
    <2>8. CASE DeleteRemote(w)
      <3> DEFINE n == [o EXCEPT !.at = "read"]
      <3>1. n \in Operations /\ Goes(w, n) /\ o.at = "delete"
        BY <2>1, <2>8 DEF Operations, DeleteRemote
      <3> HIDE DEF n
      <3>2. SyncStarts => SyncStarts'
        BY <3>1, StartsLemma
      <3>3. Coming => Coming'
        BY <2>8, <3>2 DEF DeleteRemote, Coming, SyncStarts
      <3> QED BY <2>8, <3>3, <1>0, NoticedKept DEF DeleteRemote
    <2>9. CASE ReadLocal(w)
      <3>1. o.at = "read" /\ UNCHANGED <<local, session, editor, saved, picked, watched,
                                         changed, pending, queue, mishaps>>
        BY <2>9 DEF ReadLocal
      <3>2. PICK n : Goes(w, n)
        BY <2>9 DEF ReadLocal, Ends
      <3>3. \A v \in Workers : v # w => ops'[v] = ops[v]
        BY <3>2 DEF Goes, Typed
      <3>4. SyncStarts => SyncStarts'
        BY <3>1, <3>3 DEF SyncStarts
      <3>5. Coming => Coming'
        BY <3>1, <3>4 DEF Coming, SyncStarts
      <3> QED BY <3>1, <3>5, <1>0, NoticedKept
    <2>10. CASE SendChunk(w)
      <3>1. o.at = "send" /\ UNCHANGED <<local, session, editor, saved, picked, watched,
                                         changed, pending, queue, mishaps>>
        BY <2>10 DEF SendChunk
      <3>2. PICK n : Goes(w, n)
        BY <2>10 DEF SendChunk
      <3>3. \A v \in Workers : v # w => ops'[v] = ops[v]
        BY <3>2 DEF Goes, Typed
      <3>4. SyncStarts => SyncStarts'
        BY <3>1, <3>3 DEF SyncStarts
      <3>5. Coming => Coming'
        BY <3>1, <3>4 DEF Coming, SyncStarts
      <3> QED BY <3>1, <3>5, <1>0, NoticedKept
    <2> QED BY <1>3, <2>2, <2>3, <2>4, <2>5, <2>6, <2>7, <2>8, <2>9, <2>10 DEF Step
  <1> QED BY <1>1, <1>2, <1>3

\* Every step preserves the invariant.
LEMMA NoticeInvStep == NoticeInv /\ [Next]_vars => NoticeInv'
  <1> SUFFICES ASSUME NoticeInv, [Next]_vars PROVE NoticeInv'
    OBVIOUS
  <1>1. "open" \in Kinds /\ "fetch" \in Kinds
    BY DEF Kinds
  <1>2. CASE UNCHANGED vars
    BY <1>2 DEF vars, NoticeInv, Typed, HasFile, Noticed, Excused, FileFollowed,
                NoEarlySave, SavesAreNoticed, Coming
  <1>3. CASE \E w \in Workers : Take(w) \/ Fail(w) \/ Step(w)
    BY <1>3, TypedInside, NoticedInside DEF NoticeInv
  <1>4. CASE Next /\ ~(\E w \in Workers : Take(w) \/ Fail(w) \/ Step(w))
    BY <1>1, <1>4, TypedOutside, NoticedOutside DEF Next, NoticeInv
  <1> QED BY <1>2, <1>3, <1>4 DEF Next

\* A thread never reads, writes or keeps a file that is not there, and all state has
\* its type.
THEOREM FilesAreThere == Spec => [](Typed /\ HasFile)
  <1>1. Init => NoticeInv
    BY TypedInit, NoticedInit DEF NoticeInv
  <1>2. NoticeInv => Typed /\ HasFile
    BY DEF NoticeInv
  <1> QED BY <1>1, <1>2, NoticeInvStep, PTL DEF Spec

\* However many threads, saves, downloads and retries there are: a save is followed by
\* a sync that has still to look at the file, unless it was missed or a sync has failed.
THEOREM SavesNoticed == Spec => []SavesAreNoticed
  <1>1. Init => NoticeInv
    BY TypedInit, NoticedInit DEF NoticeInv
  <1>2. NoticeInv => SavesAreNoticed
    BY DEF NoticeInv, Noticed, SavesAreNoticed
  <1> QED BY <1>1, <1>2, NoticeInvStep, PTL DEF Spec

-----------------------------------------------------------------------------
(* Saves reach the server. *)

\* A prefix is a content.
LEMMA PrefixLemma ==
  ASSUME NEW n \in Nat, NEW v \in Nat
  PROVE  Prefix(n, v) \in Contents /\ Prefix(n, v) # None /\ Len(Prefix(n, v)) = n
  <1>1. Prefix(n, v) \in Seq(Nat \cup {None}) /\ Len(Prefix(n, v)) = n
    BY DEF Prefix
  <1> QED BY <1>1, NoneLemma DEF Contents

\* The next chunk of a transfer makes a longer prefix.
LEMMA PutPrefixLemma ==
  ASSUME NEW n \in Nat \ {0}, NEW v \in Nat, NEW file,
         file = Prefix(n - 1, v) \/ (n = 1 /\ file = None)
  PROVE  Put(file, n, v) = Prefix(n, v)
  <1> DEFINE old == IF file = None THEN <<>> ELSE file
  <1>1. n - 1 \in Nat
    OBVIOUS
  <1>2. old \in Seq(Nat \cup {None}) /\ Len(old) = n - 1
    <2>1. CASE file = Prefix(n - 1, v)
      BY <2>1, <1>1, PrefixLemma DEF Contents
    <2>2. CASE n = 1 /\ file = None
      BY <2>2
    <2> QED BY <2>1, <2>2
  <1>3. \A k \in 1..(n - 1) : old[k] = v
    <2>1. CASE file = Prefix(n - 1, v)
      <3>1. old = Prefix(n - 1, v)
        BY <2>1, <1>1, PrefixLemma
      <3> QED BY <3>1 DEF Prefix
    <2>2. CASE n = 1 /\ file = None
      BY <2>2
    <2> QED BY <2>1, <2>2
  <1> HIDE DEF old
  <1>4. [k \in 1..n |-> IF k = n THEN v ELSE IF k <= n - 1 THEN old[k] ELSE None]
          = [k \in 1..n |-> v]
    BY <1>3
  <1>5. Put(file, n, v)
          = [k \in 1..n |-> IF k = n THEN v ELSE IF k <= n - 1 THEN old[k] ELSE None]
    BY <1>2 DEF Put, old
  <1> QED BY <1>4, <1>5 DEF Prefix

\* The start is calm.
LEMMA CalmInit == Init => Calm
  BY DEF Init, Calm, Alone, BeforeSession, Registered, Arrived, AllWorking

\* Without mishaps the step before was without mishaps, and all the invariant says
\* of such states holds.
LEMMA CalmBefore ==
  ASSUME NoticeInv, mishaps = {}
  PROVE  FileFollowed /\ NoEarlySave /\ picked <= saved /\ picked \in Nat /\ saved \in Nat
  BY DEF NoticeInv, Noticed, Excused, Typed

\* A step of the user, the editor or the GUI thread without a mishap.
LEMMA CalmOutside ==
  ASSUME NoticeInv, Calm, mishaps = {}, mishaps' = {}
  PROVE  /\ \A kind \in {"open", "fetch"} : Activate(kind) => Calm'
         /\ SaveInPlace => Calm'
         /\ SaveByRename => Calm'
         /\ SaveRemoves => Calm'
         /\ SaveCreates => Calm'
         /\ ~Clear
         /\ Register => Calm'
         /\ Schedule => Calm'
         /\ Flush => Calm'
  <1>0. /\ Typed /\ FileFollowed /\ NoEarlySave /\ picked <= saved
        /\ picked \in Nat /\ saved \in Nat
    BY CalmBefore DEF NoticeInv
  <1>1. ASSUME NEW kind \in {"open", "fetch"}, Activate(kind) PROVE Calm'
    <2>1. UNCHANGED <<remote, local, session, pending, posted, ops, editor, saved, picked>>
      BY <1>1 DEF Activate
    <2>2. /\ queue' = Append(queue, kind) /\ queue \in Seq(Kinds) /\ kind # "sync"
          /\ kind \in Kinds
      BY <1>1, <1>0 DEF Activate, Typed, Kinds
    <2>3. BeforeSession'
      <3>1. \A i \in 1..Len(queue') : \/ i \in 1..Len(queue) /\ queue'[i] = queue[i]
                                      \/ queue'[i] = kind
        BY <2>2
      <3> QED BY <2>1, <2>2, <3>1 DEF Calm, BeforeSession
    <2> QED BY <2>1, <2>3 DEF Calm, Alone, Registered, Arrived, AllWorking, Working, Sending, Fetching, Source
  <1>2. ASSUME SaveInPlace PROVE Calm'
    <2>1. /\ session /\ local' = Whole(saved') /\ saved' # picked'
          /\ UNCHANGED <<remote, session, posted, ops, editor, picked>>
      BY <1>2, <1>0 DEF SaveInPlace, Early
    <2> QED BY <2>1 DEF Calm, Alone, BeforeSession, Registered, Arrived, AllWorking, Working, Sending, Fetching
  <1>3. ASSUME SaveByRename PROVE Calm'
    <2>1. /\ session /\ local' = Whole(saved') /\ saved' # picked' /\ local \in Contents
          /\ UNCHANGED <<remote, session, posted, editor, picked>>
          /\ ops' = [w \in Workers |-> Orphaned(ops[w])]
      BY <1>3, <1>0 DEF SaveByRename, Early, Typed
    <2>2. \A w \in Workers : ops[w] \in Operations \cup {None} /\ ops'[w] = Orphaned(ops[w])
      BY <2>1, <1>0 DEF Typed
    <2>3. AllWorking'
      <3> SUFFICES ASSUME NEW w \in Workers, ops'[w] # None PROVE Working(ops[w])'
        BY DEF AllWorking
      <3>1. ops[w] # None /\ ops'[w].kind = ops[w].kind /\ ops'[w].at = ops[w].at
            /\ ops'[w].next = ops[w].next /\ (ops[w].at = "start" => ops'[w].live = ops[w].live)
        BY <2>1, <2>2, OrphanedLemma
      <3>2. ops[w].kind = "sync" /\ Sending(ops[w])
        BY <3>1, <2>1 DEF Calm, AllWorking, Working, Fetching
      <3> QED BY <3>1, <3>2, <2>1 DEF Working, Sending
    <2>4. Alone'
      BY <2>1, <2>2, OrphanedLemma DEF Calm, Alone
    <2> QED BY <2>1, <2>3, <2>4 DEF Calm, BeforeSession, Registered, Arrived
  <1>4. ASSUME SaveRemoves PROVE Calm'
    <2>1. /\ local' = None /\ editor = "open" /\ editor' = "between" /\ local \in Contents
          /\ UNCHANGED <<remote, session, pending, posted, queue, saved, picked>>
          /\ ops' = [w \in Workers |-> Orphaned(ops[w])]
      BY <1>4, <1>0 DEF SaveRemoves, Typed
    <2>2. \A w \in Workers : ops[w] \in Operations \cup {None} /\ ops'[w] = Orphaned(ops[w])
      BY <2>1, <1>0 DEF Typed
    <2>3. \A w \in Workers :
            ops'[w] # None => /\ ops[w] # None /\ ops'[w].kind = ops[w].kind
                              /\ ops'[w].at = ops[w].at
      BY <2>1, <2>2, OrphanedLemma
    <2>4. session \/ posted > 0
      BY <2>1 DEF Calm, BeforeSession
    <2>5. AllWorking'
      <3> SUFFICES ASSUME NEW w \in Workers, ops'[w] # None PROVE Working(ops[w])'
        BY DEF AllWorking
      <3>0. posted \in Nat /\ ops[w] # None
        BY <1>0, <2>3 DEF Typed
      <3>1. ops[w].kind = "sync" /\ Sending(ops[w])
        BY <2>4, <3>0 DEF Calm, AllWorking, Working, Fetching
      <3>2. CASE ops[w].at = "start"
        <4>1. ops'[w] = ops[w]
          BY <2>1, <2>2, <3>0, <3>2, OrphanedLemma
        <4> QED BY <4>1, <3>1, <3>2, <2>1 DEF Working, Sending
      <3>3. CASE ops[w].at # "start"
        <4>1. ops[w].at \in {"delete", "read", "send"}
          BY <3>1, <3>3 DEF Sending
        <4>2. /\ ~ops'[w].live /\ ops'[w].seen = Source(ops[w])
              /\ ops'[w].kind = ops[w].kind /\ ops'[w].at = ops[w].at
              /\ ops'[w].next = ops[w].next /\ ops'[w].buffer = ops[w].buffer
          BY <2>1, <2>2, <3>0, <3>1, <4>1, OrphanedLemma
        <4>3. Source(ops[w])' = Source(ops[w])
          BY <4>2 DEF Source
        <4> QED BY <4>1, <4>2, <4>3, <3>1, <2>1 DEF Working, Sending
      <3> QED BY <3>2, <3>3
    <2>6. Alone' /\ BeforeSession'
      BY <2>1, <2>3 DEF Calm, Alone, BeforeSession
    <2>7. Arrived'
      <3>1. \A w \in Workers : ops[w] # None => ops'[w] # None /\ ops'[w].at = ops[w].at
        BY <2>1, <2>2, OrphanedLemma
      <3> QED BY <2>1, <3>1 DEF Calm, Arrived
    <2> QED BY <2>1, <2>5, <2>6, <2>7 DEF Calm, Registered
  <1>5. ASSUME SaveCreates PROVE Calm'
    <2>1. /\ session /\ local' = Whole(saved') /\ saved' # picked'
          /\ UNCHANGED <<remote, session, posted, ops, picked>>
      BY <1>5, <1>0 DEF SaveCreates, Early
    <2> QED BY <2>1 DEF Calm, Alone, BeforeSession, Registered, Arrived, AllWorking, Working, Sending, Fetching
  <1>6. ~Clear
    BY DEF Clear
  <1>7. ASSUME Register PROVE Calm'
    <2>1. /\ posted \in Nat /\ posted > 0 /\ posted' = posted - 1 /\ posted' \in Nat
          /\ UNCHANGED <<remote, local, pending, queue, ops, editor, saved, picked>>
      BY <1>7, <1>0 DEF Register, Typed
    <2>2. (session' = session /\ local = None) \/ (session' = TRUE /\ local # None)
      BY <1>7 DEF Register
    <2>3. \A w \in Workers : ops[w] # None => ops[w].kind = "sync" /\ Sending(ops[w])
      BY <2>1 DEF Calm, AllWorking, Working, Fetching
    <2>4. AllWorking'
      BY <2>1, <2>3 DEF AllWorking, Working, Sending, Source
    <2>5. Registered' /\ BeforeSession'
      BY <2>1, <2>2, <1>0, WholeLemma DEF Calm, Registered, BeforeSession
    <2>6. Arrived'
      <3>1. CASE session
        BY <2>1, <3>1 DEF Calm, Arrived
      <3>2. CASE ~session
        BY <2>1, <3>2, <1>0 DEF Calm, Arrived, BeforeSession, NoEarlySave
      <3> QED BY <3>1, <3>2
    <2> QED BY <2>1, <2>4, <2>5, <2>6 DEF Calm, Alone
  <1>8. ASSUME Schedule PROVE Calm'
    <2>1. /\ UNCHANGED <<remote, local, session, posted, queue, ops, editor, saved, picked>>
          /\ session \/ pending' = pending
      BY <1>8 DEF Schedule
    <2> QED BY <2>1 DEF Calm, Alone, BeforeSession, Registered, Arrived, AllWorking, Working, Sending,
                        Fetching, Source
  <1>9. ASSUME Flush PROVE Calm'
    <2>1. UNCHANGED <<remote, local, session, posted, ops, editor, saved, picked>> /\ pending
      BY <1>9 DEF Flush
    <2>2. session
      BY <2>1 DEF Calm, BeforeSession
    <2> QED BY <2>1, <2>2 DEF Calm, Alone, BeforeSession, Registered, Arrived, AllWorking, Working,
                              Sending, Fetching, Source
  <1> QED BY <1>1, <1>2, <1>3, <1>4, <1>5, <1>6, <1>7, <1>8, <1>9

\* With one operation at a time, a step of it concerns only itself.
LEMMA CalmGoes ==
  ASSUME Typed, Alone, NEW w \in Workers, ops[w] # None,
         NEW n \in Operations \cup {None}, Goes(w, n)
  PROVE  /\ ops'[w] = n
         /\ \A v \in Workers : v # w => ops[v] = None /\ ops'[v] = None
         /\ Alone'
  <1>1. /\ ops'[w] = n
        /\ \A v \in Workers : v # w => ops'[v] = ops[v]
    BY GoesLemma DEF Typed
  <1> QED BY <1>1 DEF Alone

\* A step of a thread of the pool without a mishap.
LEMMA CalmInside ==
  ASSUME NoticeInv, Calm, mishaps = {}, mishaps' = {}, NEW w \in Workers
  PROVE  /\ Take(w) => Calm'
         /\ ~Fail(w)
         /\ Step(w) => Calm'
  <1> DEFINE o == ops[w]
  <1>0. /\ Typed /\ HasFile /\ FileFollowed /\ NoEarlySave /\ picked <= saved
        /\ picked \in Nat /\ saved \in Nat
    BY CalmBefore DEF NoticeInv
  <1>1. ASSUME Take(w) PROVE Calm'
    <2>1. /\ queue \in Seq(Kinds) /\ queue # <<>> /\ Head(queue) \in Kinds
          /\ queue' = Tail(queue) /\ posted \in Nat
          /\ \A v \in Workers : ops[v] = None
          /\ Head(queue) = "sync" \/ (~session /\ posted = 0)
          /\ Goes(w, Op(Head(queue)))
          /\ UNCHANGED <<remote, local, session, pending, posted, editor, saved, picked>>
      BY <1>1, <1>0 DEF Take, Typed, Goes
    <2>2. /\ ops'[w] = Op(Head(queue))
          /\ \A v \in Workers : v # w => ops'[v] = None
      BY <2>1, <1>0, OpLemma, GoesLemma DEF Typed
    <2>3. Alone'
      BY <2>2 DEF Alone
    <2>4. BeforeSession'
      <3> SUFFICES ASSUME ~session PROVE BeforeSession'
        BY <2>1 DEF BeforeSession
      <3>1. \A i \in 1..Len(queue) : queue[i] # "sync"
        BY DEF Calm, BeforeSession
      <3>2. Head(queue) # "sync"
        BY <2>1, <3>1
      <3>3. \A i \in 1..Len(queue') : queue'[i] # "sync"
        BY <2>1, <3>1
      <3>4. \A v \in Workers : ops'[v] # None => ops'[v].kind # "sync"
        BY <2>1, <2>2, <3>2, OpLemma
      <3> QED BY <2>1, <3>3, <3>4 DEF Calm, BeforeSession
    <2>5. AllWorking'
      <3> SUFFICES Working(ops[w])'
        BY <2>2 DEF AllWorking
      <3>1. /\ ops'[w].kind = Head(queue) /\ ops'[w].at = "start" /\ ops'[w].next = 1
            /\ ops'[w].live
        BY <2>1, <2>2, OpLemma
      <3> QED BY <2>1, <3>1 DEF Working, Sending, Fetching
    <2> QED BY <2>1, <2>3, <2>4, <2>5 DEF Calm, Registered, Arrived
  <1>2. ~Fail(w)
    BY DEF Fail, Failure
  <1>3. ASSUME Step(w) PROVE Calm'
    <2>1. o \in Operations /\ o # None /\ Working(o) /\ Alone
      BY <1>3, <1>0 DEF Step, Typed, Calm, AllWorking
    <2>2. ASSUME o.kind # "sync", NEW n \in Operations \cup {None}, Goes(w, n),
                 UNCHANGED <<remote, session, pending, queue, saved, picked>>,
                 \/ n # None /\ n.kind = o.kind /\ Fetching(ops[w])' /\ editor' = editor
                 \/ n = None /\ (editor' = "open" => editor = "open" \/ posted' > 0)
                    /\ (posted' > 0 => local' = Whole(saved))
          PROVE  Calm'
      <3>1. /\ ops'[w] = n /\ Alone'
            /\ \A v \in Workers : v # w => ops[v] = None /\ ops'[v] = None
        BY <2>1, <2>2, <1>0, CalmGoes
      <3>2. ~session /\ posted = 0
        BY <2>1, <2>2 DEF Working, Fetching
      <3>3. AllWorking'
        BY <2>2, <3>1 DEF AllWorking, Working
      <3>4. BeforeSession'
        <4>1. remote = Whole(0) /\ ~pending /\ (\A i \in 1..Len(queue) : queue[i] # "sync")
              /\ editor # "open"
          BY <3>2 DEF Calm, BeforeSession
        <4>2. \A v \in Workers : ops'[v] # None => ops'[v].kind # "sync"
          BY <2>2, <3>1
        <4> QED BY <2>2, <4>1, <4>2 DEF BeforeSession
      <3>5. Registered' /\ Arrived'
        BY <2>2, <3>2 DEF Registered, Arrived, Fetching
      <3> QED BY <3>1, <3>3, <3>4, <3>5 DEF Calm
    <2>3. ASSUME o.kind = "sync", NEW n \in Operations \cup {None}, Goes(w, n),
                 UNCHANGED <<local, session, pending, posted, queue, editor, saved>>,
                 \/ n # None /\ n.kind = "sync" /\ Sending(ops[w])'
                    /\ (n.at = "start" => o.at = "start" /\ UNCHANGED <<remote, picked>>)
                 \/ n = None /\ (saved' = picked' => remote' = Whole(saved))
          PROVE  Calm'
      <3>1. /\ ops'[w] = n /\ Alone'
            /\ \A v \in Workers : v # w => ops[v] = None /\ ops'[v] = None
        BY <2>1, <2>3, <1>0, CalmGoes
      <3>2. session
        BY <2>1, <2>3 DEF Calm, BeforeSession
      <3>3. AllWorking'
        BY <2>3, <3>1 DEF AllWorking, Working
      <3>4. BeforeSession' /\ Registered'
        BY <2>3, <3>2 DEF Calm, BeforeSession, Registered
      <3>5. Arrived'
        BY <2>3, <3>1, <3>2 DEF Calm, Arrived
      <3> QED BY <3>1, <3>3, <3>4, <3>5 DEF Calm
    <2>4. /\ o.at \in {"truncate", "write"} => o.kind # "sync"
          /\ o.at \in {"delete", "read", "send"} => o.kind = "sync"
      BY <2>1 DEF Working, Sending, Fetching
    <2>5. CASE OpenRemote(w)
      <3> DEFINE n == [o EXCEPT !.at = "truncate", !.seen = remote]
      <3>1. o.kind # "sync" /\ o.at = "start"
        BY <2>5 DEF OpenRemote
      <3>2. ~session /\ posted = 0 /\ o.live /\ o.next = 1
        BY <2>1, <3>1 DEF Working, Fetching
      <3>3. remote = Whole(0) /\ remote # None /\ remote \in Contents
        BY <3>2, WholeLemma DEF Calm, BeforeSession
      <3>4. /\ n \in Operations /\ n.kind = o.kind /\ n.at = "truncate" /\ n.live
            /\ n.next = 1 /\ n.seen = remote
        BY <2>1, <3>2, <3>3 DEF Operations
      <3>5. Goes(w, n)
        BY <2>5, <3>3 DEF OpenRemote
      <3>6. UNCHANGED <<remote, session, posted, pending, queue, saved, picked, editor>>
        BY <2>5 DEF OpenRemote
      <3> HIDE DEF n
      <3>0. ops'[w] = n
        BY <3>4, <3>5, <2>1, <1>0, CalmGoes
      <3>7. Fetching(ops[w])'
        BY <3>0, <3>2, <3>3, <3>4, <3>6 DEF Fetching
      <3> QED BY <2>2, <3>1, <3>4, <3>5, <3>6, <3>7, NoneLemma
    <2>6. CASE Truncate(w)
      <3> DEFINE n == [o EXCEPT !.at = "write"]
      <3>1. o.kind # "sync" /\ o.at = "truncate"
        BY <2>4, <2>6 DEF Truncate
      <3>2. ~session /\ posted = 0 /\ o.live /\ o.next = 1 /\ o.seen = Whole(0)
        BY <2>1, <3>1 DEF Working, Fetching
      <3>3. /\ n \in Operations /\ n.kind = o.kind /\ n.at = "write" /\ n.live
            /\ n.next = 1 /\ n.seen = Whole(0)
        BY <2>1, <3>2 DEF Operations
      <3>4. /\ Goes(w, n) /\ local' = <<>>
            /\ UNCHANGED <<remote, session, posted, pending, queue, saved, picked, editor>>
        BY <2>6 DEF Truncate
      <3> HIDE DEF n
      <3>0. ops'[w] = n
        BY <3>3, <3>4, <2>1, <1>0, CalmGoes
      <3>5. Prefix(0, 0) = <<>>
        BY DEF Prefix
      <3>6. Fetching(ops[w])'
        BY <3>0, <3>2, <3>3, <3>4, <3>5, SizesAssumption DEF Fetching
      <3> QED BY <2>2, <3>1, <3>3, <3>4, <3>6, NoneLemma
    <2>7. CASE WriteLocal(w)
      <3> DEFINE n == [o EXCEPT !.next = @ + 1]
      <3>1. o.kind # "sync" /\ o.at = "write" /\ o.next <= Len(o.seen)
        BY <2>4, <2>7 DEF WriteLocal
      <3>2. ~session /\ posted = 0 /\ o.live /\ o.seen = Whole(0)
            /\ local = Prefix(o.next - 1, 0)
        BY <2>1, <3>1 DEF Working, Fetching
      <3>3. o.next \in Nat \ {0} /\ o.next <= Size
        BY <2>1, <3>1, <3>2, WholeLemma DEF Operations
      <3>4. /\ n \in Operations /\ n.kind = o.kind /\ n.at = "write" /\ n.live
            /\ n.next = o.next + 1 /\ n.seen = Whole(0)
        BY <2>1, <3>1, <3>2, <3>3 DEF Operations
      <3>5. /\ Goes(w, n) /\ local' = Put(local, o.next, o.seen[o.next])
            /\ UNCHANGED <<remote, session, posted, pending, queue, saved, picked, editor>>
        BY <2>7, <3>2 DEF WriteLocal
      <3>6. o.seen[o.next] = 0
        BY <3>2, <3>3, SizesAssumption DEF Whole
      <3>7. local' = Prefix(o.next, 0)
        BY <3>2, <3>3, <3>5, <3>6, PutPrefixLemma
      <3> HIDE DEF n
      <3>0. ops'[w] = n
        BY <3>4, <3>5, <2>1, <1>0, CalmGoes
      <3>8. Fetching(ops[w])'
        BY <3>0, <3>2, <3>3, <3>4, <3>5, <3>7, SizesAssumption DEF Fetching
      <3> QED BY <2>2, <3>1, <3>4, <3>5, <3>8, NoneLemma
    <2>8. CASE Downloaded(w)
      <3>1. /\ o.kind = "open" /\ o.at = "write" /\ o.next > Len(o.seen) /\ Goes(w, None)
            /\ UNCHANGED <<remote, local, session, pending, queue, saved, picked>>
            /\ mishaps' = mishaps => posted' = posted + 1
        BY <2>8 DEF Downloaded, Ends, Failure
      <3>2. posted' = 1
        BY <2>1, <3>1 DEF Working, Fetching
      <3>3. local = Whole(saved)
        <4>1. o.next \in Nat /\ o.next = Size + 1 /\ local = Prefix(Size, 0) /\ saved = 0
          BY <2>1, <3>1, <1>0, WholeLemma, SizesAssumption
             DEF Working, Fetching, Operations, NoEarlySave
        <4> QED BY <4>1 DEF Prefix, Whole
      <3> QED BY <2>2, <3>1, <3>2, <3>3
    <2>9. CASE Fetched(w)
      <3>1. /\ o.kind = "fetch" /\ Goes(w, None)
            /\ UNCHANGED <<remote, local, session, posted, pending, queue, saved, picked, editor>>
        BY <2>9 DEF Fetched, Ends
      <3>2. posted = 0
        BY <2>1, <3>1 DEF Working, Fetching
      <3> QED BY <2>2, <3>1, <3>2
    <2>10. CASE OpenLocal(w)
      <3>1. /\ o.kind = "sync" /\ o.at = "start" /\ o.live /\ o.next = 1 /\ session
            /\ UNCHANGED <<remote, local, session, posted, pending, queue, saved, editor>>
        BY <2>1, <2>10 DEF OpenLocal, Working, Sending, Calm, BeforeSession
      <3>2. CASE local # None
        <4> DEFINE n == [o EXCEPT !.at = "delete"]
        <4>1. n \in Operations /\ n.at = "delete" /\ n.live /\ n.next = 1 /\ n.kind = "sync"
          BY <2>1, <3>1 DEF Operations
        <4>2. Goes(w, n) /\ picked' = saved
          BY <2>10, <3>2 DEF OpenLocal
        <4>3. local = Whole(saved)
          BY <3>1, <3>2 DEF Calm, Registered
        <4> HIDE DEF n
        <4>0. ops'[w] = n
          BY <4>1, <4>2, <2>1, <1>0, CalmGoes
        <4>4. Sending(ops[w])'
          BY <4>0, <3>1, <4>1, <4>2, <4>3 DEF Sending, Source
        <4> QED BY <2>3, <3>1, <4>1, <4>2, <4>4, NoneLemma
      <3>3. CASE local = None
        <4> DEFINE m == [o EXCEPT !.tries = @ + 1]
        <4>1. m \in Operations /\ m.at = "start" /\ m.live /\ m.next = 1 /\ m.kind = "sync"
          BY <2>1, <3>1 DEF Operations
        <4>2. Goes(w, m) /\ picked' = picked
          BY <2>10, <3>3 DEF OpenLocal, Failure
        <4> HIDE DEF m
        <4>0. ops'[w] = m
          BY <4>1, <4>2, <2>1, <1>0, CalmGoes
        <4>3. Sending(ops[w])'
          BY <4>0, <4>1 DEF Sending
        <4> QED BY <2>3, <3>1, <4>1, <4>2, <4>3, NoneLemma
      <3> QED BY <3>2, <3>3
    <2>11. CASE DeleteRemote(w)
      <3> DEFINE n == [o EXCEPT !.at = "read"]
      <3>1. /\ o.at = "delete" /\ Goes(w, n) /\ remote' = None /\ o.kind = "sync"
            /\ UNCHANGED <<local, session, posted, pending, queue, saved, picked, editor>>
        BY <2>4, <2>11 DEF DeleteRemote
      <3>2. Sending(o) /\ o.next = 1
        BY <2>1, <3>1 DEF Working, Sending
      <3>3. /\ n \in Operations /\ n.at = "read" /\ n.kind = "sync" /\ n.next = 1
            /\ n.live = o.live /\ n.seen = o.seen
        BY <2>1, <3>1, <3>2 DEF Operations
      <3> HIDE DEF n
      <3>0. ops'[w] = n
        BY <3>1, <3>3, <2>1, <1>0, CalmGoes
      <3>4. Source(ops[w])' = Source(o)
        BY <3>0, <3>1, <3>3 DEF Source
      <3>5. Sending(ops[w])'
        BY <3>0, <3>1, <3>2, <3>3, <3>4, SizesAssumption DEF Sending
      <3> QED BY <2>3, <3>1, <3>3, <3>5, NoneLemma
    <2>12. CASE ReadLocal(w)
      <3>1. /\ o.at = "read" /\ o.kind = "sync" /\ Sending(o) /\ o.next \in Nat \ {0}
            /\ UNCHANGED <<remote, local, session, posted, pending, queue, saved, picked, editor>>
        BY <2>1, <2>4, <2>12 DEF ReadLocal, Working, Operations
      <3>2. CASE o.next <= Len(Source(o))
        <4> DEFINE n == [o EXCEPT !.at = "send", !.buffer = Source(o)[o.next]]
        <4>1. Goes(w, n)
          BY <2>12, <3>2 DEF ReadLocal
        <4>2. o.live => local # None
          BY <2>1, <3>1, <1>0 DEF HasFile
        <4>3. Source(o) \in Seq(Nat \cup {None})
          BY <2>1, <4>2, <1>0 DEF Source, Operations, Contents, Typed
        <4>4. Source(o)[o.next] \in Nat \cup {None}
          BY <3>1, <3>2, <4>3
        <4>5. n \in Operations
          BY <2>1, <4>4 DEF Operations
        <4>6. /\ n.at = "send" /\ n.kind = "sync" /\ n.next = o.next /\ n.live = o.live
              /\ n.seen = o.seen /\ n.buffer = Source(o)[o.next]
          BY <2>1, <3>1 DEF Operations
        <4> HIDE DEF n
        <4>0. ops'[w] = n
          BY <4>1, <4>5, <2>1, <1>0, CalmGoes
        <4>7. Source(ops[w])' = Source(o)
          BY <4>0, <3>1, <4>6 DEF Source
        <4>8. saved = picked => o.next <= Size /\ Source(o)[o.next] = saved
          <5> SUFFICES ASSUME saved = picked PROVE o.next <= Size /\ Source(o)[o.next] = saved
            OBVIOUS
          <5>1. Source(o) = Whole(saved) /\ Len(Whole(saved)) = Size
            BY <3>1, <1>0, WholeLemma DEF Sending
          <5>2. o.next \in 1..Size
            BY <5>1, <3>1, <3>2, SizesAssumption
          <5> QED BY <5>1, <5>2 DEF Whole
        <4>9. Sending(ops[w])'
          BY <4>0, <3>1, <4>6, <4>7, <4>8 DEF Sending
        <4> QED BY <2>3, <3>1, <4>1, <4>5, <4>6, <4>9, NoneLemma
      <3>3. CASE ~(o.next <= Len(Source(o)))
        <4>1. Goes(w, None)
          BY <2>12, <3>3 DEF ReadLocal, Ends
        <4>2. saved = picked => remote = Whole(saved)
          <5> SUFFICES ASSUME saved = picked PROVE remote = Whole(saved)
            OBVIOUS
          <5>1. /\ Source(o) = Whole(saved) /\ o.next <= Size + 1
                /\ remote = IF o.next = 1 THEN None ELSE Prefix(o.next - 1, saved)
            BY <3>1 DEF Sending
          <5>2. Len(Whole(saved)) = Size
            BY <1>0, WholeLemma
          <5>3. o.next = Size + 1 /\ o.next # 1 /\ o.next - 1 = Size
            BY <5>1, <5>2, <3>1, <3>3, SizesAssumption
          <5> QED BY <5>1, <5>3 DEF Prefix, Whole
        <4> QED BY <2>3, <3>1, <4>1, <4>2
      <3> QED BY <3>2, <3>3
    <2>13. CASE SendChunk(w)
      <3> DEFINE n == [o EXCEPT !.at = "read", !.next = @ + 1, !.buffer = None]
      <3>1. /\ o.at = "send" /\ o.kind = "sync" /\ Sending(o) /\ o.next \in Nat \ {0}
            /\ UNCHANGED <<local, session, posted, pending, queue, saved, picked, editor>>
            /\ remote' = Put(remote, o.next, o.buffer) /\ Goes(w, n)
        BY <2>1, <2>4, <2>13 DEF SendChunk, Working, Operations
      <3>2. o.next + 1 \in Nat \ {0} /\ None \in Nat \cup {None}
        BY <3>1
      <3>3. n \in Operations
        BY <2>1, <3>2 DEF Operations
      <3>4. /\ n.at = "read" /\ n.kind = "sync" /\ n.next = o.next + 1
            /\ n.live = o.live /\ n.seen = o.seen
        BY <2>1, <3>1 DEF Operations
      <3> HIDE DEF n
      <3>0. ops'[w] = n
        BY <3>1, <3>3, <2>1, <1>0, CalmGoes
      <3>5. Source(ops[w])' = Source(o)
        BY <3>0, <3>1, <3>4 DEF Source
      <3>6. saved = picked => remote' = Prefix(o.next, saved)
        <4> SUFFICES ASSUME saved = picked PROVE remote' = Prefix(o.next, saved)
          OBVIOUS
        <4>1. /\ o.buffer = saved
              /\ remote = Prefix(o.next - 1, saved) \/ (o.next = 1 /\ remote = None)
          BY <3>1 DEF Sending
        <4> QED BY <3>1, <4>1, <1>0, PutPrefixLemma
      <3>7. Sending(ops[w])'
        <4> SUFFICES ASSUME saved = picked
                     PROVE  /\ Source(ops[w])' = Whole(saved)
                            /\ n.next <= Size + 1
                            /\ remote' = IF n.next = 1 THEN None
                                         ELSE Prefix(n.next - 1, saved)
          BY <3>0, <3>1, <3>4 DEF Sending
        <4>1. Source(o) = Whole(saved) /\ o.next <= Size
          BY <3>1 DEF Sending
        <4>2. n.next # 1 /\ n.next - 1 = o.next /\ n.next <= Size + 1
          BY <3>1, <3>4, <4>1, SizesAssumption
        <4> QED BY <3>5, <3>6, <4>1, <4>2
      <3> QED BY <2>3, <3>1, <3>3, <3>4, <3>7, NoneLemma
    <2> QED BY <1>3, <2>5, <2>6, <2>7, <2>8, <2>9, <2>10, <2>11, <2>12, <2>13 DEF Step
  <1> QED BY <1>1, <1>2, <1>3

\* Every step preserves the invariant.
LEMMA ArrivalInvStep == ArrivalInv /\ [Next]_vars => ArrivalInv'
  <1> SUFFICES ASSUME ArrivalInv, [Next]_vars PROVE ArrivalInv'
    OBVIOUS
  <1>1. NoticeInv /\ NoticeInv'
    BY NoticeInvStep DEF ArrivalInv
  <1> SUFFICES ASSUME mishaps' = {} PROVE Calm'
    BY <1>1 DEF ArrivalInv
  <1>2. CASE UNCHANGED vars
    <2>1. Calm
      BY <1>2 DEF vars, ArrivalInv
    <2> QED BY <1>2, <2>1 DEF vars, Calm, Alone, BeforeSession, Registered, Arrived,
               AllWorking, Working, Sending, Fetching, Source
  <1>3. CASE \E w \in Workers : Take(w) \/ Fail(w) \/ Step(w)
    <2>1. PICK w \in Workers : Take(w) \/ Fail(w) \/ Step(w)
      BY <1>3
    <2>2. mishaps = {}
      <3>1. Take(w) => mishaps = {}
        BY DEF Take
      <3>2. Fail(w) => mishaps = {}
        BY DEF Fail
      <3>3. Step(w) => mishaps = {}
        BY DEF Step, OpenRemote, Truncate, WriteLocal, Downloaded, Fetched, OpenLocal,
               DeleteRemote, ReadLocal, SendChunk
      <3> QED BY <2>1, <3>1, <3>2, <3>3
    <2> QED BY <1>1, <2>1, <2>2, CalmInside DEF ArrivalInv
  <1>4. CASE Next /\ ~(\E w \in Workers : Take(w) \/ Fail(w) \/ Step(w))
    <2>1. mishaps = {}
      BY <1>4 DEF Next, Activate, SaveInPlace, SaveByRename, SaveRemoves, SaveCreates,
                  Clear, Register, Schedule, Flush
    <2> QED BY <1>1, <1>4, <2>1, CalmOutside DEF Next, ArrivalInv
  <1> QED BY <1>2, <1>3, <1>4 DEF Next

\* However saves, uploads, signals and timers interleave, when all is still the server
\* has the last save, whole, unless a mishap is recorded.
THEOREM SavesArrive == Spec => []SavesReachTheServer
  <1>1. Init => ArrivalInv
    BY TypedInit, NoticedInit, CalmInit DEF ArrivalInv, NoticeInv
  <1>2. ArrivalInv => SavesReachTheServer
    <2> SUFFICES ASSUME ArrivalInv, Quiet, session, mishaps = {}
                 PROVE  remote = Whole(saved) /\ local = remote
      BY DEF SavesReachTheServer
    <2>1. Calm /\ ~Excused /\ SavesAreNoticed /\ picked <= saved /\ picked \in Nat /\ saved \in Nat
      BY DEF ArrivalInv, NoticeInv, Noticed, Excused, Typed
    <2>2. ~Coming
      BY DEF Quiet, Coming
    <2>3. saved = picked
      BY <2>1, <2>2 DEF Quiet, SavesAreNoticed
    <2>4. remote = Whole(saved)
      BY <2>1, <2>3 DEF Quiet, Calm, Arrived
    <2>5. local = Whole(saved)
      BY <2>1 DEF Quiet, Calm, Registered
    <2> QED BY <2>4, <2>5
  <1> QED BY <1>1, <1>2, ArrivalInvStep, PTL DEF Spec

=============================================================================
