-------------------------- MODULE SmbTransferProofs --------------------------
(***************************************************************************)
(* The invariants of SmbTransfer for any number of transfers and files, of  *)
(* any size.  What a transfer leaves behind depends on what the loop it was *)
(* in has done: TransferInv says for each place in the code what the source *)
(* and the target of an undisturbed transfer hold there.                    *)
(***************************************************************************)
EXTENDS SmbTransfer, SequenceTheorems, TLAPS

\* Places in the code.
Places == {"idle", "open", "local", "read", "source", "stat", "delete", "server", "chunk",
           "sweep", "touch", "fetch", "write", "rename", "remove"} \cup Over

\* Transfers under way or over.
Jobs == [kind : {"none", "download", "upload", "copy", "move"}, source : File \cup {None},
         target : File \cup {None}, same : BOOLEAN, at : Places, offset : Nat, size : Nat,
         buffer : Content, wanted : Content \cup {None}, old : Content \cup {None}]

\* The types of the state.
TypeOK ==
  /\ remote \in [File -> Content \cup {None}]
  /\ local \in [Worker -> Content \cup {None}]
  /\ job \in [Worker -> Jobs]
  /\ disturbed \in [Worker -> BOOLEAN]

\* Where each kind of transfer may be, and how far, whatever others do to its files.
DownloadShape(j, content) ==
  /\ j.source \in File /\ j.target = None
  /\ j.at \in {"open", "local", "read"} \cup Over
  /\ j.at \in {"open", "local"} => j.offset = 0
  /\ j.at = "read" => content \in Content /\ j.offset < j.size

\* An upload; its local file is what it wants to send.
UploadShape(j, content) ==
  /\ j.source = None /\ j.target \in File
  /\ j.at \in {"stat", "delete", "write"} \cup Over
  /\ j.wanted \in Content /\ content = j.wanted /\ Len(j.wanted) = j.size
  /\ j.at \in {"stat", "delete"} => j.offset = 0
  /\ j.at = "write" => j.offset < j.size

\* A copy or a move at the server, by any of its ways.
CopyShape(j) ==
  /\ j.source \in File /\ j.target \in File
  /\ j.at \notin {"idle", "open", "local", "read"}
  /\ j.at \in {"rename", "remove"} => j.kind = "move"
  /\ j.at \in {"source", "stat", "delete", "server", "sweep"} => j.offset = 0
  /\ j.at = "chunk" => j.offset <= j.size
  /\ j.at = "touch" => j.size = 0
  /\ j.at \in {"fetch", "write"} => j.offset < j.size
  /\ j.at = "write" => j.offset + Len(j.buffer) <= j.size

\* That, by the kind of the transfer.
Shape(j, content) ==
  CASE j.kind = "none" -> j = NoJob
    [] j.kind = "download" -> DownloadShape(j, content)
    [] j.kind = "upload" -> UploadShape(j, content)
    [] OTHER -> CopyShape(j)

\* That, of every transfer.
Shapes == \A w \in Worker : Shape(job[w], local[w])

\* The first n blocks.
Upto(c, n) == SubSeq(c, 1, n)

\* The target has the blocks before the offset, and perhaps more of a copy that was
\* given up.
Partial(j, target) ==
  \/ j.offset = 0 /\ target = None
  \/ \E k \in j.offset..Len(j.wanted) : target = Upto(j.wanted, k)

\* The local file has the blocks of the source before the offset.
DownloadInv(j, content, source) ==
  /\ source = j.wanted
  /\ j.at \in {"local", "read"} => j.wanted \in Content /\ j.size = Len(j.wanted)
  /\ j.at = "read" => content = Upto(j.wanted, j.offset)
  /\ j.at = "done" => content = j.wanted

\* What an interrupted transfer may leave.
Left(j, target) ==
  \/ target \in {j.old, None}
  \/ j.wanted \in Content /\ \E k \in 0..Len(j.wanted) : target = Upto(j.wanted, k)

\* The target is the old file until it is deleted, then holds the blocks before
\* the offset.
UploadInv(j, target) ==
  /\ j.at \in {"stat", "delete"} => target = j.old
  /\ j.at = "write" => Partial(j, target)
  /\ j.at = "done" => j.size = 0 \/ target = j.wanted
  /\ Left(j, target)

\* The same for a copy or move, whose source is there until the target is
\* complete.
CopyInv(j, source, target) ==
  /\ j.at \notin Over => source = j.wanted
  /\ j.at \in {"stat", "delete", "server", "chunk", "sweep", "touch", "fetch", "write"} =>
       j.wanted \in Content /\ j.size = Len(j.wanted)
  /\ j.at \in {"source", "stat", "delete", "rename"} => target = j.old
  /\ j.at = "server" => target = None
  /\ j.at = "chunk" => target = Upto(j.wanted, j.offset)
  /\ j.at \in {"sweep", "touch", "fetch", "write"} => Partial(j, target)
  /\ j.at = "write" => /\ j.buffer # <<>>
                       /\ j.buffer = Blocks(j.wanted, j.offset, Len(j.buffer))
  /\ j.at \in {"remove", "done"} => target = j.wanted
  /\ source = j.wanted \/ (j.kind = "move" /\ target = j.wanted)
  /\ Left(j, target)

\* A transfer that nobody has disturbed, with these files.
Faithful(j, content, files) ==
  CASE j.kind = "none" -> TRUE
    [] j.kind = "download" -> DownloadInv(j, content, files[j.source])
    [] j.kind = "upload" -> UploadInv(j, files[j.target])
    [] OTHER -> j.source # j.target => CopyInv(j, files[j.source], files[j.target])

\* The inductive invariant.
TransferInv ==
  /\ TypeOK /\ Shapes
  /\ \A w \in Worker : disturbed[w] \/ Faithful(job[w], local[w], remote)

-----------------------------------------------------------------------------
(* Contents. *)

\* Blocks of a content, past an offset.
LEMMA BlocksLemma ==
  ASSUME NEW c \in Content, NEW o \in Nat, NEW n \in Nat, o + n <= Len(c)
  PROVE  /\ Blocks(c, o, n) \in Content /\ Len(Blocks(c, o, n)) = n
         /\ \A i \in 1..n : Blocks(c, o, n)[i] = c[o + i]
  <1> DEFINE first == o + 1
             last == o + n
  <1>1. first \in Int /\ last \in Int /\ last - first + 1 = n /\ (n # 0 <=> first <= last)
    OBVIOUS
  <1>2. \A i \in first..last : c[i] \in Block
    BY LenProperties DEF Content
  <1>3. \A i \in 1..n : first + i - 1 = o + i
    OBVIOUS
  <1> HIDE DEF first, last
  <1>4. /\ SubSeq(c, first, last) \in Seq(Block)
        /\ Len(SubSeq(c, first, last)) = IF first <= last THEN last - first + 1 ELSE 0
        /\ \A i \in 1..(last - first + 1) : SubSeq(c, first, last)[i] = c[first + i - 1]
    BY <1>1, <1>2, SubSeqProperties
  <1>5. Blocks(c, o, n) = SubSeq(c, first, last)
    BY DEF Blocks, first, last
  <1> QED BY <1>1, <1>3, <1>4, <1>5 DEF Content

\* The first blocks of a content.
LEMMA UptoLemma ==
  ASSUME NEW c \in Content, NEW n \in 0..Len(c)
  PROVE  /\ Upto(c, n) \in Content /\ Len(Upto(c, n)) = n
         /\ \A i \in 1..n : Upto(c, n)[i] = c[i]
  <1>1. n \in Nat /\ Len(c) \in Nat
    BY DEF Content
  <1>2. Upto(c, n) = Blocks(c, 0, n)
    BY <1>1 DEF Upto, Blocks
  <1> QED BY <1>1, <1>2, BlocksLemma

\* All blocks of a content, and none.
LEMMA UptoAll ==
  ASSUME NEW c \in Content
  PROVE  Upto(c, Len(c)) = c /\ Upto(c, 0) = <<>> /\ Len(c) \in Nat
  BY SubSeqFull, SubSeqEmpty DEF Content, Upto

\* Contents with the same blocks are the same.
LEMMA SameContent ==
  ASSUME NEW s \in Content, NEW t \in Content, Len(s) = Len(t),
         \A i \in 1..Len(s) : s[i] = t[i]
  PROVE  s = t
  BY SeqEqual DEF Content

\* A download appends the blocks it reads.
LEMMA AppendBlocks ==
  ASSUME NEW c \in Content, NEW o \in Nat, NEW n \in Nat, o + n <= Len(c)
  PROVE  Upto(c, o) \o Blocks(c, o, n) = Upto(c, o + n)
  <1>1. o \in 0..Len(c) /\ o + n \in 0..Len(c) /\ Len(c) \in Nat
    BY DEF Content
  <1>2. PICK s, b, t : s = Upto(c, o) /\ b = Blocks(c, o, n) /\ t = Upto(c, o + n)
    OBVIOUS
  <1>3. /\ s \in Content /\ Len(s) = o /\ \A i \in 1..o : s[i] = c[i]
        /\ b \in Content /\ Len(b) = n /\ \A i \in 1..n : b[i] = c[o + i]
        /\ t \in Content /\ Len(t) = o + n /\ \A i \in 1..(o + n) : t[i] = c[i]
    BY <1>1, <1>2, UptoLemma, BlocksLemma
  <1>4. /\ s \o b \in Content /\ Len(s \o b) = o + n
        /\ \A i \in 1..(o + n) : (s \o b)[i] = IF i <= o THEN s[i] ELSE b[i - o]
    <2>1. s \in Seq(Block) /\ b \in Seq(Block)
      BY <1>3 DEF Content
    <2>2. /\ s \o b \in Seq(Block) /\ Len(s \o b) = Len(s) + Len(b)
          /\ \A i \in 1..(Len(s) + Len(b)) :
               (s \o b)[i] = IF i <= Len(s) THEN s[i] ELSE b[i - Len(s)]
      BY <2>1, ConcatProperties
    <2> QED BY <1>3, <2>2 DEF Content
  <1>5. \A i \in 1..(o + n) : (s \o b)[i] = t[i]
    <2>0. PICK u : u = s \o b
      OBVIOUS
    <2> SUFFICES ASSUME NEW i \in 1..(o + n) PROVE u[i] = t[i]
      BY <2>0
    <2>1. t[i] = c[i] /\ u[i] = IF i <= o THEN s[i] ELSE b[i - o]
      BY <1>3, <1>4, <2>0
    <2>2. CASE i <= o
      <3>1. s[i] = c[i]
        BY <1>3, <2>2
      <3> QED BY <2>1, <2>2, <3>1
    <2>3. CASE i > o
      <3>1. PICK k : k = i - o
        OBVIOUS
      <3>2. k \in 1..n /\ i = o + k /\ ~(i <= o)
        BY <2>3, <3>1
      <3>3. b[k] = c[o + k]
        BY <1>3, <3>2
      <3>4. u[i] = b[k]
        BY <2>1, <3>1, <3>2
      <3> QED BY <2>1, <3>2, <3>3, <3>4
    <2> QED BY <2>2, <2>3
  <1> QED BY <1>2, <1>3, <1>4, <1>5, SameContent

\* Writing within or at the end of a content, or beyond it.
LEMMA OverlayLemma ==
  ASSUME NEW c \in Content, NEW o \in Nat, NEW d \in Content
  PROVE  /\ Overlay(c, o, d) \in Content
         /\ Len(Overlay(c, o, d)) = IF Len(c) > o + Len(d) THEN Len(c) ELSE o + Len(d)
         /\ \A i \in 1..Len(Overlay(c, o, d)) :
              Overlay(c, o, d)[i] = IF i \in (o + 1)..(o + Len(d)) THEN d[i - o]
                                    ELSE IF i <= Len(c) THEN c[i] ELSE Hole
  <1> DEFINE end == o + Len(d)
             length == IF Len(c) > end THEN Len(c) ELSE end
             e(i) == IF i \in (o + 1)..(o + Len(d)) THEN d[i - o]
                     ELSE IF i <= Len(c) THEN c[i] ELSE Hole
  <1>1. Len(c) \in Nat /\ Len(d) \in Nat /\ end \in Nat /\ length \in Nat
    BY DEF Content
  <1>2. Hole \in Block
    BY DEF Hole, Block
  <1>3. \A i \in 1..length : e(i) \in Block
    <2> SUFFICES ASSUME NEW i \in 1..length PROVE e(i) \in Block
      OBVIOUS
    <2>1. CASE i \in (o + 1)..(o + Len(d))
      <3>1. i - o \in 1..Len(d)
        BY <1>1, <2>1
      <3>2. d[i - o] \in Block
        BY <3>1, ElementOfSeq DEF Content
      <3> QED BY <2>1, <3>2
    <2>2. CASE i \notin (o + 1)..(o + Len(d)) /\ i <= Len(c)
      <3>1. i \in 1..Len(c)
        BY <1>1, <2>2
      <3>2. c[i] \in Block
        BY <3>1, ElementOfSeq DEF Content
      <3> QED BY <2>2, <3>2
    <2>3. CASE i \notin (o + 1)..(o + Len(d)) /\ ~(i <= Len(c))
      BY <1>2, <2>3
    <2> QED BY <2>1, <2>2, <2>3
  <1>4. Overlay(c, o, d) = [i \in 1..length |-> e(i)]
    BY DEF Overlay
  <1> HIDE DEF e, length
  <1>5. [i \in 1..length |-> e(i)] \in Seq(Block) /\ Len([i \in 1..length |-> e(i)]) = length
    BY <1>1, <1>3
  <1> QED BY <1>4, <1>5 DEF Content, e, length

\* Writing the blocks of c at their place into a beginning of c that reaches there.
LEMMA OverlayUpto ==
  ASSUME NEW c \in Content, NEW k \in 0..Len(c), NEW o \in 0..k, NEW n \in Nat,
         o + n <= Len(c)
  PROVE  Overlay(Upto(c, k), o, Blocks(c, o, n)) = Upto(c, IF k > o + n THEN k ELSE o + n)
  <1>1. Len(c) \in Nat /\ k \in Nat /\ o \in Nat
    BY DEF Content
  <1>2. PICK m : m = IF k > o + n THEN k ELSE o + n
    OBVIOUS
  <1>3. m \in 0..Len(c) /\ m \in Nat /\ k <= m
    BY <1>1, <1>2
  <1>4. PICK s, b, t, v : /\ s = Upto(c, k) /\ b = Blocks(c, o, n) /\ t = Upto(c, m)
                          /\ v = Overlay(s, o, b)
    OBVIOUS
  <1>5. /\ s \in Content /\ Len(s) = k /\ \A i \in 1..k : s[i] = c[i]
        /\ b \in Content /\ Len(b) = n /\ \A i \in 1..n : b[i] = c[o + i]
        /\ t \in Content /\ Len(t) = m /\ \A i \in 1..m : t[i] = c[i]
    BY <1>1, <1>3, <1>4, UptoLemma, BlocksLemma
  <1>6. /\ v \in Content /\ Len(v) = m
        /\ \A i \in 1..m : v[i] = IF i \in (o + 1)..(o + n) THEN b[i - o]
                                  ELSE IF i <= k THEN s[i] ELSE Hole
    <2>1. /\ v \in Content
          /\ Len(v) = IF Len(s) > o + Len(b) THEN Len(s) ELSE o + Len(b)
          /\ \A i \in 1..Len(v) : v[i] = IF i \in (o + 1)..(o + Len(b)) THEN b[i - o]
                                        ELSE IF i <= Len(s) THEN s[i] ELSE Hole
      <3>1. s \in Content /\ b \in Content /\ o \in Nat /\ v = Overlay(s, o, b)
        BY <1>1, <1>4, <1>5
      <3> QED BY ONLY <3>1, OverlayLemma
    <2>2. Len(v) = m
      BY <1>2, <1>5, <2>1
    <2> QED BY <1>5, <2>1, <2>2
  <1>7. \A i \in 1..m : v[i] = t[i]
    <2> SUFFICES ASSUME NEW i \in 1..m PROVE v[i] = t[i]
      OBVIOUS
    <2>1. CASE i \in (o + 1)..(o + n)
      <3>1. i - o \in 1..n /\ o + (i - o) = i
        BY <1>1, <1>3, <2>1
      <3> QED BY <1>5, <1>6, <2>1, <3>1
    <2>2. CASE i \notin (o + 1)..(o + n)
      <3>1. i \in 1..k
        BY <1>1, <1>2, <1>3, <2>2
      <3> QED BY <1>5, <1>6, <2>2, <3>1
    <2> QED BY <2>1, <2>2
  <1>8. v = t
    BY <1>5, <1>6, <1>7, SameContent
  <1> QED BY <1>2, <1>4, <1>8

-----------------------------------------------------------------------------
(* One step of a transfer. *)

\* What a transfer is about never changes.
SameTask(j, k) ==
  /\ k.kind = j.kind /\ k.source = j.source /\ k.target = j.target
  /\ k.wanted = j.wanted /\ k.old = j.old

\* The others notice what transfer w does to their files.
Others(w) ==
  /\ disturbed' \in [Worker -> BOOLEAN] /\ (disturbed[w] => disturbed'[w])
  /\ \A v \in Worker \ {w} :
       \/ disturbed'[v]
       \/ /\ ~disturbed[v]
          /\ \A f \in File : f \in {job[v].source, job[v].target} => remote'[f] = remote[f]

\* What the invariant says of one transfer.
LEMMA JobFacts ==
  ASSUME TransferInv, NEW w \in Worker, NEW j, j = job[w]
  PROVE  /\ j \in Jobs /\ Shape(j, local[w])
         /\ disturbed[w] \/ Faithful(j, local[w], remote)
         /\ local[w] \in Content \cup {None} /\ local = [local EXCEPT ![w] = local[w]]
         /\ j.kind \in {"none", "download", "upload", "copy", "move"}
         /\ j.offset \in Nat /\ j.size \in Nat /\ j.buffer \in Content /\ j.same \in BOOLEAN
         /\ j.wanted \in Content \cup {None} /\ j.old \in Content \cup {None}
         /\ \A f \in File : remote[f] \in Content \cup {None}
  BY DEF TransferInv, TypeOK, Shapes, Jobs

\* A transfer that the step leaves alone.
LEMMA KeptFaithful ==
  ASSUME NEW j, NEW content, NEW files, NEW new, Shape(j, content),
         Faithful(j, content, files),
         \A f \in File : f \in {j.source, j.target} => new[f] = files[f],
         j.kind \in {"none", "download", "upload", "copy", "move"}
  PROVE  Faithful(j, content, new)
  <1>1. CASE j.kind = "none"
    BY <1>1 DEF Faithful
  <1>2. CASE j.kind = "download"
    <2>1. new[j.source] = files[j.source]
      BY <1>2 DEF Shape, DownloadShape
    <2> QED BY <1>2, <2>1 DEF Faithful
  <1>3. CASE j.kind = "upload"
    <2>1. new[j.target] = files[j.target]
      BY <1>3 DEF Shape, UploadShape
    <2> QED BY <1>3, <2>1 DEF Faithful
  <1>4. CASE j.kind \in {"copy", "move"}
    <2>1. new[j.source] = files[j.source] /\ new[j.target] = files[j.target]
      BY <1>4 DEF Shape, CopyShape
    <2> QED BY <1>4, <2>1 DEF Faithful
  <1> QED BY <1>1, <1>2, <1>3, <1>4

\* A step of one transfer preserves the invariant if it does for that transfer,
\* and disturbs the others it concerns.
LEMMA FrameLemma ==
  ASSUME TransferInv, NEW w \in Worker, NEW k \in Jobs, job' = [job EXCEPT ![w] = k],
         NEW content \in Content \cup {None}, local' = [local EXCEPT ![w] = content],
         remote' \in [File -> Content \cup {None}], Others(w),
         Shape(k, content), disturbed'[w] \/ Faithful(k, content, remote')
  PROVE  TransferInv'
  <1>1. TypeOK'
    BY DEF TransferInv, TypeOK, Others
  <1>2. /\ job'[w] = k /\ local'[w] = content
        /\ \A v \in Worker \ {w} : job'[v] = job[v] /\ local'[v] = local[v]
    BY DEF TransferInv, TypeOK
  <1>3. Shapes'
    <2> SUFFICES ASSUME NEW v \in Worker PROVE Shape(job'[v], local'[v])
      BY DEF Shapes, Shape, DownloadShape, UploadShape, CopyShape
    <2>1. CASE v = w
      BY <1>2, <2>1
    <2>2. CASE v # w
      BY <1>2, <2>2 DEF TransferInv, Shapes
    <2> QED BY <2>1, <2>2
  <1>4. ASSUME NEW v \in Worker PROVE disturbed'[v] \/ Faithful(job'[v], local'[v], remote')
    <2>1. CASE v = w
      BY <1>2, <2>1
    <2>2. CASE v # w
      <3>1. PICK j : j = job[v] /\ j = job'[v]
        BY <1>2, <2>2
      <3>2. /\ Shape(j, local[v]) /\ (disturbed[v] \/ Faithful(j, local[v], remote))
            /\ j.kind \in {"none", "download", "upload", "copy", "move"}
        BY <3>1, JobFacts
      <3>3. CASE disturbed'[v]
        BY <3>3
      <3>4. CASE ~disturbed'[v]
        <4>1. /\ ~disturbed[v]
              /\ \A f \in File : f \in {j.source, j.target} => remote'[f] = remote[f]
          BY <2>2, <3>1, <3>4 DEF Others
        <4>2. Faithful(j, local[v], remote')
          BY <3>2, <4>1, KeptFaithful
        <4> QED BY <1>2, <2>2, <3>1, <4>2
      <3> QED BY <3>3, <3>4
    <2> QED BY <2>1, <2>2
  <1> QED BY <1>1, <1>3, <1>4 DEF TransferInv, Faithful

\* The reply is lost: what was true of the transfer that went on is true of the one
\* that fails.
LEMMA LostLemma ==
  ASSUME NEW j \in Jobs, NEW k, SameTask(j, k), j.kind # "none", NEW content, NEW files,
         Shape(j, content), NEW l, l = [j EXCEPT !.at = "failed"]
  PROVE  /\ l \in Jobs /\ Shape(l, content)
         /\ Faithful(k, content, files) => Faithful(l, content, files)
  <1>1. /\ l \in Jobs /\ l.at = "failed" /\ SameTask(j, l) /\ l.size = j.size
        /\ l.kind = k.kind /\ l.source = k.source /\ l.target = k.target
        /\ l.wanted = k.wanted /\ l.old = k.old
    BY DEF Jobs, Places, Over, SameTask
  <1>2. j.kind \in {"download", "upload", "copy", "move"}
    BY DEF Jobs
  <1>3. CASE j.kind = "download"
    BY <1>1, <1>3 DEF Shape, DownloadShape, Faithful, DownloadInv, SameTask, Over
  <1>4. CASE j.kind = "upload"
    BY <1>1, <1>4 DEF Shape, UploadShape, Faithful, UploadInv, Left, SameTask, Over
  <1>5. CASE j.kind \in {"copy", "move"}
    BY <1>1, <1>5 DEF Shape, CopyShape, Faithful, CopyInv, Left, SameTask, Over
  <1> QED BY <1>1, <1>2, <1>3, <1>4, <1>5

\* Transfer w goes on as k, or the reply that would have told it so is lost.
LEMMA StepLemma ==
  ASSUME TransferInv, NEW w \in Worker, NEW j, j = job[w], j.kind # "none",
         NEW k \in Jobs, SameTask(j, k), Continue(w, k) \/ Replied(w, k), UNCHANGED local,
         remote' \in [File -> Content \cup {None}], Others(w),
         Shape(k, local[w]), disturbed'[w] \/ Faithful(k, local[w], remote')
  PROVE  TransferInv'
  <1>1. PICK content : content = local[w]
    OBVIOUS
  <1>2. /\ content \in Content \cup {None} /\ local' = [local EXCEPT ![w] = content]
        /\ j \in Jobs /\ Shape(j, content)
    BY <1>1, JobFacts
  <1>3. CASE job' = [job EXCEPT ![w] = k]
    BY <1>1, <1>2, <1>3, FrameLemma
  <1>4. CASE job' = [job EXCEPT ![w].at = "failed"]
    <2>1. PICK l : l = [j EXCEPT !.at = "failed"]
      OBVIOUS
    <2>2. job' = [job EXCEPT ![w] = l]
      BY <1>4, <2>1
    <2>3. PICK files : files = remote'
      OBVIOUS
    <2>4. /\ l \in Jobs /\ Shape(l, content)
          /\ Faithful(k, content, files) => Faithful(l, content, files)
      BY <1>2, <2>1, LostLemma
    <2>5. disturbed'[w] \/ Faithful(k, content, files)
      BY <1>1, <2>3
    <2> QED BY <1>2, <2>2, <2>3, <2>4, <2>5, FrameLemma
  <1> QED BY <1>3, <1>4 DEF Continue, Replied

\* A step that changes no file.
LEMMA QuietLemma ==
  ASSUME TransferInv, NEW w \in Worker, UNCHANGED <<remote, disturbed>>
  PROVE  remote' \in [File -> Content \cup {None}] /\ Others(w) /\ disturbed'[w] = disturbed[w]
  BY DEF TransferInv, TypeOK, Others

\* A step that changes one file.
LEMMA PutLemma ==
  ASSUME TransferInv, NEW w \in Worker, NEW f \in File, NEW c \in Content \cup {None},
         Put(w, f, c)
  PROVE  /\ remote' \in [File -> Content \cup {None}] /\ Others(w)
         /\ disturbed'[w] = disturbed[w] /\ remote'[f] = c
         /\ \A g \in File : g # f => remote'[g] = remote[g]
  BY DEF TransferInv, TypeOK, Others, Put

\* No file and no content is taken for None.
LEMMA NoneLemma == None \notin File /\ None \notin Content
  BY NoneAssumption

\* Where a transfer is tells its kind.
LEMMA KindLemma ==
  ASSUME NEW j \in Jobs, NEW content, Shape(j, content)
  PROVE  /\ j.at \in {"open", "local", "read"} => j.kind = "download"
         /\ j.at \in {"stat", "delete", "write"} => j.kind \in {"upload", "copy", "move"}
         /\ j.at \in {"source", "server", "chunk", "sweep", "touch", "fetch", "rename",
                      "remove"} => j.kind \in {"copy", "move"}
         /\ j.kind = "none" => j.at = "idle"
         /\ j.kind = "download" => DownloadShape(j, content)
         /\ j.kind = "upload" => UploadShape(j, content)
         /\ j.kind \in {"copy", "move"} => CopyShape(j)
  BY DEF Jobs, Shape, DownloadShape, UploadShape, CopyShape, Over, NoJob

\* The transfer only goes to another place.
LEMMA AtLemma ==
  ASSUME NEW j \in Jobs, NEW at \in Places, NEW k, k = [j EXCEPT !.at = at]
  PROVE  /\ k \in Jobs /\ SameTask(j, k) /\ k.at = at /\ k.offset = j.offset
         /\ k.size = j.size /\ k.buffer = j.buffer /\ k.same = j.same
  BY DEF Jobs, SameTask

\* What a READ returns.
LEMMA ReadLemma ==
  ASSUME NEW j \in Jobs, NEW c \in Content, c = remote[j.source], NEW n \in Readable(j),
         j.offset <= j.size
  PROVE  /\ n \in Nat /\ j.offset + n <= j.size
         /\ Blocks(c, j.offset, n) \in Content /\ Len(Blocks(c, j.offset, n)) = n
         /\ j.offset < Len(c) => n # 0 /\ j.offset + n <= Len(c)
  <1>1. j.offset \in Nat /\ j.size \in Nat /\ Len(c) \in Nat /\ ChunkSize \in Nat \ {0}
    BY SizesAssumption DEF Jobs, Content
  <1>2. CASE Len(c) <= j.offset
    <2>1. n = 0
      BY <1>2 DEF Readable
    <2>2. Blocks(c, j.offset, 0) = <<>>
      <3>1. j.offset + 1 \in Int /\ j.offset + 0 \in Int /\ j.offset + 0 < j.offset + 1
        BY <1>1
      <3> QED BY <3>1, SubSeqEmpty DEF Blocks
    <2>3. <<>> \in Content /\ Len(<<>>) = 0
      BY EmptySeq DEF Content
    <2> QED BY <1>1, <1>2, <2>1, <2>2, <2>3
  <1>3. CASE j.offset < Len(c)
    <2>1. n \in 1..Least(Least(ChunkSize, j.size - j.offset), Len(c) - j.offset)
      BY <1>1, <1>3 DEF Readable
    <2>2. n \in Nat /\ n # 0 /\ j.offset + n <= j.size /\ j.offset + n <= Len(c)
      BY <1>1, <2>1, SMTT(30) DEF Least
    <2> QED BY <1>1, <2>2, BlocksLemma
  <1> QED BY <1>1, <1>2, <1>3

-----------------------------------------------------------------------------
(* downloadFile *)

\* OpenRemote preserves the invariant.
LEMMA OpenRemoteStep ==
  ASSUME TransferInv, NEW w \in Worker, OpenRemote(w)
  PROVE  TransferInv'
  <1>1. PICK j, k : j = job[w] /\ k = [j EXCEPT !.size = Len(remote[j.source]), !.at = "local"]
    OBVIOUS
  <1>2. /\ j.at = "open" /\ remote[j.source] # None /\ Continue(w, k)
        /\ UNCHANGED <<remote, local, disturbed>>
    BY <1>1 DEF OpenRemote
  <1>3. /\ j \in Jobs /\ j.kind = "download" /\ DownloadShape(j, local[w])
        /\ disturbed[w] \/ Faithful(j, local[w], remote)
        /\ remote[j.source] \in Content
    BY <1>1, <1>2, JobFacts, KindLemma DEF DownloadShape
  <1>4. Len(remote[j.source]) \in Nat
    BY <1>3 DEF Content
  <1>5. /\ k \in Jobs /\ SameTask(j, k) /\ k.at = "local" /\ k.offset = j.offset
        /\ k.size = Len(remote[j.source])
    BY <1>1, <1>3, <1>4 DEF Jobs, SameTask, Places
  <1>6. Shape(k, local[w])
    BY <1>2, <1>3, <1>5 DEF Shape, DownloadShape, SameTask
  <1>7. disturbed[w] \/ Faithful(k, local[w], remote)
    BY <1>3, <1>5 DEF Faithful, DownloadInv, SameTask
  <1> QED BY <1>1, <1>2, <1>3, <1>5, <1>6, <1>7, QuietLemma, StepLemma

\* OpenLocal preserves the invariant.
LEMMA OpenLocalStep ==
  ASSUME TransferInv, NEW w \in Worker, OpenLocal(w)
  PROVE  TransferInv'
  <1>1. PICK j, at : j = job[w] /\ at = IF j.size = 0 THEN "done" ELSE "read"
    OBVIOUS
  <1>2. PICK k : k = [j EXCEPT !.at = at]
    OBVIOUS
  <1>3. /\ j.at = "local" /\ job' = [job EXCEPT ![w] = k]
        /\ local' = [local EXCEPT ![w] = <<>>] /\ UNCHANGED <<remote, disturbed>>
    BY <1>1, <1>2 DEF OpenLocal, Continue
  <1>4. /\ j \in Jobs /\ j.kind = "download" /\ DownloadShape(j, local[w])
        /\ (disturbed[w] \/ Faithful(j, local[w], remote)) /\ j.size \in Nat
    BY <1>1, <1>3, JobFacts, KindLemma
  <1>5. /\ k \in Jobs /\ SameTask(j, k) /\ k.at = at /\ k.offset = 0 /\ k.size = j.size
    BY <1>1, <1>2, <1>3, <1>4, AtLemma DEF Places, Over, DownloadShape
  <1>6. <<>> \in Content
    BY EmptySeq DEF Content
  <1>7. Shape(k, <<>>)
    BY <1>1, <1>4, <1>5, <1>6 DEF Shape, DownloadShape, SameTask, Over
  <1>8. ASSUME ~disturbed[w] PROVE Faithful(k, <<>>, remote)
    <2>1. /\ remote[j.source] = j.wanted /\ j.wanted \in Content /\ j.size = Len(j.wanted)
      BY <1>3, <1>4, <1>8 DEF Faithful, DownloadInv
    <2>2. Upto(j.wanted, 0) = <<>> /\ (j.size = 0 => j.wanted = <<>>)
      BY <2>1, UptoAll, EmptySeq DEF Content
    <2> QED BY <1>1, <1>4, <1>5, <2>1, <2>2 DEF Faithful, DownloadInv, SameTask
  <1> QED BY <1>3, <1>5, <1>6, <1>7, <1>8, QuietLemma, FrameLemma

\* ReadFileChunk preserves the invariant.
LEMMA ReadFileChunkStep ==
  ASSUME TransferInv, NEW w \in Worker, ReadFileChunk(w)
  PROVE  TransferInv'
  <1>1. PICK j, c : j = job[w] /\ c = remote[j.source]
    OBVIOUS
  <1>2. PICK n \in Readable(j) :
          /\ local' = [local EXCEPT ![w] = @ \o Blocks(c, j.offset, n)]
          /\ Continue(w, [j EXCEPT !.offset = @ + n,
                                   !.at = IF n = 0 \/ j.offset + n = j.size
                                          THEN "done" ELSE "read"])
    BY <1>1 DEF ReadFileChunk
  <1>3. j.at = "read" /\ c # None /\ UNCHANGED <<remote, disturbed>>
    BY <1>1 DEF ReadFileChunk
  <1>4. /\ j \in Jobs /\ j.kind = "download" /\ DownloadShape(j, local[w]) /\ c \in Content
        /\ (disturbed[w] \/ Faithful(j, local[w], remote)) /\ j.size \in Nat /\ j.offset \in Nat
    BY <1>1, <1>3, JobFacts, KindLemma DEF DownloadShape
  <1>5. local[w] \in Content /\ j.offset < j.size
    BY <1>3, <1>4 DEF DownloadShape
  <1>6. /\ n \in Nat /\ j.offset + n <= j.size
        /\ Blocks(c, j.offset, n) \in Content /\ Len(Blocks(c, j.offset, n)) = n
        /\ j.offset < Len(c) => n # 0 /\ j.offset + n <= Len(c)
    BY <1>1, <1>4, <1>5, ReadLemma
  <1>7. PICK content, k, at : /\ content = local[w] \o Blocks(c, j.offset, n)
                              /\ at = IF n = 0 \/ j.offset + n = j.size THEN "done" ELSE "read"
                              /\ k = [j EXCEPT !.offset = @ + n, !.at = at]
    OBVIOUS
  <1>8. content \in Content
    BY <1>5, <1>6, <1>7, ConcatProperties DEF Content
  <1>9. local' = [local EXCEPT ![w] = content] /\ job' = [job EXCEPT ![w] = k]
    BY <1>2, <1>7 DEF Continue
  <1>10. /\ k \in Jobs /\ SameTask(j, k) /\ k.at = at /\ k.offset = j.offset + n
         /\ k.size = j.size
    <2>1. at \in Places /\ j.offset + n \in Nat
      BY <1>4, <1>6, <1>7 DEF Places, Over
    <2> QED BY <1>4, <1>7, <2>1 DEF Jobs, SameTask
  <1>11. Shape(k, content)
    BY <1>4, <1>5, <1>6, <1>7, <1>8, <1>10 DEF Shape, DownloadShape, SameTask, Over
  <1>12. ASSUME ~disturbed[w] PROVE Faithful(k, content, remote)
    <2>1. /\ c = j.wanted /\ j.wanted \in Content /\ j.size = Len(j.wanted)
          /\ local[w] = Upto(j.wanted, j.offset)
      BY <1>1, <1>3, <1>4, <1>12 DEF Faithful, DownloadInv
    <2>2. content = Upto(j.wanted, j.offset + n) /\ n # 0
      <3>1. n # 0 /\ j.offset + n <= Len(j.wanted)
        BY <1>5, <1>6, <2>1
      <3>2. Upto(j.wanted, j.offset) \o Blocks(j.wanted, j.offset, n)
              = Upto(j.wanted, j.offset + n)
        BY <1>4, <1>6, <2>1, <3>1, AppendBlocks
      <3> QED BY <1>7, <2>1, <3>1, <3>2
    <2>3. at = "done" => content = j.wanted
      BY <1>7, <2>1, <2>2, UptoAll
    <2>4. at \in {"done", "read"}
      BY <1>7
    <2> QED BY <1>1, <1>4, <1>10, <2>1, <2>2, <2>3, <2>4 DEF Faithful, DownloadInv, SameTask
  <1> QED BY <1>3, <1>8, <1>9, <1>10, <1>11, <1>12, QuietLemma, FrameLemma

-----------------------------------------------------------------------------
(* uploadFile, and copy up to the first block *)

\* StatSource preserves the invariant.
LEMMA StatSourceStep ==
  ASSUME TransferInv, NEW w \in Worker, StatSource(w)
  PROVE  TransferInv'
  <1>1. PICK j, k : j = job[w] /\ k = [j EXCEPT !.size = Len(remote[j.source]), !.at = "stat"]
    OBVIOUS
  <1>2. /\ j.at = "source" /\ remote[j.source] # None /\ Continue(w, k)
        /\ UNCHANGED <<remote, local, disturbed>>
    BY <1>1 DEF StatSource
  <1>3. /\ j \in Jobs /\ j.kind \in {"copy", "move"} /\ CopyShape(j)
        /\ disturbed[w] \/ Faithful(j, local[w], remote)
        /\ remote[j.source] \in Content
    BY <1>1, <1>2, JobFacts, KindLemma DEF CopyShape
  <1>4. Len(remote[j.source]) \in Nat
    BY <1>3 DEF Content
  <1>5. /\ k \in Jobs /\ SameTask(j, k) /\ k.at = "stat" /\ k.offset = j.offset
        /\ k.size = Len(remote[j.source])
    BY <1>1, <1>3, <1>4 DEF Jobs, SameTask, Places
  <1>6. Shape(k, local[w])
    BY <1>2, <1>3, <1>5 DEF Shape, CopyShape, SameTask
  <1>7. disturbed[w] \/ Faithful(k, local[w], remote)
    BY <1>2, <1>3, <1>5 DEF Faithful, CopyInv, Left, SameTask, Over
  <1> QED BY <1>1, <1>2, <1>3, <1>5, <1>6, <1>7, QuietLemma, StepLemma

\* The target is out of the way.
LEMMA ClearedLemma ==
  ASSUME NEW j \in Jobs, NEW content, Shape(j, content), j.at \in {"stat", "delete"},
         NEW k, k = Cleared(j), NEW files, NEW new,
         new[j.target] = None,
         j.kind # "upload" /\ j.source # j.target => new[j.source] = files[j.source]
  PROVE  /\ k \in Jobs /\ SameTask(j, k) /\ Shape(k, content)
         /\ Faithful(j, content, files) => Faithful(k, content, new)
  <1>1. PICK at : at = IF j.kind = "upload" THEN (IF j.size = 0 THEN "done" ELSE "write")
                       ELSE IF j.same THEN "server"
                       ELSE IF j.size = 0 THEN "touch" ELSE "fetch"
    OBVIOUS
  <1>2. at \in Places /\ k = [j EXCEPT !.at = at]
    BY <1>1 DEF Places, Over, Cleared
  <1>3. k \in Jobs /\ SameTask(j, k) /\ k.at = at /\ k.offset = j.offset /\ k.size = j.size
    BY <1>2, AtLemma
  <1>4. j.kind \in {"upload", "copy", "move"} /\ j.size \in Nat
    BY KindLemma DEF Jobs
  <1>5. CASE j.kind = "upload"
    <2>1. UploadShape(j, content)
      BY <1>5, KindLemma
    <2>2. at = IF j.size = 0 THEN "done" ELSE "write"
      BY <1>1, <1>5
    <2>3. Shape(k, content)
      BY <1>3, <1>4, <1>5, <2>1, <2>2 DEF Shape, UploadShape, SameTask, Over
    <2>4. UploadInv(k, None)
      BY <1>3, <2>1, <2>2 DEF UploadInv, UploadShape, Partial, Left
    <2> QED BY <1>3, <1>5, <2>3, <2>4 DEF Faithful, SameTask
  <1>6. CASE j.kind \in {"copy", "move"}
    <2>1. CopyShape(j) /\ j.offset = 0
      BY <1>6, KindLemma DEF CopyShape
    <2>2. at = IF j.same THEN "server" ELSE IF j.size = 0 THEN "touch" ELSE "fetch"
      BY <1>1, <1>6
    <2>3. Shape(k, content)
      BY <1>3, <1>4, <1>6, <2>1, <2>2 DEF Shape, CopyShape, SameTask, Over
    <2>4. ASSUME Faithful(j, content, files), j.source # j.target
          PROVE  CopyInv(k, new[j.source], None)
      <3>1. /\ files[j.source] = j.wanted /\ j.wanted \in Content /\ j.size = Len(j.wanted)
        BY <1>6, <2>4 DEF Faithful, CopyInv, Over
      <3>2. new[j.source] = j.wanted
        BY <1>6, <2>4, <3>1
      <3> QED BY <1>3, <2>1, <2>2, <3>1, <3>2 DEF CopyInv, Partial, Left, SameTask, Over
    <2> QED BY <1>3, <1>6, <2>3, <2>4 DEF Faithful, SameTask
  <1> QED BY <1>3, <1>4, <1>5, <1>6

\* StatTarget preserves the invariant.
LEMMA StatTargetStep ==
  ASSUME TransferInv, NEW w \in Worker, StatTarget(w)
  PROVE  TransferInv'
  <1>1. PICK j, content : j = job[w] /\ content = local[w]
    OBVIOUS
  <1>2. j.at = "stat" /\ UNCHANGED <<remote, local, disturbed>>
    BY <1>1 DEF StatTarget
  <1>3. /\ j \in Jobs /\ j.kind \in {"upload", "copy", "move"} /\ Shape(j, content)
        /\ disturbed[w] \/ Faithful(j, content, remote)
    BY <1>1, <1>2, JobFacts, KindLemma
  <1>4. CASE remote[j.target] = None
    <2>1. PICK k : k = Cleared(j)
      OBVIOUS
    <2>2. Continue(w, k)
      BY <1>1, <1>4, <2>1 DEF StatTarget
    <2>3. /\ k \in Jobs /\ SameTask(j, k) /\ Shape(k, content)
          /\ Faithful(j, content, remote) => Faithful(k, content, remote)
      BY <1>2, <1>3, <1>4, <2>1, ClearedLemma
    <2> QED BY <1>1, <1>2, <1>3, <2>2, <2>3, QuietLemma, StepLemma
  <1>5. CASE remote[j.target] # None
    <2>1. PICK k : k = [j EXCEPT !.at = "delete"]
      OBVIOUS
    <2>2. Continue(w, k)
      BY <1>1, <1>5, <2>1 DEF StatTarget
    <2>3. /\ k \in Jobs /\ SameTask(j, k) /\ k.at = "delete" /\ k.offset = j.offset
          /\ k.size = j.size
      BY <1>3, <2>1, AtLemma DEF Places
    <2>4. Shape(k, content)
      BY <1>2, <1>3, <2>3 DEF Shape, UploadShape, CopyShape, SameTask
    <2>5. disturbed[w] \/ Faithful(k, content, remote)
      BY <1>2, <1>3, <2>3 DEF Faithful, UploadInv, CopyInv, Left, SameTask, Over
    <2> QED BY <1>1, <1>2, <1>3, <2>2, <2>3, <2>4, <2>5, QuietLemma, StepLemma
  <1> QED BY <1>4, <1>5

\* DeleteTarget preserves the invariant.
LEMMA DeleteTargetStep ==
  ASSUME TransferInv, NEW w \in Worker, DeleteTarget(w)
  PROVE  TransferInv'
  <1>1. PICK j, content, k : j = job[w] /\ content = local[w] /\ k = Cleared(j)
    OBVIOUS
  <1>2. /\ j.at = "delete" /\ UNCHANGED local /\ Put(w, j.target, None) /\ Replied(w, k)
    BY <1>1 DEF DeleteTarget
  <1>3. /\ j \in Jobs /\ j.kind \in {"upload", "copy", "move"} /\ Shape(j, content)
        /\ disturbed[w] \/ Faithful(j, content, remote)
    BY <1>1, <1>2, JobFacts, KindLemma
  <1>4. j.target \in File /\ (j.kind # "upload" => j.source \in File)
    BY <1>3, KindLemma DEF UploadShape, CopyShape
  <1>5. /\ remote' \in [File -> Content \cup {None}] /\ Others(w)
        /\ disturbed'[w] = disturbed[w] /\ remote'[j.target] = None
        /\ \A g \in File : g # j.target => remote'[g] = remote[g]
    BY <1>2, <1>4, PutLemma
  <1>6. PICK new : new = remote'
    OBVIOUS
  <1>7. /\ k \in Jobs /\ SameTask(j, k) /\ Shape(k, content)
        /\ Faithful(j, content, remote) => Faithful(k, content, new)
    BY <1>1, <1>2, <1>3, <1>4, <1>5, <1>6, ClearedLemma
  <1> QED BY <1>1, <1>2, <1>3, <1>5, <1>6, <1>7, StepLemma

-----------------------------------------------------------------------------
(* copy *)

\* The copy has succeeded.
LEMMA CopiedLemma ==
  ASSUME NEW j \in Jobs, NEW content, Shape(j, content), j.kind \in {"copy", "move"},
         NEW k, k = Copied(j), NEW files
  PROVE  /\ k \in Jobs /\ SameTask(j, k) /\ Shape(k, content) /\ CopyShape(k)
         /\ (j.source # j.target => /\ files[j.source] = j.wanted
                                    /\ files[j.target] = j.wanted /\ j.wanted \in Content)
            => Faithful(k, content, files)
  <1>1. PICK at : at = IF j.kind = "move" THEN "remove" ELSE "done"
    OBVIOUS
  <1>2. at \in Places /\ k = [j EXCEPT !.at = at]
    BY <1>1 DEF Places, Over, Copied
  <1>3. k \in Jobs /\ SameTask(j, k) /\ k.at = at /\ k.offset = j.offset /\ k.size = j.size
    BY <1>2, AtLemma
  <1>4. CopyShape(j)
    BY KindLemma
  <1>5. Shape(k, content) /\ CopyShape(k)
    BY <1>1, <1>3, <1>4 DEF Shape, CopyShape, SameTask, Over
  <1>6. ASSUME j.source # j.target, files[j.source] = j.wanted, files[j.target] = j.wanted,
               j.wanted \in Content
        PROVE  CopyInv(k, files[k.source], files[k.target])
    <2>1. Left(k, files[k.target])
      BY <1>3, <1>6, UptoAll DEF Left, SameTask
    <2> QED BY <1>1, <1>3, <1>6, <2>1 DEF CopyInv, SameTask, Over
  <1> QED BY <1>3, <1>5, <1>6 DEF Faithful, SameTask

\* What is known of a copy.
LEMMA CopyFacts ==
  ASSUME TransferInv, NEW w \in Worker, NEW j, j = job[w],
         j.at \in {"source", "server", "chunk", "sweep", "touch", "fetch", "rename", "remove"}
         \/ (j.at = "write" /\ j.kind # "upload")
  PROVE  /\ j \in Jobs /\ j.kind \in {"copy", "move"} /\ CopyShape(j) /\ Shape(j, local[w])
         /\ j.source \in File /\ j.target \in File /\ j.offset \in Nat /\ j.size \in Nat
         /\ \A f \in File : remote[f] \in Content \cup {None}
         /\ ~disturbed[w] /\ j.source # j.target =>
              CopyInv(j, remote[j.source], remote[j.target])
  <1>1. /\ j \in Jobs /\ Shape(j, local[w]) /\ (disturbed[w] \/ Faithful(j, local[w], remote))
        /\ j.offset \in Nat /\ j.size \in Nat
        /\ \A f \in File : remote[f] \in Content \cup {None}
    BY JobFacts
  <1>2. j.kind \in {"copy", "move"} /\ CopyShape(j)
    BY <1>1, KindLemma
  <1> QED BY <1>1, <1>2 DEF CopyShape, Faithful

\* A step of a copy, from what is true of it when source and target differ.
LEMMA CopyStep ==
  ASSUME TransferInv, NEW w \in Worker, NEW j, j = job[w], j.kind \in {"copy", "move"},
         NEW k \in Jobs, SameTask(j, k), Continue(w, k) \/ Replied(w, k), UNCHANGED local,
         remote' \in [File -> Content \cup {None}], Others(w), CopyShape(k),
         ~disturbed'[w] /\ j.source # j.target => CopyInv(k, remote'[j.source], remote'[j.target])
  PROVE  TransferInv'
  <1>1. Shape(k, local[w])
    BY DEF Shape, SameTask
  <1>2. disturbed'[w] \/ Faithful(k, local[w], remote')
    BY DEF Faithful, SameTask
  <1> QED BY <1>1, <1>2, StepLemma

\* ServerOpen preserves the invariant.
LEMMA ServerOpenStep ==
  ASSUME TransferInv, NEW w \in Worker, ServerOpen(w)
  PROVE  TransferInv'
  <1>1. PICK j, k : j = job[w] /\ k = [j EXCEPT !.at = "chunk"]
    OBVIOUS
  <1>2. /\ j.at = "server" /\ UNCHANGED local /\ Put(w, j.target, <<>>) /\ Continue(w, k)
    BY <1>1 DEF ServerOpen
  <1>3. /\ j \in Jobs /\ j.kind \in {"copy", "move"} /\ CopyShape(j)
        /\ j.source \in File /\ j.target \in File /\ j.offset = 0 /\ j.size \in Nat
        /\ ~disturbed[w] /\ j.source # j.target =>
              CopyInv(j, remote[j.source], remote[j.target])
    BY <1>1, <1>2, CopyFacts DEF CopyShape
  <1>4. <<>> \in Content
    BY EmptySeq DEF Content
  <1>5. /\ remote' \in [File -> Content \cup {None}] /\ Others(w)
        /\ disturbed'[w] = disturbed[w] /\ remote'[j.target] = <<>>
        /\ \A g \in File : g # j.target => remote'[g] = remote[g]
    BY <1>2, <1>3, <1>4, PutLemma
  <1>6. k \in Jobs /\ SameTask(j, k) /\ k.at = "chunk" /\ k.offset = 0 /\ k.size = j.size
    BY <1>1, <1>3, AtLemma DEF Places
  <1>7. CopyShape(k)
    BY <1>3, <1>6 DEF CopyShape, SameTask
  <1>8. ASSUME ~disturbed[w], j.source # j.target
        PROVE  CopyInv(k, remote[j.source], <<>>)
    <2>1. /\ remote[j.source] = j.wanted /\ j.wanted \in Content /\ j.size = Len(j.wanted)
      BY <1>2, <1>3, <1>8 DEF CopyInv, Over
    <2>2. Upto(j.wanted, 0) = <<>> /\ 0 \in 0..Len(j.wanted)
      BY <2>1, UptoAll
    <2> QED BY <1>6, <2>1, <2>2 DEF CopyInv, Left, SameTask, Over
  <1> QED BY <1>1, <1>2, <1>3, <1>5, <1>6, <1>7, <1>8, CopyStep

\* ServerChunk preserves the invariant.
LEMMA ServerChunkStep ==
  ASSUME TransferInv, NEW w \in Worker, ServerChunk(w)
  PROVE  TransferInv'
  <1>1. PICK j, c, t : j = job[w] /\ c = remote[j.source] /\ t = remote[j.target]
    OBVIOUS
  <1>2. PICK n \in Readable(j) \ {0} :
          /\ Put(w, j.target, Overlay(t, j.offset, Blocks(c, j.offset, n)))
          /\ Continue(w, [j EXCEPT !.offset = @ + n])
    BY <1>1 DEF ServerChunk
  <1>3. /\ j.at = "chunk" /\ j.offset < j.size /\ c # None /\ t # None /\ UNCHANGED local
    BY <1>1 DEF ServerChunk
  <1>4. /\ j \in Jobs /\ j.kind \in {"copy", "move"} /\ CopyShape(j)
        /\ j.source \in File /\ j.target \in File /\ j.offset \in Nat /\ j.size \in Nat
        /\ c \in Content /\ t \in Content
        /\ ~disturbed[w] /\ j.source # j.target => CopyInv(j, c, t)
    BY <1>1, <1>3, CopyFacts
  <1>5. /\ n \in Nat /\ n # 0 /\ j.offset + n <= j.size
        /\ Blocks(c, j.offset, n) \in Content /\ Len(Blocks(c, j.offset, n)) = n
        /\ j.offset < Len(c) => j.offset + n <= Len(c)
    BY <1>1, <1>3, <1>4, ReadLemma
  <1>6. PICK new, k : /\ new = Overlay(t, j.offset, Blocks(c, j.offset, n))
                      /\ k = [j EXCEPT !.offset = @ + n]
    OBVIOUS
  <1>7. new \in Content
    BY <1>4, <1>5, <1>6, OverlayLemma
  <1>8. /\ remote' \in [File -> Content \cup {None}] /\ Others(w)
        /\ disturbed'[w] = disturbed[w] /\ remote'[j.target] = new
        /\ \A g \in File : g # j.target => remote'[g] = remote[g]
    BY <1>2, <1>4, <1>6, <1>7, PutLemma
  <1>9. j.offset + n \in Nat
    BY <1>4, <1>5
  <1>10. /\ k \in Jobs /\ SameTask(j, k) /\ k.at = "chunk" /\ k.offset = j.offset + n
         /\ k.size = j.size
    BY <1>3, <1>4, <1>6, <1>9 DEF Jobs, SameTask
  <1>11. CopyShape(k)
    BY <1>4, <1>5, <1>10 DEF CopyShape, SameTask
  <1>12. ASSUME ~disturbed[w], j.source # j.target PROVE CopyInv(k, c, new)
    <2>1. /\ c = j.wanted /\ j.wanted \in Content /\ j.size = Len(j.wanted)
          /\ t = Upto(j.wanted, j.offset)
      BY <1>3, <1>4, <1>12 DEF CopyInv, Over
    <2>2. /\ j.offset \in 0..Len(j.wanted) /\ j.offset \in 0..j.offset
          /\ j.offset + n \in 0..Len(j.wanted) /\ ~(j.offset > j.offset + n)
      BY <1>4, <1>5, <1>9, <2>1
    <2>3. Overlay(Upto(j.wanted, j.offset), j.offset, Blocks(j.wanted, j.offset, n))
            = Upto(j.wanted, j.offset + n)
      BY <1>5, <2>1, <2>2, OverlayUpto
    <2>4. new = Upto(j.wanted, j.offset + n)
      BY <1>6, <2>1, <2>3
    <2> QED BY <1>10, <2>1, <2>2, <2>4 DEF CopyInv, Left, SameTask, Over
  <1>13. Continue(w, k)
    BY <1>2, <1>6
  <1> QED BY <1>1, <1>3, <1>4, <1>8, <1>10, <1>11, <1>12, <1>13, CopyStep

\* ServerDone preserves the invariant.
LEMMA ServerDoneStep ==
  ASSUME TransferInv, NEW w \in Worker, ServerDone(w)
  PROVE  TransferInv'
  <1>1. PICK j, k, content : j = job[w] /\ k = Copied(j) /\ content = local[w]
    OBVIOUS
  <1>2. /\ j.at = "chunk" /\ j.offset = j.size /\ Continue(w, k)
        /\ UNCHANGED <<remote, local, disturbed>>
    BY <1>1 DEF ServerDone
  <1>3. /\ j \in Jobs /\ j.kind \in {"copy", "move"} /\ Shape(j, content) /\ CopyShape(j)
        /\ ~disturbed[w] /\ j.source # j.target =>
              CopyInv(j, remote[j.source], remote[j.target])
    BY <1>1, <1>2, CopyFacts
  <1>4. ~disturbed[w] /\ j.source # j.target =>
          remote[j.source] = j.wanted /\ remote[j.target] = j.wanted /\ j.wanted \in Content
    BY <1>2, <1>3, UptoAll DEF CopyInv, Over
  <1>5. k \in Jobs /\ SameTask(j, k) /\ Shape(k, content)
    BY <1>1, <1>3, CopiedLemma
  <1>6. disturbed[w] \/ Faithful(k, content, remote)
    BY <1>1, <1>3, <1>4, CopiedLemma
  <1> QED BY <1>1, <1>2, <1>3, <1>5, <1>6, QuietLemma, StepLemma

\* ServerFails preserves the invariant.
LEMMA ServerFailsStep ==
  ASSUME TransferInv, NEW w \in Worker, ServerFails(w)
  PROVE  TransferInv'
  <1>1. PICK j, k : j = job[w] /\ k = [j EXCEPT !.at = "sweep", !.offset = 0]
    OBVIOUS
  <1>2. /\ j.at \in {"server", "chunk"} /\ Continue(w, k)
        /\ UNCHANGED <<remote, local, disturbed>>
    BY <1>1 DEF ServerFails
  <1>3. /\ j \in Jobs /\ j.kind \in {"copy", "move"} /\ CopyShape(j)
        /\ j.source \in File /\ j.target \in File /\ j.offset \in Nat /\ j.size \in Nat
        /\ ~disturbed[w] /\ j.source # j.target =>
              CopyInv(j, remote[j.source], remote[j.target])
    BY <1>1, <1>2, CopyFacts
  <1>4. k \in Jobs /\ SameTask(j, k) /\ k.at = "sweep" /\ k.offset = 0 /\ k.size = j.size
    BY <1>1, <1>3 DEF Jobs, SameTask, Places
  <1>5. CopyShape(k)
    BY <1>3, <1>4 DEF CopyShape, SameTask
  <1>6. ASSUME ~disturbed[w], j.source # j.target
        PROVE  CopyInv(k, remote[j.source], remote[j.target])
    <2>1. /\ remote[j.source] = j.wanted /\ j.wanted \in Content /\ j.size = Len(j.wanted)
          /\ Left(j, remote[j.target]) /\ Len(j.wanted) \in Nat
          /\ j.at = "server" => remote[j.target] = None
          /\ j.at = "chunk" => remote[j.target] = Upto(j.wanted, j.offset)
      BY <1>2, <1>3, <1>6 DEF CopyInv, Over, Content
    <2>2. j.at = "chunk" => j.offset \in 0..Len(j.wanted)
      BY <1>3, <2>1 DEF CopyShape
    <2>3. Partial(k, remote[j.target])
      BY <1>2, <1>4, <2>1, <2>2 DEF Partial, SameTask
    <2> QED BY <1>4, <2>1, <2>3 DEF CopyInv, Left, SameTask, Over
  <1> QED BY <1>1, <1>2, <1>3, <1>4, <1>5, <1>6, QuietLemma, CopyStep

\* Sweep preserves the invariant.
LEMMA SweepStep ==
  ASSUME TransferInv, NEW w \in Worker, Sweep(w)
  PROVE  TransferInv'
  <1>1. PICK j, at : j = job[w] /\ at = IF j.size = 0 THEN "touch" ELSE "fetch"
    OBVIOUS
  <1>2. PICK k : k = [j EXCEPT !.at = at]
    OBVIOUS
  <1>3. /\ j.at = "sweep" /\ UNCHANGED local /\ Continue(w, k)
        /\ Put(w, j.target, None) \/ UNCHANGED <<remote, disturbed>>
    BY <1>1, <1>2 DEF Sweep
  <1>4. /\ j \in Jobs /\ j.kind \in {"copy", "move"} /\ CopyShape(j)
        /\ j.source \in File /\ j.target \in File /\ j.offset = 0 /\ j.size \in Nat
        /\ ~disturbed[w] /\ j.source # j.target =>
              CopyInv(j, remote[j.source], remote[j.target])
    BY <1>1, <1>3, CopyFacts DEF CopyShape
  <1>5. k \in Jobs /\ SameTask(j, k) /\ k.at = at /\ k.offset = 0 /\ k.size = j.size
    BY <1>1, <1>2, <1>4, AtLemma DEF Places
  <1>6. CopyShape(k)
    BY <1>1, <1>4, <1>5 DEF CopyShape, SameTask
  <1>7. /\ remote' \in [File -> Content \cup {None}] /\ Others(w)
        /\ disturbed'[w] = disturbed[w]
        /\ remote'[j.target] \in {None, remote[j.target]}
        /\ \A g \in File : g # j.target => remote'[g] = remote[g]
    <2>1. CASE Put(w, j.target, None)
      BY <1>4, <2>1, PutLemma
    <2>2. CASE UNCHANGED <<remote, disturbed>>
      BY <2>2, QuietLemma
    <2> QED BY <1>3, <2>1, <2>2
  <1>8. ASSUME ~disturbed[w], j.source # j.target
        PROVE  CopyInv(k, remote'[j.source], remote'[j.target])
    <2>1. PICK t : t = remote'[j.target]
      OBVIOUS
    <2>2. /\ remote[j.source] = j.wanted /\ j.wanted \in Content /\ j.size = Len(j.wanted)
          /\ Left(j, remote[j.target]) /\ Partial(j, remote[j.target])
      BY <1>3, <1>4, <1>8 DEF CopyInv, Over
    <2>3. remote'[j.source] = j.wanted
      BY <1>4, <1>7, <1>8, <2>2
    <2>4. Left(k, t) /\ Partial(k, t)
      BY <1>4, <1>5, <1>7, <2>1, <2>2 DEF Left, Partial, SameTask
    <2>5. CopyInv(k, j.wanted, t)
      BY <1>1, <1>5, <2>2, <2>4 DEF CopyInv, SameTask, Over
    <2> QED BY <2>1, <2>3, <2>5
  <1> QED BY <1>1, <1>3, <1>4, <1>5, <1>6, <1>7, <1>8, CopyStep

\* Touch preserves the invariant.
LEMMA TouchStep ==
  ASSUME TransferInv, NEW w \in Worker, Touch(w)
  PROVE  TransferInv'
  <1>1. PICK j, k, content, new : /\ j = job[w] /\ k = Copied(j) /\ content = local[w]
                                  /\ new = Opened(j.target)
    OBVIOUS
  <1>2. j.at = "touch" /\ UNCHANGED local /\ Put(w, j.target, new) /\ Replied(w, k)
    BY <1>1 DEF Touch
  <1>3. /\ j \in Jobs /\ j.kind \in {"copy", "move"} /\ CopyShape(j) /\ Shape(j, content)
        /\ j.source \in File /\ j.target \in File /\ j.offset \in Nat
        /\ remote[j.target] \in Content \cup {None} /\ j.size = 0
        /\ ~disturbed[w] /\ j.source # j.target =>
              CopyInv(j, remote[j.source], remote[j.target])
    BY <1>1, <1>2, CopyFacts DEF CopyShape
  <1>4. <<>> \in Content
    BY EmptySeq DEF Content
  <1>5. new \in Content
    BY <1>1, <1>3, <1>4 DEF Opened
  <1>6. /\ remote' \in [File -> Content \cup {None}] /\ Others(w)
        /\ disturbed'[w] = disturbed[w] /\ remote'[j.target] = new
        /\ \A g \in File : g # j.target => remote'[g] = remote[g]
    BY <1>2, <1>3, <1>5, PutLemma
  <1>7. PICK files : files = remote'
    OBVIOUS
  <1>8. ASSUME ~disturbed[w], j.source # j.target
        PROVE  files[j.source] = j.wanted /\ files[j.target] = j.wanted /\ j.wanted \in Content
    <2>1. /\ remote[j.source] = j.wanted /\ j.wanted \in Content /\ Len(j.wanted) = 0
          /\ Partial(j, remote[j.target])
      BY <1>2, <1>3, <1>8 DEF CopyInv, Over
    <2>2. j.wanted = <<>> /\ Upto(j.wanted, 0) = <<>>
      BY <2>1, UptoAll, EmptySeq DEF Content
    <2>3. remote[j.target] = None \/ remote[j.target] = <<>>
      <3>1. \A i \in j.offset..0 : i = 0
        BY <1>3
      <3> QED BY <2>1, <2>2, <3>1 DEF Partial
    <2>4. new = <<>>
      BY <1>1, <2>3 DEF Opened
    <2> QED BY <1>3, <1>6, <1>7, <1>8, <2>1, <2>2, <2>4
  <1>9. /\ k \in Jobs /\ SameTask(j, k) /\ Shape(k, content)
        /\ disturbed[w] \/ Faithful(k, content, files)
    BY <1>1, <1>3, <1>8, CopiedLemma
  <1> QED BY <1>1, <1>2, <1>3, <1>6, <1>7, <1>9, StepLemma

\* ReadFileOnce preserves the invariant.
LEMMA ReadFileOnceStep ==
  ASSUME TransferInv, NEW w \in Worker, ReadFileOnce(w)
  PROVE  TransferInv'
  <1>1. PICK j, c : j = job[w] /\ c = remote[j.source]
    OBVIOUS
  <1>2. PICK n \in Readable(j) :
          Continue(w, [j EXCEPT !.buffer = Blocks(c, j.offset, n), !.at = "write"])
    BY <1>1 DEF ReadFileOnce
  <1>3. j.at = "fetch" /\ c # None /\ UNCHANGED <<remote, local, disturbed>>
    BY <1>1 DEF ReadFileOnce
  <1>4. /\ j \in Jobs /\ j.kind \in {"copy", "move"} /\ CopyShape(j)
        /\ j.source \in File /\ j.target \in File /\ j.offset \in Nat /\ j.size \in Nat
        /\ c \in Content /\ j.offset < j.size
        /\ ~disturbed[w] /\ j.source # j.target => CopyInv(j, c, remote[j.target])
    BY <1>1, <1>3, CopyFacts DEF CopyShape
  <1>5. PICK b, k : b = Blocks(c, j.offset, n) /\ k = [j EXCEPT !.buffer = b, !.at = "write"]
    OBVIOUS
  <1>6. /\ n \in Nat /\ j.offset + n <= j.size /\ b \in Content /\ Len(b) = n
        /\ j.offset < Len(c) => n # 0 /\ j.offset + n <= Len(c)
    BY <1>1, <1>4, <1>5, ReadLemma
  <1>7. /\ k \in Jobs /\ SameTask(j, k) /\ k.at = "write" /\ k.offset = j.offset
        /\ k.size = j.size /\ k.buffer = b
    BY <1>4, <1>5, <1>6 DEF Jobs, SameTask, Places
  <1>8. CopyShape(k)
    BY <1>4, <1>6, <1>7 DEF CopyShape, SameTask
  <1>9. ASSUME ~disturbed[w], j.source # j.target PROVE CopyInv(k, c, remote[j.target])
    <2>1. /\ c = j.wanted /\ j.wanted \in Content /\ j.size = Len(j.wanted)
          /\ Left(j, remote[j.target]) /\ Partial(j, remote[j.target])
      BY <1>3, <1>4, <1>9 DEF CopyInv, Over
    <2>2. b # <<>>
      BY <1>4, <1>6, <2>1, EmptySeq DEF Content
    <2>3. Left(k, remote[j.target]) /\ Partial(k, remote[j.target])
      BY <1>7, <2>1 DEF Left, Partial, SameTask
    <2>4. k.buffer = Blocks(k.wanted, k.offset, Len(k.buffer))
      BY <1>5, <1>6, <1>7, <2>1 DEF SameTask
    <2> QED BY <1>7, <2>1, <2>2, <2>3, <2>4 DEF CopyInv, SameTask, Over
  <1> QED BY <1>1, <1>2, <1>3, <1>4, <1>5, <1>7, <1>8, <1>9, QuietLemma, CopyStep

\* Blocks written at their place into a part of what is wanted give a longer part.
LEMMA PartialWrite ==
  ASSUME NEW j \in Jobs, j.wanted \in Content, j.size = Len(j.wanted), NEW t, Partial(j, t),
         NEW d \in Content, d = Blocks(j.wanted, j.offset, Len(d)),
         j.offset + Len(d) <= j.size, NEW c, c = IF t = None THEN <<>> ELSE t
  PROVE  \E m \in (j.offset + Len(d))..Len(j.wanted) :
           Overlay(c, j.offset, d) = Upto(j.wanted, m)
  <1>1. j.offset \in Nat /\ Len(d) \in Nat /\ Len(j.wanted) \in Nat
    BY DEF Jobs, Content
  <1>2. PICK i \in 0..Len(j.wanted) : j.offset <= i /\ c = Upto(j.wanted, i)
    <2>1. CASE j.offset = 0 /\ t = None
      <3>1. c = Upto(j.wanted, 0) /\ 0 \in 0..Len(j.wanted) /\ j.offset <= 0
        BY <1>1, <2>1, UptoAll
      <3> QED BY <3>1
    <2>2. CASE \E i \in j.offset..Len(j.wanted) : t = Upto(j.wanted, i)
      <3>1. PICK i \in j.offset..Len(j.wanted) : t = Upto(j.wanted, i)
        BY <2>2
      <3>2. i \in 0..Len(j.wanted) /\ j.offset <= i
        BY <1>1
      <3>3. t \in Content
        BY <3>1, <3>2, UptoLemma
      <3>4. c = t
        BY <3>3, NoneLemma
      <3> QED BY <3>1, <3>2, <3>4
    <2> QED BY <2>1, <2>2 DEF Partial
  <1>3. j.offset \in 0..i
    BY <1>1, <1>2
  <1>4. PICK m : m = IF i > j.offset + Len(d) THEN i ELSE j.offset + Len(d)
    OBVIOUS
  <1>5. Overlay(Upto(j.wanted, i), j.offset, Blocks(j.wanted, j.offset, Len(d)))
          = Upto(j.wanted, m)
    BY <1>1, <1>3, <1>4, OverlayUpto
  <1>6. m \in (j.offset + Len(d))..Len(j.wanted)
    BY <1>1, <1>4
  <1> QED BY <1>2, <1>5, <1>6

\* A transfer after a block was written.
LEMMA WrittenLemma ==
  ASSUME NEW j \in Jobs, NEW d \in Content, NEW k, k = Written(j, d)
  PROVE  /\ k \in Jobs /\ SameTask(j, k) /\ k.offset = j.offset + Len(d) /\ k.size = j.size
         /\ d # <<>> /\ j.offset + Len(d) < j.size =>
              k.at = IF j.kind = "upload" THEN "write" ELSE "fetch"
         /\ ~(d # <<>> /\ j.offset + Len(d) < j.size) =>
              k.at = IF j.kind = "move" THEN "remove" ELSE "done"
  <1>1. PICK o, next : /\ o = j.offset + Len(d)
                       /\ next = [j EXCEPT !.offset = @ + Len(d), !.buffer = <<>>]
    OBVIOUS
  <1>2. o \in Nat /\ <<>> \in Content
    BY <1>1, EmptySeq DEF Jobs, Content
  <1>3. next \in Jobs /\ SameTask(j, next) /\ next.offset = o /\ next.size = j.size
    BY <1>1, <1>2 DEF Jobs, SameTask
  <1>4. CASE d # <<>> /\ o < j.size
    <2>1. PICK at : at = IF j.kind = "upload" THEN "write" ELSE "fetch"
      OBVIOUS
    <2>2. k = [next EXCEPT !.at = at] /\ at \in Places
      BY <1>1, <1>3, <1>4, <2>1 DEF Written, Places
    <2>3. k \in Jobs /\ SameTask(next, k) /\ k.at = at /\ k.offset = o /\ k.size = j.size
      BY <1>3, <2>2, AtLemma
    <2> QED BY <1>1, <1>3, <1>4, <2>1, <2>3 DEF SameTask
  <1>5. CASE ~(d # <<>> /\ o < j.size)
    <2>1. PICK at : at = IF next.kind = "move" THEN "remove" ELSE "done"
      OBVIOUS
    <2>2. k = [next EXCEPT !.at = at] /\ at \in Places
      BY <1>1, <1>3, <1>5, <2>1 DEF Written, Copied, Places, Over
    <2>3. k \in Jobs /\ SameTask(next, k) /\ k.at = at /\ k.offset = o /\ k.size = j.size
      BY <1>3, <2>2, AtLemma
    <2> QED BY <1>1, <1>3, <1>5, <2>1, <2>3 DEF SameTask
  <1> QED BY <1>4, <1>5

\* What a transfer writes next, whatever has happened to its files.
LEMMA DataLemma ==
  ASSUME TransferInv, NEW w \in Worker, NEW j, j = job[w], j.at = "write"
  PROVE  /\ Data(w) \in Content /\ j.offset + Len(Data(w)) <= j.size
         /\ j.kind = "upload" =>
              /\ Data(w) = Blocks(j.wanted, j.offset, Len(Data(w))) /\ Data(w) # <<>>
              /\ j.wanted \in Content /\ j.size = Len(j.wanted)
  <1>1. /\ j \in Jobs /\ Shape(j, local[w]) /\ j.offset \in Nat /\ j.size \in Nat
        /\ j.buffer \in Content /\ ChunkSize \in Nat \ {0}
    BY JobFacts, SizesAssumption
  <1>2. CASE j.kind = "upload"
    <2>1. /\ j.wanted \in Content /\ local[w] = j.wanted /\ j.size = Len(j.wanted)
          /\ j.offset < j.size
      BY <1>1, <1>2, KindLemma DEF UploadShape
    <2>2. PICK n, d : n = Least(ChunkSize, j.size - j.offset) /\ d = Blocks(j.wanted, j.offset, n)
      OBVIOUS
    <2>3. n \in Nat /\ n # 0 /\ j.offset + n <= j.size
      BY <1>1, <2>1, <2>2, SMTT(30) DEF Least
    <2>4. d \in Content /\ Len(d) = n
      BY <1>1, <2>1, <2>2, <2>3, BlocksLemma
    <2>5. d # <<>>
      BY <2>3, <2>4
    <2>6. Data(w) = d
      BY <1>2, <2>1, <2>2 DEF Data
    <2> QED BY <1>2, <2>1, <2>2, <2>3, <2>4, <2>5, <2>6
  <1>3. CASE j.kind # "upload"
    <2>1. CopyShape(j)
      BY <1>1, <1>3, KindLemma
    <2> QED BY <1>1, <1>3, <2>1 DEF Data, CopyShape
  <1> QED BY <1>2, <1>3

\* WriteFileOnce preserves the invariant.
LEMMA WriteFileOnceStep ==
  ASSUME TransferInv, NEW w \in Worker, WriteFileOnce(w)
  PROVE  TransferInv'
  <1>1. PICK j, d, content, old :
          j = job[w] /\ d = Data(w) /\ content = local[w] /\ old = remote[j.target]
    OBVIOUS
  <1>2. PICK n \in 0..Len(d) :
       /\ remote' = [remote EXCEPT ![j.target] =
                       Overlay(Opened(j.target), IF n = 0 THEN 0 ELSE j.offset,
                               SubSeq(d, 1, n))]
       /\ disturbed' = [v \in Worker |->
            \/ disturbed[v]
            \/ v = w /\ n < Len(d)
            \/ v # w /\ j.target \in {job[v].source, job[v].target}]
    BY <1>1 DEF WriteFileOnce
  <1>3. PICK k, c, from, part, new :
          /\ k = Written(j, d) /\ c = Opened(j.target) /\ from = (IF n = 0 THEN 0 ELSE j.offset)
          /\ part = SubSeq(d, 1, n) /\ new = Overlay(c, from, part)
    OBVIOUS
  <1>4. j.at = "write" /\ UNCHANGED local /\ Replied(w, k)
    BY <1>1, <1>3 DEF WriteFileOnce
  <1>5. /\ j \in Jobs /\ Shape(j, content) /\ j.offset \in Nat /\ j.size \in Nat
        /\ disturbed[w] \/ Faithful(j, content, remote)
        /\ j.kind \in {"upload", "copy", "move"}
    BY <1>1, <1>4, JobFacts, KindLemma
  <1>6. /\ d \in Content /\ j.offset + Len(d) <= j.size /\ Len(d) \in Nat
        /\ j.kind = "upload" =>
              /\ d = Blocks(j.wanted, j.offset, Len(d)) /\ d # <<>>
              /\ j.wanted \in Content /\ j.size = Len(j.wanted)
    BY <1>1, <1>4, DataLemma DEF Content
  <1>7. j.target \in File /\ (j.kind # "upload" => j.source \in File) /\ old \in Content \cup {None}
    BY <1>1, <1>5, KindLemma, JobFacts DEF UploadShape, CopyShape
  <1>8. c = (IF old = None THEN <<>> ELSE old) /\ c \in Content
    BY <1>1, <1>3, <1>7, EmptySeq DEF Opened, Content
  <1>9. part \in Content /\ new \in Content
    <2>1. part \in Content
      BY <1>3, <1>6, UptoLemma DEF Upto
    <2>2. from \in Nat
      BY <1>3, <1>5
    <2> QED BY <1>3, <1>8, <2>1, <2>2, OverlayLemma
  <1>10. /\ remote' \in [File -> Content \cup {None}] /\ remote'[j.target] = new
         /\ \A g \in File : g # j.target => remote'[g] = remote[g]
    BY <1>2, <1>3, <1>7, <1>9 DEF TransferInv, TypeOK
  <1>11. Others(w) /\ (~disturbed'[w] => ~disturbed[w] /\ n = Len(d))
    <2>1. disturbed' \in [Worker -> BOOLEAN]
      BY <1>2 DEF TransferInv, TypeOK
    <2>2. disturbed'[w] <=> disturbed[w] \/ n < Len(d)
      BY <1>2
    <2>3. \A v \in Worker \ {w} : ~disturbed'[v] =>
            ~disturbed[v] /\ j.target \notin {job[v].source, job[v].target}
      BY <1>2
    <2>4. Others(w)
      BY <1>10, <2>1, <2>2, <2>3 DEF Others
    <2> QED BY <1>6, <2>2, <2>4
  <1>12. /\ k \in Jobs /\ SameTask(j, k) /\ k.offset = j.offset + Len(d) /\ k.size = j.size
         /\ d # <<>> /\ j.offset + Len(d) < j.size =>
              k.at = IF j.kind = "upload" THEN "write" ELSE "fetch"
         /\ ~(d # <<>> /\ j.offset + Len(d) < j.size) =>
              k.at = IF j.kind = "move" THEN "remove" ELSE "done"
    BY <1>3, <1>5, <1>6, WrittenLemma
  <1>13. Shape(k, content)
    <2>1. CASE j.kind = "upload"
      BY <1>5, <1>12, <2>1, KindLemma DEF Shape, UploadShape, SameTask, Over
    <2>2. CASE j.kind \in {"copy", "move"}
      BY <1>5, <1>12, <2>2, KindLemma DEF Shape, CopyShape, SameTask, Over
    <2> QED BY <1>5, <2>1, <2>2
  <1>14. ASSUME ~disturbed'[w], j.wanted \in Content, j.size = Len(j.wanted), d # <<>>,
                d = Blocks(j.wanted, j.offset, Len(d)), Partial(j, old)
         PROVE  /\ Left(k, new)
                /\ j.offset + Len(d) < j.size => Partial(k, new)
                /\ ~(j.offset + Len(d) < j.size) => new = j.wanted
    <2>1. n = Len(d) /\ n # 0
      BY <1>6, <1>11, <1>14, EmptySeq DEF Content
    <2>2. from = j.offset /\ part = d
      BY <1>3, <1>6, <2>1, UptoAll DEF Upto
    <2>3. PICK m \in (j.offset + Len(d))..Len(j.wanted) : new = Upto(j.wanted, m)
      <3>1. new = Overlay(c, j.offset, d)
        BY <1>3, <2>2
      <3>2. \E m \in (j.offset + Len(d))..Len(j.wanted) :
              Overlay(c, j.offset, d) = Upto(j.wanted, m)
        BY <1>5, <1>6, <1>8, <1>14, PartialWrite
      <3> QED BY <3>1, <3>2
    <2>4. m \in 0..Len(j.wanted) /\ m \in k.offset..Len(j.wanted)
      BY <1>5, <1>6, <1>12
    <2>5. ~(j.offset + Len(d) < j.size) => m = Len(j.wanted)
      BY <1>5, <1>6, <1>14
    <2> QED BY <1>12, <1>14, <2>3, <2>4, <2>5, UptoAll DEF Left, Partial, SameTask
  <1>15. CASE j.kind = "upload"
    <2>1. ASSUME ~disturbed'[w] PROVE UploadInv(k, new)
      <3>1. Partial(j, old)
        BY <1>1, <1>4, <1>5, <1>11, <1>15, <2>1 DEF Faithful, UploadInv
      <3>2. /\ Left(k, new)
            /\ j.offset + Len(d) < j.size => Partial(k, new)
            /\ ~(j.offset + Len(d) < j.size) => new = j.wanted
        BY <1>6, <1>14, <1>15, <2>1, <3>1
      <3> QED BY <1>6, <1>12, <1>15, <3>2 DEF UploadInv, SameTask
    <2>2. disturbed'[w] \/ Faithful(k, content, remote')
      BY <1>10, <1>12, <1>15, <2>1 DEF Faithful, SameTask
    <2> QED BY <1>1, <1>4, <1>5, <1>10, <1>11, <1>12, <1>13, <2>2, StepLemma
  <1>16. CASE j.kind \in {"copy", "move"}
    <2>1. ASSUME ~disturbed'[w], j.source # j.target PROVE CopyInv(k, remote[j.source], new)
      <3>1. CopyInv(j, remote[j.source], old)
        BY <1>1, <1>5, <1>11, <1>16, <2>1 DEF Faithful
      <3>2. /\ remote[j.source] = j.wanted /\ j.wanted \in Content /\ j.size = Len(j.wanted)
            /\ Partial(j, old) /\ j.buffer # <<>>
            /\ j.buffer = Blocks(j.wanted, j.offset, Len(j.buffer))
        BY <1>4, <3>1 DEF CopyInv, Over
      <3>3. d = j.buffer
        BY <1>1, <1>16 DEF Data
      <3>4. /\ Left(k, new)
            /\ j.offset + Len(d) < j.size => Partial(k, new)
            /\ ~(j.offset + Len(d) < j.size) => new = j.wanted
        BY <1>14, <2>1, <3>2, <3>3
      <3> QED BY <1>12, <1>16, <3>2, <3>3, <3>4 DEF CopyInv, SameTask, Over
    <2>2. disturbed'[w] \/ Faithful(k, content, remote')
      BY <1>7, <1>10, <1>12, <1>16, <2>1 DEF Faithful, SameTask
    <2> QED BY <1>1, <1>4, <1>5, <1>10, <1>11, <1>12, <1>13, <2>2, StepLemma
  <1> QED BY <1>5, <1>15, <1>16

-----------------------------------------------------------------------------
(* move, the start and the end of a transfer, others *)

\* Rename preserves the invariant.
LEMMA RenameStep ==
  ASSUME TransferInv, NEW w \in Worker, Rename(w)
  PROVE  TransferInv'
  <1>1. PICK j, k, c : j = job[w] /\ k = [j EXCEPT !.at = "done"] /\ c = remote[j.source]
    OBVIOUS
  <1>2. /\ j.at = "rename" /\ c # None /\ UNCHANGED local /\ Replied(w, k)
        /\ remote' = [remote EXCEPT ![j.source] = None, ![j.target] = c]
        /\ disturbed' = [v \in Worker |->
             \/ disturbed[v]
             \/ v # w /\ {j.source, j.target} \cap {job[v].source, job[v].target} # {}]
    BY <1>1 DEF Rename
  <1>3. /\ j \in Jobs /\ j.kind = "move" /\ CopyShape(j)
        /\ j.source \in File /\ j.target \in File /\ c \in Content
        /\ ~disturbed[w] /\ j.source # j.target => CopyInv(j, c, remote[j.target])
    BY <1>1, <1>2, CopyFacts DEF CopyShape
  <1>4. /\ remote' \in [File -> Content \cup {None}] /\ remote'[j.target] = c
        /\ \A g \in File \ {j.source, j.target} : remote'[g] = remote[g]
    BY <1>2, <1>3 DEF TransferInv, TypeOK
  <1>5. Others(w) /\ disturbed'[w] = disturbed[w]
    <2>1. disturbed' \in [Worker -> BOOLEAN] /\ disturbed'[w] = disturbed[w]
      BY <1>2 DEF TransferInv, TypeOK
    <2>2. \A v \in Worker \ {w} : ~disturbed'[v] =>
            ~disturbed[v] /\ {j.source, j.target} \cap {job[v].source, job[v].target} = {}
      BY <1>2
    <2>3. \A v \in Worker \ {w} : ~disturbed'[v] =>
            \A f \in File : f \in {job[v].source, job[v].target} => remote'[f] = remote[f]
      BY <1>4, <2>2
    <2> QED BY <2>1, <2>2, <2>3 DEF Others
  <1>6. k \in Jobs /\ SameTask(j, k) /\ k.at = "done"
    BY <1>1, <1>3, AtLemma DEF Places, Over
  <1>7. CopyShape(k)
    BY <1>3, <1>6 DEF CopyShape, SameTask
  <1>8. ASSUME ~disturbed[w], j.source # j.target, NEW source PROVE CopyInv(k, source, c)
    <2>1. c = j.wanted
      BY <1>2, <1>3, <1>8 DEF CopyInv, Over
    <2>2. Left(k, c)
      BY <1>3, <1>6, <2>1, UptoAll DEF Left, SameTask
    <2> QED BY <1>3, <1>6, <2>1, <2>2 DEF CopyInv, SameTask, Over
  <1> QED BY <1>1, <1>2, <1>3, <1>4, <1>5, <1>6, <1>7, <1>8, CopyStep

\* RemoveSource preserves the invariant.
LEMMA RemoveSourceStep ==
  ASSUME TransferInv, NEW w \in Worker, RemoveSource(w)
  PROVE  TransferInv'
  <1>1. PICK j, k : j = job[w] /\ k = [j EXCEPT !.at = "done"]
    OBVIOUS
  <1>2. j.at = "remove" /\ UNCHANGED local /\ Put(w, j.source, None) /\ Replied(w, k)
    BY <1>1 DEF RemoveSource
  <1>3. /\ j \in Jobs /\ j.kind = "move" /\ CopyShape(j)
        /\ j.source \in File /\ j.target \in File
        /\ ~disturbed[w] /\ j.source # j.target =>
              CopyInv(j, remote[j.source], remote[j.target])
    BY <1>1, <1>2, CopyFacts DEF CopyShape
  <1>4. /\ remote' \in [File -> Content \cup {None}] /\ Others(w)
        /\ disturbed'[w] = disturbed[w]
        /\ \A g \in File : g # j.source => remote'[g] = remote[g]
    BY <1>2, <1>3, PutLemma
  <1>5. k \in Jobs /\ SameTask(j, k) /\ k.at = "done"
    BY <1>1, <1>3, AtLemma DEF Places, Over
  <1>6. CopyShape(k)
    BY <1>3, <1>5 DEF CopyShape, SameTask
  <1>7. ASSUME ~disturbed[w], j.source # j.target, NEW source
        PROVE  CopyInv(k, source, remote[j.target])
    <2>1. remote[j.target] = j.wanted /\ Left(j, remote[j.target])
      BY <1>2, <1>3, <1>7 DEF CopyInv, Over
    <2> QED BY <1>3, <1>5, <2>1 DEF CopyInv, Left, SameTask, Over
  <1> QED BY <1>1, <1>2, <1>3, <1>4, <1>5, <1>6, <1>7, CopyStep

\* Fails preserves the invariant.
LEMMA FailsStep ==
  ASSUME TransferInv, NEW w \in Worker, Fails(w)
  PROVE  TransferInv'
  <1>1. PICK j, l, content : /\ j = job[w] /\ content = local[w]
                             /\ l = [j EXCEPT !.at = "failed"]
    OBVIOUS
  <1>2. /\ j.at # "idle" /\ job' = [job EXCEPT ![w] = l]
        /\ UNCHANGED <<remote, local, disturbed>>
    BY <1>1 DEF Fails
  <1>3. /\ j \in Jobs /\ Shape(j, content) /\ content \in Content \cup {None}
        /\ disturbed[w] \/ Faithful(j, content, remote)
        /\ local' = [local EXCEPT ![w] = content]
    BY <1>1, <1>2, JobFacts
  <1>4. j.kind # "none" /\ SameTask(j, j)
    BY <1>2, <1>3, KindLemma DEF SameTask
  <1>5. /\ l \in Jobs /\ Shape(l, content)
        /\ Faithful(j, content, remote) => Faithful(l, content, remote)
    BY <1>1, <1>3, <1>4, LostLemma
  <1> QED BY <1>2, <1>3, <1>5, QuietLemma, FrameLemma

\* A worker without a transfer.
LEMMA NoJobLemma == NoJob \in Jobs
  <1>1. <<>> \in Content
    BY EmptySeq DEF Content
  <1> QED BY <1>1 DEF NoJob, Jobs, Places

\* A new file is a content.
LEMMA FreshLemma ==
  ASSUME NEW owner \in File \cup Worker, NEW n \in Nat
  PROVE  Fresh(owner, n) \in Content /\ Len(Fresh(owner, n)) = n
  <1>1. \A i \in 1..n : <<owner, i>> \in Block
    BY DEF Block
  <1> QED BY <1>1 DEF Fresh, Content

\* Start preserves the invariant.
LEMMA StartStep ==
  ASSUME TransferInv, NEW w \in Worker, Start(w)
  PROVE  TransferInv'
  <1>1. /\ \A f \in File : remote[f] \in Content \cup {None}
        /\ local[w] \in Content \cup {None} /\ local = [local EXCEPT ![w] = local[w]]
    BY JobFacts
  <1>2. ASSUME NEW f \in File, StartDownload(w, f) PROVE TransferInv'
    <2>1. PICK k : k = [NoJob EXCEPT !.kind = "download", !.source = f, !.at = "open",
                                     !.wanted = remote[f]]
      OBVIOUS
    <2>2. /\ job' = [job EXCEPT ![w] = k] /\ UNCHANGED <<remote, disturbed, local>>
      BY <1>2, <2>1 DEF StartDownload, Begin
    <2>3. /\ k.kind = "download" /\ k.source = f /\ k.target = None /\ k.at = "open"
          /\ k.wanted = remote[f] /\ k.offset = 0
      BY <2>1 DEF NoJob
    <2>4. k \in Jobs
      BY <1>1, <2>1, NoJobLemma DEF Jobs, Places
    <2>5. Shape(k, local[w]) /\ Faithful(k, local[w], remote)
      BY <2>3 DEF Shape, DownloadShape, Faithful, DownloadInv
    <2> QED BY <1>1, <2>2, <2>4, <2>5, QuietLemma, FrameLemma
  <1>3. ASSUME NEW f \in File, NEW n \in Sizes, StartUpload(w, f, n) PROVE TransferInv'
    <2>1. PICK k, c : /\ c = Fresh(w, n)
                      /\ k = [NoJob EXCEPT !.kind = "upload", !.target = f, !.at = "stat",
                                           !.size = n, !.wanted = c, !.old = remote[f]]
      OBVIOUS
    <2>2. /\ job' = [job EXCEPT ![w] = k] /\ local' = [local EXCEPT ![w] = c]
          /\ UNCHANGED <<remote, disturbed>>
      BY <1>3, <2>1 DEF StartUpload, Begin
    <2>3. n \in Nat /\ c \in Content /\ Len(c) = n
      BY <2>1, FreshLemma, SizesAssumption
    <2>4. /\ k.kind = "upload" /\ k.source = None /\ k.target = f /\ k.at = "stat"
          /\ k.wanted = c /\ k.offset = 0 /\ k.size = n /\ k.old = remote[f]
      BY <2>1 DEF NoJob
    <2>5. k \in Jobs
      BY <1>1, <2>1, <2>3, NoJobLemma DEF Jobs, Places
    <2>6. Shape(k, c) /\ Faithful(k, c, remote)
      BY <2>3, <2>4 DEF Shape, UploadShape, Faithful, UploadInv, Left
    <2> QED BY <2>2, <2>3, <2>5, <2>6, QuietLemma, FrameLemma
  <1>4. ASSUME NEW kind \in {"copy", "move"}, NEW s \in File, NEW t \in File,
               NEW same \in BOOLEAN, StartCopy(w, kind, s, t, same)
        PROVE  TransferInv'
    <2>1. PICK at : at = IF kind = "move" /\ same THEN "rename" ELSE "source"
      OBVIOUS
    <2>2. PICK k : k = [NoJob EXCEPT !.kind = kind, !.source = s, !.target = t,
                                     !.same = same, !.wanted = remote[s],
                                     !.old = remote[t], !.at = at]
      OBVIOUS
    <2>3. /\ job' = [job EXCEPT ![w] = k] /\ UNCHANGED <<remote, disturbed, local>>
      BY <1>4, <2>1, <2>2 DEF StartCopy, Begin
    <2>4. /\ k.kind = kind /\ k.source = s /\ k.target = t /\ k.at = at
          /\ k.wanted = remote[s] /\ k.offset = 0 /\ k.old = remote[t]
      BY <2>2 DEF NoJob
    <2>5. k \in Jobs
      <3>1. at \in Places
        BY <2>1 DEF Places
      <3>2. <<>> \in Content
        BY EmptySeq DEF Content
      <3>3. k = [kind |-> kind, source |-> s, target |-> t, same |-> same, at |-> at,
                 offset |-> 0, size |-> 0, buffer |-> <<>>, wanted |-> remote[s],
                 old |-> remote[t]]
        BY <2>2 DEF NoJob
      <3> QED BY <1>1, <3>1, <3>2, <3>3 DEF Jobs
    <2>6. at \in {"rename", "source"} /\ (at = "rename" => kind = "move")
      BY <2>1
    <2>7. Shape(k, local[w]) /\ Faithful(k, local[w], remote)
      BY <2>4, <2>6 DEF Shape, CopyShape, Faithful, CopyInv, Left, Over
    <2> QED BY <1>1, <2>3, <2>5, <2>7, QuietLemma, FrameLemma
  <1> QED BY <1>2, <1>3, <1>4 DEF Start

\* Shorten preserves the invariant.
LEMMA ShortenStep ==
  ASSUME TransferInv, NEW f \in File, Shorten(f)
  PROVE  TransferInv'
  <1>1. /\ remote[f] # None /\ remote[f] # <<>> /\ UNCHANGED <<local, job>>
        /\ remote' = [remote EXCEPT ![f] = Front(@)]
        /\ disturbed' = [v \in Worker |-> disturbed[v] \/ f \in {job[v].source, job[v].target}]
    BY DEF Shorten
  <1>2. Front(remote[f]) \in Content
    <2>1. PICK c : c = remote[f]
      OBVIOUS
    <2>2. c \in Content /\ c # <<>>
      BY <1>1, <2>1 DEF TransferInv, TypeOK
    <2>3. Len(c) - 1 \in 0..Len(c)
      BY <2>2, EmptySeq DEF Content
    <2>4. Upto(c, Len(c) - 1) \in Content
      BY <2>2, <2>3, UptoLemma
    <2> QED BY <2>1, <2>4 DEF Front, Upto
  <1>3. TypeOK'
    BY <1>1, <1>2 DEF TransferInv, TypeOK
  <1>4. Shapes'
    BY <1>1 DEF TransferInv, Shapes, Shape, DownloadShape, UploadShape, CopyShape
  <1>5. ASSUME NEW v \in Worker PROVE disturbed'[v] \/ Faithful(job[v], local[v], remote')
    <2>1. PICK j : j = job[v]
      OBVIOUS
    <2>2. /\ Shape(j, local[v]) /\ (disturbed[v] \/ Faithful(j, local[v], remote))
          /\ j.kind \in {"none", "download", "upload", "copy", "move"}
      BY <2>1, JobFacts
    <2>3. ~disturbed'[v] => ~disturbed[v] /\ f \notin {j.source, j.target}
      BY <1>1, <2>1
    <2>4. \A g \in File : g # f => remote'[g] = remote[g]
      BY <1>1 DEF TransferInv, TypeOK
    <2>5. ASSUME ~disturbed'[v] PROVE Faithful(j, local[v], remote')
      <3>1. \A g \in File : g \in {j.source, j.target} => remote'[g] = remote[g]
        BY <2>3, <2>4, <2>5
      <3> QED BY <2>2, <2>3, <2>5, <3>1, KeptFaithful
    <2> QED BY <2>1, <2>5
  <1> QED BY <1>1, <1>3, <1>4, <1>5 DEF TransferInv, Faithful

-----------------------------------------------------------------------------
(* The theorems. *)

\* The invariant holds at the start.
LEMMA TransferInvInit == Init => TransferInv
  <1> SUFFICES ASSUME Init PROVE TransferInv
    OBVIOUS
  <1>1. remote \in [File -> Content \cup {None}]
    <2>1. CASE remote \in [File -> {None}]
      BY <2>1
    <2>2. CASE \E there \in SUBSET File, size \in [File -> Sizes] :
                 remote = [f \in File |-> IF f \in there THEN Fresh(f, size[f]) ELSE None]
      <3>1. PICK there \in SUBSET File, size \in [File -> Sizes] :
              remote = [f \in File |-> IF f \in there THEN Fresh(f, size[f]) ELSE None]
        BY <2>2
      <3>2. \A f \in File : Fresh(f, size[f]) \in Content
        BY FreshLemma, SizesAssumption
      <3> QED BY <3>1, <3>2
    <2> QED BY <2>1, <2>2 DEF Init
  <1>2. TypeOK
    BY <1>1, NoJobLemma DEF Init, TypeOK
  <1>3. NoJob.kind = "none"
    BY DEF NoJob
  <1> QED BY <1>2, <1>3 DEF Init, TransferInv, Shapes, Shape, Faithful

\* Every step preserves it.
LEMMA TransferInvStep == TransferInv /\ [Next]_vars => TransferInv'
  <1> SUFFICES ASSUME TransferInv, [Next]_vars PROVE TransferInv'
    OBVIOUS
  <1>1. ASSUME NEW w \in Worker, Work(w) PROVE TransferInv'
    BY <1>1, OpenRemoteStep, OpenLocalStep, ReadFileChunkStep, StatSourceStep,
       StatTargetStep, DeleteTargetStep, ServerOpenStep, ServerChunkStep, ServerDoneStep,
       ServerFailsStep, SweepStep, TouchStep, ReadFileOnceStep, WriteFileOnceStep,
       RenameStep, RemoveSourceStep, FailsStep DEF Work
  <1>2. ASSUME UNCHANGED vars PROVE TransferInv'
    BY <1>2 DEF vars, TransferInv, TypeOK, Shapes, Shape, DownloadShape, UploadShape,
                CopyShape, Faithful
  <1> QED BY <1>1, <1>2, StartStep, ShortenStep DEF Next, Finished

\* The inductive invariant of all transfers.
THEOREM TransferInvariant == Spec => []TransferInv
  BY TransferInvInit, TransferInvStep, PTL DEF Spec

\* NativeSmbClient: a transfer that reports success has transferred the whole file,
\* whatever was lost or given up on the way; for any number and size of files.
THEOREM TransfersAreFaithful == Spec => []SuccessIsFaithful
  <1>1. TransferInv => SuccessIsFaithful
    <2> SUFFICES ASSUME TransferInv, NEW w \in Worker, NEW j, j = job[w], j.at = "done",
                        ~disturbed[w]
                 PROVE  CASE j.kind = "download" -> local[w] = j.wanted
                          [] j.kind = "upload" -> j.wanted = <<>> \/ remote[j.target] = j.wanted
                          [] OTHER -> j.source = j.target \/ remote[j.target] = j.wanted
      BY DEF SuccessIsFaithful
    <2>1. j \in Jobs /\ Shape(j, local[w]) /\ Faithful(j, local[w], remote)
      BY JobFacts
    <2>2. j.kind \in {"download", "upload", "copy", "move"}
      BY <2>1, KindLemma DEF Jobs
    <2>3. CASE j.kind = "download"
      BY <2>1, <2>3 DEF Faithful, DownloadInv
    <2>4. CASE j.kind = "upload"
      <3>1. j.wanted \in Content /\ Len(j.wanted) = j.size
        BY <2>1, <2>4, KindLemma DEF UploadShape
      <3>2. j.size = 0 => j.wanted = <<>>
        BY <3>1, EmptySeq DEF Content
      <3> QED BY <2>1, <2>4, <3>2 DEF Faithful, UploadInv
    <2>5. CASE j.kind \in {"copy", "move"}
      BY <2>1, <2>5 DEF Faithful, CopyInv
    <2> QED BY <2>2, <2>3, <2>4, <2>5
  <1> QED BY <1>1, TransferInvariant, PTL

\* NativeSmbClient::copy and move: the source is there until, for a move, the target
\* holds all of it, wherever the transfer fails.
THEOREM SourcesSurvive == Spec => []SourceSurvives
  <1>1. TransferInv => SourceSurvives
    <2> SUFFICES ASSUME TransferInv, NEW w \in Worker, NEW j, j = job[w],
                        j.kind \in {"copy", "move"}, ~disturbed[w], j.source # j.target
                 PROVE  \/ remote[j.source] = j.wanted
                        \/ j.kind = "move" /\ remote[j.target] = j.wanted
      BY DEF SourceSurvives
    <2>1. Faithful(j, local[w], remote)
      BY JobFacts
    <2> QED BY <2>1 DEF Faithful, CopyInv
  <1> QED BY <1>1, TransferInvariant, PTL

\* NativeSmbClient: at every moment the target of a transfer is the old file, no file or
\* a beginning of the new one.
THEOREM TargetsAreNoMixture == Spec => []NoMixture
  <1>1. TransferInv => NoMixture
    <2> SUFFICES ASSUME TransferInv, NEW w \in Worker, NEW j, j = job[w],
                        j.target # None, ~disturbed[w], j.source # j.target
                 PROVE  \/ remote[j.target] \in {j.old, None}
                        \/ j.wanted # None /\ IsPrefix(remote[j.target], j.wanted)
      BY DEF NoMixture
    <2>1. j \in Jobs /\ Shape(j, local[w]) /\ Faithful(j, local[w], remote)
      BY JobFacts
    <2>2. j.kind \in {"upload", "copy", "move"}
      BY <2>1, KindLemma DEF Jobs, DownloadShape, Shape, NoJob
    <2>3. Left(j, remote[j.target])
      BY <2>1, <2>2 DEF Faithful, UploadInv, CopyInv
    <2>4. ASSUME j.wanted \in Content, NEW n \in 0..Len(j.wanted),
                 remote[j.target] = Upto(j.wanted, n)
          PROVE  j.wanted # None /\ IsPrefix(remote[j.target], j.wanted)
      <3>1. PICK t : t = Upto(j.wanted, n)
        OBVIOUS
      <3>2. t \in Content /\ Len(t) = n /\ n <= Len(j.wanted)
        BY <2>4, <3>1, UptoLemma
      <3>3. SubSeq(t, 1, Len(t)) = t /\ SubSeq(j.wanted, 1, Len(t)) = t
        BY <3>1, <3>2, UptoAll DEF Upto
      <3> QED BY <2>4, <3>1, <3>2, <3>3, NoneLemma DEF IsPrefix
    <2> QED BY <2>3, <2>4 DEF Left
  <1> QED BY <1>1, TransferInvariant, PTL

=============================================================================
